------------------------------ MODULE Components ------------------------------
(***************************************************************************)
(* The components that are installed to build on: their versions and the   *)
(* ranges of them that a dependency may ask for (semver.py), the registry  *)
(* that knows where they are and which extensions are installed            *)
(* (registry.py), and the dependency manager of iotile-build, which copies *)
(* what a registered component was built into to the component that        *)
(* depends on it (depmanager.py, resolverchain.py, registry_resolver.py).  *)
(*                                                                         *)
(* A component's folder has a source, whose version its developer edits,   *)
(* and an output, of the version and the time of the last build.           *)
(***************************************************************************)
EXTENDS None, FiniteSetsExt, SequencesExt

CONSTANTS
    CmpFolders,      \* component folders,
    CmpName(_),      \* the component that each of them is,
    CmpVersions,     \* and the versions they have
    CmpRequired,     \* ranges that a dependency may ask for, as <<operator, version>>
    CmpPlugins,      \* extensions that are installed
    CmpMaxBuilds, CmpMaxEdits,   \* bounds: builds; changes of sources, registry and needs
    CmpNumbers,      \* cases: the numbers of a version,
    CmpTogether      \* and how many components are installed together

VARIABLES
    cmpStore,     \* by name: the folder that is registered, or NULL
    cmpOverlays,  \* by name: the folder that is registered for this session, or NULL
    cmpSource,    \* by folder: the version of the source
    cmpBuilt,     \* by folder: the [version, date] of its output, or NULL
    cmpNeeds,     \* by name: the range that the component being built asks for, or NULL
    cmpDeps,      \* by name: what its build/deps holds: [version, date, settings], or NULL
    cmpUpdate,    \* NULL, or the update's [left: dependencies, local: only registered ones]
    cmpQuiet,     \* history: nothing was changed since the last update began
    cmpExt,       \* [installed, registered]: sets of extensions; [file, cache]: or NULL;
                  \* refrozen: history: frozen anew since the file was read
    cmpCount      \* history: [builds, edits]

cmpVars == <<cmpStore, cmpOverlays, cmpSource, cmpBuilt, cmpNeeds, cmpDeps, cmpUpdate,
             cmpQuiet, cmpExt, cmpCount>>

CmpNames == {CmpName(f) : f \in CmpFolders}

-----------------------------------------------------------------------------
(* Versions: <<major, minor, patch, rank of its type, prerelease number>>. *)

prerelease_order == <<"build", "alpha", "beta", "rc", "release">>
Released(tuple) == tuple \o <<5, 0>>
release_tuple(v) == SubSeq(v, 1, 3)
is_prerelease(v) == v[4] < 5

VersionLess(v, w) == \E i \in 1..5 : v[i] < w[i] /\ SubSeq(v, 1, i - 1) = SubSeq(w, 1, i - 1)

FirstNonzero(v) == Min({3} \cup {i \in 1..3 : v[i] # 0})

coexistence_class(v) == [i \in 1..3 |-> IF i <= FirstNonzero(v) THEN v[i] ELSE 0]

\* (The numbers after it stay.)
IncrementKeeping(v) == Released([release_tuple(v) EXCEPT ![FirstNonzero(v)] = @ + 1])
inc_first_nonzero(v) ==
    Released([i \in 1..3 |-> IF i = FirstNonzero(v) THEN v[i] + 1 ELSE coexistence_class(v)[i]])
dec_first_nonzero(v) ==   \* 0.0.0 is refused
    Released([i \in 1..3 |-> IF i = FirstNonzero(v) THEN v[i] - 1 ELSE coexistence_class(v)[i]])

\* The text of a version: pieces [word, number], joined by "-" into parts, joined by ".".
Plain(n) == [word |-> "", number |-> n]
VersionText(v) ==
    LET prerelease == [word |-> prerelease_order[v[4]], number |-> v[5]]
    IN  <<<<Plain(v[1])>>, <<Plain(v[2])>>,
          IF is_prerelease(v) THEN <<Plain(v[3]), prerelease>> ELSE <<Plain(v[3])>>>>

\* NULL where the text is refused.
ParsedVersion(text) ==
    LET numbers == [i \in 1..3 |-> text[i][1].number]
        words == Range(SubSeq(prerelease_order, 1, 4))
        last == text[3]
    IN  IF Len(text) # 3 THEN NULL
        ELSE IF \E i \in 1..3 : text[i][1].word # "" \/ numbers[i] = NULL THEN NULL
        ELSE IF Len(text[1]) > 1 \/ Len(text[2]) > 1 \/ Len(last) > 2 THEN NULL
        ELSE IF Len(last) = 1 THEN Released(numbers)
        ELSE IF last[2].word \notin words \/ last[2].number = NULL THEN NULL
        ELSE numbers \o <<CHOOSE i \in 1..4 : prerelease_order[i] = last[2].word, last[2].number>>

\* As a Python package's version; a prerelease's word follows the number at once.
pep440_string(v) ==
    LET word == <<".dev", "a", "b", "rc">>
    IN  IF is_prerelease(v) THEN <<release_tuple(v), word[v[4]], v[5]>> ELSE <<release_tuple(v)>>

-----------------------------------------------------------------------------
(* Ranges of versions. *)

VersionRange(op, v) ==
    CASE op = "*" -> [lower |-> NULL, upper |-> NULL, closed |-> TRUE]
      [] op = "^" -> [lower |-> v, upper |-> inc_first_nonzero(v), closed |-> FALSE]
      [] op = "=" -> [lower |-> v, upper |-> v, closed |-> TRUE]

\* Prereleases match only a range that names one, with the numbers of one of its ends.
InRange(v, range) ==
    LET ends == {range.lower, range.upper}
    IN  \/ ends = {NULL}
        \/ /\ range.lower # NULL => ~VersionLess(v, range.lower)
           /\ range.upper # NULL => VersionLess(v, range.upper) \/ (range.closed /\ v = range.upper)
           /\ is_prerelease(v) =>
                  /\ \E e \in ends \ {NULL} : is_prerelease(e)
                  /\ \E e \in ends : e = NULL \/ release_tuple(e) = release_tuple(v)
Matches(v, need) == InRange(v, VersionRange(need[1], need[2]))

\* Each of some installed <<component, version>> is compared with the first one seen of its
\* component: ensure_compatible.
EnsureCompatible(seen) ==
    \A i \in DOMAIN seen :
        LET first == CHOOSE j \in 1..i : /\ seen[j][1] = seen[i][1]
                                         /\ \A k \in 1..(j - 1) : seen[k][1] # seen[i][1]
        IN  coexistence_class(seen[first][2]) = coexistence_class(seen[i][2])

-----------------------------------------------------------------------------
(* What the hardware manager (iotile/core/hw/hwmanager.py) chooses by version: *)
(* the proxy of a tile and the app of a device.                                *)

Zero == Released(<<0, 0, 0>>)

\* _setup_proxies(): a proxy has the name of the tiles it is for, and their versions or NULL.
ProxiesNamed(loaded, name) == SelectSeq(loaded, LAMBDA p : p.name = name)

\* (A proxy without versions always takes over.)
OfferTakingOver(found, proxy, version) ==
    IF proxy.versions = NULL THEN [found EXCEPT !.best = proxy]
    ELSE IF found.raised \/ ~Matches(version, proxy.versions) THEN found
    ELSE LET least == VersionRange(proxy.versions[1], proxy.versions[2]).lower
         IN  IF least = NULL THEN [found EXCEPT !.raised = TRUE]
             ELSE IF VersionLess(found.least, least)
             THEN [found EXCEPT !.best = proxy, !.least = least] ELSE found

\* A proxy without versions is taken until one fits that is for versions above 0.0.0; one for
\* all versions has none to compare, which raises.
Offer(found, proxy, version) ==
    LET least == VersionRange(proxy.versions[1], proxy.versions[2]).lower
    IN  IF found.raised THEN found
        ELSE IF proxy.versions = NULL
        THEN IF found.least = Zero THEN [found EXCEPT !.best = proxy] ELSE found
        ELSE IF ~Matches(version, proxy.versions) THEN found
        ELSE IF least = NULL THEN [found EXCEPT !.raised = TRUE]
        ELSE IF VersionLess(found.least, least) THEN [found EXCEPT !.best = proxy, !.least = least]
        ELSE found
find_correct_proxy_version(proxies, version) ==
    FoldLeft(LAMBDA found, p : Offer(found, p, version),
             [best |-> NULL, least |-> Zero, raised |-> FALSE], proxies)

\* When none fits it is the first of the name.
get_proxy(loaded, name, version) ==
    LET proxies == ProxiesNamed(loaded, name)
        found == find_correct_proxy_version(proxies, version)
    IN  IF proxies = <<>> \/ found.raised THEN NULL
        ELSE IF found.best = NULL THEN proxies[1] ELSE found.best

\* _setup_apps(): the matches of a tag in the order in which they were loaded; app() takes the
\* first of those that fit and are of the highest quality, NULL when there is none.
AppsTagged(loaded, tag) == SelectSeq(loaded, LAMBDA a : a.tag = tag)
app(loaded, tag, version) ==
    FoldLeft(LAMBDA best, a :
                 IF ~Matches(version, a.versions) THEN best
                 ELSE IF best = NULL THEN a
                 ELSE IF a.quality > best.quality THEN a ELSE best,
             NULL, AppsTagged(loaded, tag))

-----------------------------------------------------------------------------
(* The registry. *)

CmpInit ==
    /\ cmpStore = [n \in CmpNames |-> NULL] /\ cmpOverlays = cmpStore /\ cmpNeeds = cmpStore
    /\ cmpDeps = cmpStore
    /\ cmpSource \in [CmpFolders -> CmpVersions]
    /\ cmpBuilt = [f \in CmpFolders |-> NULL]
    /\ cmpUpdate = NULL /\ cmpQuiet = FALSE
    /\ cmpExt = [installed |-> {}, registered |-> {}, file |-> NULL, cache |-> NULL,
                 refrozen |-> FALSE]
    /\ cmpCount = [builds |-> 0, edits |-> 0]

\* Something changes of what an update reads.
Edited ==
    /\ cmpCount.edits < CmpMaxEdits /\ cmpCount' = [cmpCount EXCEPT !.edits = @ + 1]
    /\ cmpQuiet' = FALSE
    /\ UNCHANGED <<cmpDeps, cmpUpdate, cmpExt>>

add_component(f, temporary) ==
    /\ Edited
    /\ IF temporary
       THEN cmpOverlays' = [cmpOverlays EXCEPT ![CmpName(f)] = f] /\ UNCHANGED cmpStore
       ELSE cmpStore' = [cmpStore EXCEPT ![CmpName(f)] = f] /\ UNCHANGED cmpOverlays
    /\ UNCHANGED <<cmpSource, cmpBuilt, cmpNeeds>>

remove_component(n) ==
    /\ Edited
    /\ cmpStore[n] # NULL
    /\ cmpStore' = [cmpStore EXCEPT ![n] = NULL]
    /\ UNCHANGED <<cmpOverlays, cmpSource, cmpBuilt, cmpNeeds>>

clear_components ==
    /\ Edited
    /\ cmpOverlays' = [n \in CmpNames |-> NULL] /\ cmpStore' = cmpOverlays'
    /\ UNCHANGED <<cmpSource, cmpBuilt, cmpNeeds>>

\* Dependencies are sought in the store alone, extensions in the overlays first.
find_component(n) == cmpStore[n]
get_component(n) == IF cmpOverlays[n] # NULL THEN cmpOverlays[n] ELSE cmpStore[n]
list_components == {n \in CmpNames : cmpStore[n] # NULL \/ cmpOverlays[n] # NULL}

\* The developers: a new version, another need, a build.
NewVersion(f, v) ==
    /\ Edited
    /\ cmpSource' = [cmpSource EXCEPT ![f] = v]
    /\ UNCHANGED <<cmpStore, cmpOverlays, cmpBuilt, cmpNeeds>>
Require(n, need) ==
    /\ cmpUpdate = NULL
    /\ Edited
    /\ cmpNeeds' = [cmpNeeds EXCEPT ![n] = need]
    /\ UNCHANGED <<cmpStore, cmpOverlays, cmpSource, cmpBuilt>>
Build(f) ==
    /\ cmpCount.builds < CmpMaxBuilds
    /\ cmpCount' = [cmpCount EXCEPT !.builds = @ + 1]
    /\ cmpBuilt' = [cmpBuilt EXCEPT ![f] = [version |-> cmpSource[f],
                                            date |-> cmpCount.builds + 1]]
    /\ cmpQuiet' = FALSE
    /\ UNCHANGED <<cmpStore, cmpOverlays, cmpSource, cmpNeeds, cmpDeps, cmpUpdate, cmpExt>>

-----------------------------------------------------------------------------
(* The dependency manager: one dependency after the other. *)

Untouched == UNCHANGED <<cmpStore, cmpOverlays, cmpSource, cmpBuilt, cmpNeeds, cmpExt, cmpCount>>

UpdateBegins(local) ==
    /\ cmpUpdate = NULL
    /\ cmpUpdate' = [left |-> {n \in CmpNames : cmpNeeds[n] # NULL}, local |-> local]
    /\ cmpQuiet' = TRUE
    /\ UNCHANGED cmpDeps /\ Untouched

\* update_local leaves alone what is not registered.
NotLocal(n) == cmpUpdate.local /\ find_component(n) = NULL

\* What a dependency asks for is registered: its folder, or NULL.
Resolved(n) ==
    LET f == find_component(n)
    IN  IF f = NULL THEN NULL ELSE IF Matches(cmpSource[f], cmpNeeds[n]) THEN f ELSE NULL

\* Whether what is installed stays: it is known who installed it, and what is registered is
\* neither of a later version nor built later.
Known(n) == cmpDeps[n] # NULL /\ cmpDeps[n].settings

\* (The dates are not looked at.)
CheckVersion(n) ==
    /\ Known(n)
    /\ Resolved(n) # NULL => ~VersionLess(cmpDeps[n].version, cmpSource[Resolved(n)])
check(n) ==
    LET f == Resolved(n)
    IN  /\ Known(n)
        /\ f # NULL =>
              /\ ~VersionLess(cmpDeps[n].version, cmpSource[f])
              /\ cmpBuilt[f] # NULL => cmpBuilt[f].date <= cmpDeps[n].date

\* A dependency that is not up to date is removed before it is resolved; a component that was
\* never built ends the update.  (The process may end before the settings are saved.)
update_dependency(n, dies) ==
    LET f == Resolved(n)
        skipped == NotLocal(n)
        copied == ~skipped /\ ~check(n) /\ f # NULL
        refused == copied /\ cmpBuilt[f] = NULL
    IN  /\ cmpUpdate # NULL /\ n \in cmpUpdate.left
        /\ dies => copied /\ ~refused
        /\ cmpDeps' = IF skipped \/ check(n) THEN cmpDeps
                      ELSE [cmpDeps EXCEPT ![n] =
                               IF ~copied \/ refused THEN NULL
                               ELSE [version |-> cmpBuilt[f].version, date |-> cmpBuilt[f].date,
                                     settings |-> ~dies]]
        /\ cmpUpdate' = IF refused \/ dies THEN NULL
                        ELSE [cmpUpdate EXCEPT !.left = @ \ {n}]
        /\ cmpQuiet' = (cmpQuiet /\ ~refused /\ ~dies)
        /\ Untouched
UpdateEnds ==
    /\ cmpUpdate # NULL /\ cmpUpdate.left = {}
    /\ cmpUpdate' = NULL
    /\ UNCHANGED <<cmpDeps, cmpQuiet>> /\ Untouched
clean ==
    /\ cmpUpdate = NULL
    /\ cmpDeps' = [n \in CmpNames |-> NULL]
    /\ cmpQuiet' = FALSE
    /\ UNCHANGED cmpUpdate /\ Untouched

-----------------------------------------------------------------------------
(* The extensions of the installed packages: frozen into a file, which is  *)
(* read once.                                                              *)

ExtensionStep(ext) ==
    /\ cmpExt' = ext
    /\ UNCHANGED <<cmpStore, cmpOverlays, cmpSource, cmpBuilt, cmpNeeds, cmpDeps, cmpUpdate,
                   cmpQuiet, cmpCount>>

\* Packages come and go.
Install(p) ==
    ExtensionStep([cmpExt EXCEPT !.installed = IF p \in @ THEN @ \ {p} ELSE @ \cup {p}])
register_extension(p) == ExtensionStep([cmpExt EXCEPT !.registered = @ \cup {p}])
clear_extensions == ExtensionStep([cmpExt EXCEPT !.registered = {}])

\* What was read of an older file stays.
freeze_extensions ==
    ExtensionStep([cmpExt EXCEPT !.file = cmpExt.installed,
                                 !.refrozen = NULL \notin {cmpExt.file, cmpExt.cache}])

\* (What was read stays.)
UnfreezeKeeping ==
    /\ cmpExt.file # NULL
    /\ ExtensionStep([cmpExt EXCEPT !.file = NULL, !.refrozen = FALSE])
unfreeze_extensions ==
    /\ cmpExt.file # NULL
    /\ ExtensionStep([cmpExt EXCEPT !.file = NULL, !.cache = NULL, !.refrozen = FALSE])
load_extensions ==
    ExtensionStep(IF cmpExt.file # NULL /\ cmpExt.cache = NULL
                  THEN [cmpExt EXCEPT !.cache = cmpExt.file] ELSE cmpExt)
Loaded(ext) ==
    ext.registered \cup
    (IF ext.file = NULL THEN ext.installed
     ELSE IF ext.cache # NULL THEN ext.cache ELSE ext.file)

\* Another program starts: what only memory held is gone.
Restart ==
    /\ cmpUpdate = NULL
    /\ cmpOverlays' = [n \in CmpNames |-> NULL]
    /\ cmpExt' = [cmpExt EXCEPT !.registered = {}, !.cache = NULL, !.refrozen = FALSE]
    /\ UNCHANGED <<cmpStore, cmpSource, cmpBuilt, cmpNeeds, cmpDeps, cmpUpdate, cmpQuiet, cmpCount>>

RegistryNext ==
    \/ \E f \in CmpFolders, temporary \in BOOLEAN : add_component(f, temporary)
    \/ \E n \in CmpNames : remove_component(n)
    \/ clear_components \/ Restart
DependenciesNext ==
    \/ \E f \in CmpFolders : Build(f) \/ \E v \in CmpVersions : NewVersion(f, v)
    \/ \E n \in CmpNames : \/ \E need \in CmpRequired : Require(n, need)
                           \/ \E dies \in BOOLEAN : update_dependency(n, dies)
    \/ \E local \in BOOLEAN : UpdateBegins(local)
    \/ UpdateEnds \/ clean
ExtensionsNext ==
    \/ \E p \in CmpPlugins : Install(p) \/ register_extension(p)
    \/ clear_extensions \/ freeze_extensions \/ unfreeze_extensions \/ load_extensions
CmpNext == RegistryNext \/ DependenciesNext \/ ExtensionsNext

-----------------------------------------------------------------------------
(* Properties. *)

\* What an update that nothing disturbed has looked at: where a built component of a fitting
\* version is registered, it is installed, from its last build or a later one; and as the
\* version that its source has, if that is the one that was built.
DependenciesAreFresh ==
    cmpQuiet =>
        \A n \in CmpNames :
            (cmpNeeds[n] # NULL /\ (cmpUpdate = NULL \/ n \notin cmpUpdate.left)) =>
                LET f == Resolved(n) IN
                (f # NULL /\ cmpBuilt[f] # NULL) =>
                    /\ cmpDeps[n] # NULL /\ cmpDeps[n].settings
                    /\ cmpDeps[n].date >= cmpBuilt[f].date
                    /\ cmpBuilt[f].version = cmpSource[f] =>
                           ~VersionLess(cmpDeps[n].version, cmpSource[f])

\* The extensions that are found are those of the file, unless it was written anew since it
\* was read, or without one the installed ones; and a listed component can be had.
RegistryIsCurrent ==
    /\ ~cmpExt.refrozen =>
           Loaded(cmpExt) = cmpExt.registered \cup
                            (IF cmpExt.file = NULL THEN cmpExt.installed ELSE cmpExt.file)
    /\ \A n \in CmpNames : n \in list_components <=> get_component(n) # NULL

ComponentsAreCurrent == DependenciesAreFresh /\ RegistryIsCurrent

-----------------------------------------------------------------------------
(* Cases: a version, a text of one, a range and a version, versions that are *)
(* installed together.                                                       *)

CmpAll == {<<a, b, c, r, n>> : a, b, c \in CmpNumbers, r \in {2, 3}, n \in CmpNumbers}
          \cup {Released(<<a, b, c>>) : a, b, c \in CmpNumbers}
CmpParts == {<<Plain(1)>>, <<Plain(1), Plain(1)>>}
            \cup {<<Plain(1), [word |-> w, number |-> n]>> : w \in {"rc", "release"}, n \in {1, NULL}}
CmpTile(n) == Released(<<n, n, 0>>)
CmpProxies ==
    [name : {"tile"}, id : 1..2, versions : {NULL, <<"^", Zero>>, <<"^", CmpTile(1)>>,
                                             <<"=", CmpTile(1)>>, <<"^", Released(<<1, 0, 0>>)>>}]
    \cup [name : {"tile"}, id : {1}, versions : {<<"*", NULL>>}]
    \cup [name : {"other"}, id : {1}, versions : {NULL}]
CmpApps ==
    [tag : {1}, quality : {0, 1}, id : 1..2, versions : {<<"*", NULL>>, <<"=", CmpTile(1)>>}]
    \cup [tag : {2}, quality : {1}, id : {1}, versions : {<<"*", NULL>>}]
CmpCases ==
    [version : CmpAll] \cup [text : BoundedSeq(CmpParts, 4)]
    \cup [op : {"^", "=", "*"}, base : CmpAll, version : CmpAll]
    \cup [proxies : BoundedSeq(CmpProxies, 3), tile : {Zero, CmpTile(1), Released(<<1, 0, 0>>)}]
    \cup [apps : BoundedSeq(CmpApps, 3), app : {Zero, CmpTile(1)}]
    \cup [together : BoundedSeq(CmpFolders \X CmpVersions, CmpTogether)]

VersionIsKept(v) ==
    /\ ParsedVersion(VersionText(v)) = v
    /\ \A w \in CmpAll : pep440_string(w) = pep440_string(v) => w = v
    /\ VersionLess(v, inc_first_nonzero(v))
    /\ dec_first_nonzero(inc_first_nonzero(v)) = Released(coexistence_class(v))

\* A caret's range is that of the versions which are compatible: of prereleases, those of the
\* range's ends.
RangeIsMeant(op, b, v) ==
    LET same == coexistence_class(v) = coexistence_class(b)
        matches == Matches(v, <<op, b>>)
    IN  /\ op = "=" => (matches <=> v = b)
        /\ (op = "*" \/ v = b) => matches
        /\ (op = "^" /\ ~is_prerelease(v)) => (matches <=> same /\ ~VersionLess(v, b))
        /\ (op = "^" /\ is_prerelease(v) /\ matches) =>
               /\ ~VersionLess(v, b) /\ is_prerelease(b)
               /\ release_tuple(v) \in {release_tuple(b), release_tuple(inc_first_nonzero(b))}

\* (find_correct_proxy_version, app.)  The proxy fits the tile when one does that is for versions
\* above 0.0.0, and is the first of those for the latest ones; else it is the last without
\* versions, or just the first.  An app fits its device, and no other that does is better.
ProxyIsBest(loaded, tile) ==
    LET proxies == ProxiesNamed(loaded, "tile")
        Lower(p) == VersionRange(p.versions[1], p.versions[2]).lower
        fits == {n \in DOMAIN proxies : IF proxies[n].versions = NULL THEN FALSE
                                        ELSE Matches(tile, proxies[n].versions)}
        any == {n \in DOMAIN proxies : proxies[n].versions = NULL}
        chosen == get_proxy(loaded, "tile", tile)
        raises == \E n \in fits : Lower(proxies[n]) = NULL
        good == IF raises THEN {} ELSE {n \in fits : VersionLess(Zero, Lower(proxies[n]))}
        latest == {n \in good : \A m \in good : ~VersionLess(Lower(proxies[n]), Lower(proxies[m]))}
    IN  chosen = IF raises \/ proxies = <<>> THEN NULL
                 ELSE IF latest # {} THEN proxies[Min(latest)]
                 ELSE IF any # {} THEN proxies[Max(any)] ELSE proxies[1]
AppIsBest(loaded, version) ==
    LET fits == {n \in DOMAIN loaded : loaded[n].tag = 1 /\ Matches(version, loaded[n].versions)}
        best == {n \in fits : \A m \in fits : loaded[m].quality <= loaded[n].quality}
    IN  app(loaded, 1, version) = IF fits = {} THEN NULL ELSE loaded[Min(best)]

CmpKeeps(c) ==
    CASE DOMAIN c = {"version"} -> VersionIsKept(c.version)
      [] DOMAIN c = {"text"} ->
             ParsedVersion(c.text) # NULL => VersionText(ParsedVersion(c.text)) = c.text
      [] DOMAIN c = {"op", "base", "version"} -> RangeIsMeant(c.op, c.base, c.version)
      [] DOMAIN c = {"proxies", "tile"} -> ProxyIsBest(c.proxies, c.tile)
      [] DOMAIN c = {"apps", "app"} -> AppIsBest(c.apps, c.app)
      [] DOMAIN c = {"together"} ->
             EnsureCompatible(c.together) <=>
                 \A s, t \in Range(c.together) :
                     s[1] = t[1] => coexistence_class(s[2]) = coexistence_class(t[2])
=============================================================================
