----------------------------- MODULE MCFeatures ------------------------------
(***************************************************************************)
(* Small instances of the features of the emulated controller and of the   *)
(* formats it speaks.  They share no state, so each behaviour is one of    *)
(* one of them: of the part that is chosen initially, while the others     *)
(* stay as they are.  A format is tried on one case after the other.       *)
(***************************************************************************)
EXTENDS ConfigDatabase, SensorGraph, Controller, Descriptors, UpdateScripts, Reports, Components

CONSTANT Parts
VARIABLES part, case

parts == <<part, case, vars, sgVars, ctVars, cmpVars>>

Cases(p) ==
    CASE p = "descriptors" -> DsCases
      [] p = "values"      -> CtCases
      [] p = "scripts"     -> UsCases
      [] p = "reports"     -> RpCases
      [] p = "versions"    -> CmpCases
      [] p = "graphs"      -> SgCases
      [] OTHER             -> {}

\* Either two variables, whose data is pushed at once, or chunk after chunk for one.
Variety ==
    LET of == {entries'[i] : i \in DOMAIN entries'} \cup ({in_progress'} \ {NULL})
    IN  IF part = "variables" THEN \A e \in of : Len(e.data) <= 1
        ELSE Cardinality({e.var : e \in of}) <= 1

\* Either many nodes or many inputs.
Tractable == Len(sgMade') + sgCount'.inputs <= 4

\* Either scripts are received and states saved, or time passes.
Separately ==
    IF part = "clock" THEN UNCHANGED <<ctLoading, ctSaved>>
    ELSE ctClock'.uptime = 0 /\ ctCount'.calls <= 1 /\ ctCount'.resets <= 1

\* Dependencies are sought in the store alone.
NoOverlays == \A n \in CmpNames : cmpOverlays'[n] = NULL

OldVersion == <<1, 0, 0, 5, 0>>

FeaturesInit ==
    /\ part \in Parts /\ case = NULL
    /\ Init /\ SgInit /\ CtInit /\ CmpInit
    /\ part # "clock" => ~ctClock.rtc
    /\ \A f \in CmpFolders : cmpSource[f] = OldVersion
FeaturesStay == UNCHANGED <<vars, sgVars, ctVars>>
FeaturesNext ==
    /\ part' = part
    /\ \/ /\ part \in {"variables", "chunks"} /\ Next /\ Variety
          /\ UNCHANGED <<case, sgVars, ctVars, cmpVars>>
       \/ /\ part = "graph" /\ SgNext /\ Tractable
          /\ UNCHANGED <<case, vars, ctVars, cmpVars>>
       \/ /\ part \in {"clock", "bridge"} /\ CtNext /\ Separately
          /\ UNCHANGED <<case, vars, sgVars, cmpVars>>
       \/ part = "registry" /\ (RegistryNext \/ ExtensionsNext) /\ UNCHANGED case /\ FeaturesStay
       \/ /\ part = "dependencies" /\ (RegistryNext \/ DependenciesNext) /\ NoOverlays
          /\ UNCHANGED case /\ FeaturesStay
       \/ case = NULL /\ case' \in Cases(part) /\ UNCHANGED cmpVars /\ FeaturesStay

FeaturesSpec == FeaturesInit /\ [][FeaturesNext]_parts

CONSTANTS v1, v2, c1, s1, s2, f1, f2, f3, p1

\* Two folders of one component, and one of another.
MCName(f) == IF f = f3 THEN "other" ELSE "tile"
NewerVersion == <<1, 1, 0, 5, 0>>
MCVersions == {OldVersion, NewerVersion}
MCRequired == {<<"*", NULL>>, <<"^", OldVersion>>, <<"=", NewerVersion>>}

\* Two chunks fill an entry that takes nearly all of an area of seven bytes.
MCChunkSize == [c \in Chunks |-> 2]

VariableSymmetry == Permutations(Variables)

-----------------------------------------------------------------------------
(* The nodes of the graph. *)

Stream(type, id) == [type |-> type, id |-> id, system |-> FALSE]
In == Stream("input", 1)
Reads(selector) == [selector |-> selector, trigger |-> NULL]
When(selector, source, op, reference) ==
    [selector |-> selector, trigger |-> [source |-> source, op |-> op, reference |-> reference]]
NodeOf(inputs, any, out, func) == [inputs |-> inputs, any |-> any, out |-> out, func |-> func]

\* A root, a node that awaits an RPC and one of two inputs that reads both; and a root
\* that is refused, its function not being installed.
MCDescriptors ==
    {NodeOf(<<Reads(In)>>, FALSE, Stream("buffered", 1), "copy_all_a"),
     NodeOf(<<When(Stream("buffered", 1), "count", ">=", 2), Reads(Stream("constant", 1))>>,
            FALSE, Stream("unbuffered", 1), "call_rpc"),
     NodeOf(<<When(Stream("unbuffered", 1), "value", "==", 1), When(In, "count", ">", 0)>>, TRUE,
            Stream("buffered", 1), "trigger_streamer"),
     NodeOf(<<Reads(In)>>, FALSE, Stream("unbuffered", 1), "average_a")}
\* To be compiled: a chain, a node of constants alone, one of two inputs, two of which one is
\* a root.
MCCompiled ==
    {NodeOf(<<Reads(In)>>, FALSE, Stream("buffered", 1), "copy_all_a"),
     NodeOf(<<Reads(Stream("buffered", 1))>>, FALSE, Stream("unbuffered", 1), "copy_latest_a"),
     NodeOf(<<Reads(Stream("constant", 1)), Reads(Stream("constant", 2))>>, FALSE,
            Stream("unbuffered", 1), "copy_latest_a"),
     NodeOf(<<Reads(Stream("unbuffered", 1)), Reads(Stream("buffered", 1))>>, FALSE,
            Stream("output", 1), "copy_all_a"),
     NodeOf(<<Reads(In), Reads(Stream("unbuffered", 1))>>, FALSE,
            Stream("output", 2), "copy_all_a")}
MCSent == {<<In, 0>>}
MCConstants == {<<Stream("constant", 1), 1>>}

-----------------------------------------------------------------------------
(* The formats. *)

\* What is written and read back is what it was, wherever its form can hold it.
ConversionsAreKept ==
    case # NULL =>
        CASE part = "descriptors" -> DescriptorIsKept(case)
          [] part = "values"      -> ControllerKeeps(case)
          [] part = "scripts"     -> UsKeeps(case)
          [] part = "reports"     -> RpKeeps(case)
          [] part = "versions"    -> CmpKeeps(case)
          [] part = "graphs"      -> SgKeeps(case)

-----------------------------------------------------------------------------
(* What a copy, of a value or of a component, keeps. *)

\* (Every to- and from-conversion, update_dependency, load_extensions.)  What is written and
\* read back is what it was, and what was copied to build on is not older than what was built
\* before, nor are the extensions that are found those of an older list.
CopiesAreKept == ConversionsAreKept /\ ComponentsAreCurrent
=============================================================================
