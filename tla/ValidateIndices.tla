---------------------------- MODULE ValidateIndices ----------------------------
(***************************************************************************)
(* scripts/validate_algolia_indices.py compares the index of the legacy    *)
(* reindex (v1) with the incremental one (v2).  Its subcommands fetch from *)
(* Algolia into files, or analyse the files of this or an earlier          *)
(* invocation.  Both indices are written meanwhile, and an invocation may  *)
(* break off between any two files.                                        *)
(*                                                                         *)
(* A browse is one step.  search-ranking, which keeps no file that another *)
(* subcommand reads, is left out.                                          *)
(***************************************************************************)
EXTENDS Integers, FiniteSets, FiniteSetsExt, SequencesExt

CONSTANTS
    Id, Doc,                   \* object ids, the records they may have
    ContentType, LevelOf, TagsOf,  \* content_type, level_type, an array field of a record
    SampleSize,
    None,
    InitialIndices,            \* label -> id -> record or None, at the start
    MaxRuns, MaxCommands, MaxWrites  \* bounds: invocations, subcommands of one, writes


VARIABLES
    indices,   \* label -> id -> record or None
    file,      \* <<kind, label>> -> what was fetched, or None
    result,    \* id_diff, level_type_mismatches, spot_check_diffs, id_diff_records
    run,       \* the invocation
    said,      \* the last verdict it printed
    clean,     \* history: files that the indices still agree with
    current,   \* history: results of the files as they are, all of them clean
    runs, writes

scriptVars == <<indices, file, result, run, said, clean, current, runs, writes>>

Labels == <<"v1", "v2">>
Label  == ToSet(Labels)
Kind   == {"facets", "ids", "level", "sample"}
Other(l) == IF l = "v1" THEN "v2" ELSE "v1"

ASSUME SizeAssumption == SampleSize \in Nat \ {0}
ASSUME IndicesAssumption == InitialIndices \subseteq [Label -> [Id -> Doc \union {None}]]
\* No verdict is printed when there is none.
ASSUME NoneAssumption == None # "ordering_only"

\* main runs the subcommands asked for in this order.
Order == <<"fetch", "fetch-level-type", "fetch-spot-check", "fetch-id-diff",
           "analyze", "level-type", "spot-check", "sort-arrays">>
Results == {"diff", "mismatches", "diffs", "records"}
Idle == [left |-> {}, step |-> 1, sample |-> None, got |-> [l \in Label |-> None]]

ScriptInit ==
    /\ indices \in InitialIndices
    /\ file = [f \in Kind \X Label |-> None]
    /\ result = [r \in Results |-> None]
    /\ run = Idle
    /\ said = None
    /\ clean = {} /\ current = {}
    /\ runs = 0 /\ writes = 0

Due(command) ==
    /\ command \in run.left
    /\ \A i \in DOMAIN Order : Order[i] \in run.left =>
          \E j \in DOMAIN Order : Order[j] = command /\ j <= i

\* Exit: what is left of the invocation is not run.
End == run' = Idle
Done(command) == run' = [Idle EXCEPT !.left = run.left \ {command}]
Step(n) == run' = [run EXCEPT !.step = n]

-----------------------------------------------------------------------------
(* Around the script.                                                      *)

ChangeIndex ==
    /\ writes < MaxWrites /\ run.left # {}
    /\ \E l \in Label, i \in Id, d \in Doc \union {None} :
          /\ indices[l][i] # d
          /\ indices' = [indices EXCEPT ![l][i] = d]
          /\ clean' = {f \in clean : f[2] # l}
    /\ current' = {}
    /\ writes' = writes + 1
    /\ UNCHANGED <<file, result, run, said, runs>>

Invoke ==
    /\ run.left = {} /\ runs < MaxRuns
    /\ \E active \in SUBSET ToSet(Order) \ {{}} :
          Cardinality(active) <= MaxCommands /\ run' = [Idle EXCEPT !.left = active]
    /\ said' = None
    /\ runs' = runs + 1
    /\ UNCHANGED <<indices, file, result, clean, current, writes>>

\* Algolia raises, or the operator interrupts.
Interrupt ==
    /\ run.left # {}
    /\ End
    /\ UNCHANGED <<indices, file, result, said, clean, current, runs, writes>>

-----------------------------------------------------------------------------
(* Fetches.                                                                *)

ObjectIds(l) == {i \in Id : indices[l][i] # None}

\* fetch_facets: only counts.
Facets(l) ==
    [t \in {ContentType[d] : d \in Doc} |->
        Cardinality({i \in ObjectIds(l) : ContentType[indices[l][i]] = t})]

Fetched(kind, l) ==
    CASE kind = "facets" -> Facets(l)
      [] kind = "ids"    -> ObjectIds(l)
      [] kind = "level"  -> indices[l]
      [] kind = "sample" -> [i \in Id |-> IF i \in run.sample THEN indices[l][i] ELSE None]

ResultsOf(kind) == CASE kind \in {"facets", "ids"} -> {"diff", "records"}
                     [] kind = "level" -> {"mismatches"}
                     [] kind = "sample" -> {"diffs"}

Save(kind, l) ==
    /\ file' = [file EXCEPT ![<<kind, l>>] = Fetched(kind, l)]
    /\ clean' = clean \union {<<kind, l>>}
    /\ current' = current \ ResultsOf(kind)
    /\ UNCHANGED <<indices, result, said, runs, writes>>

\* Facets and ids of one index, then of the other.
Fetch_SameIndexTwice ==
    /\ Due("fetch")
    /\ LET l == Labels[(run.step + 1) \div 2]
       IN  /\ file' = [file EXCEPT ![<<IF run.step \in {1, 3} THEN "facets" ELSE "ids", l>>] =
                          IF run.step \in {1, 3} THEN Facets("v1") ELSE ObjectIds("v1")]
           /\ clean' = clean \union {<<IF run.step \in {1, 3} THEN "facets" ELSE "ids", l>>}
           /\ current' = current \ {"diff", "records"}
    /\ IF run.step < 4 THEN Step(run.step + 1) ELSE Done("fetch")
    /\ UNCHANGED <<indices, result, said, runs, writes>>
Fetch ==
    /\ Due("fetch")
    /\ Save(IF run.step \in {1, 3} THEN "facets" ELSE "ids", Labels[(run.step + 1) \div 2])
    /\ IF run.step < 4 THEN Step(run.step + 1) ELSE Done("fetch")

FetchLevelType ==
    /\ Due("fetch-level-type")
    /\ Save("level", Labels[run.step])
    /\ IF run.step < 2 THEN Step(2) ELSE Done("fetch-level-type")

Round(a, b) ==
    LET q == a \div b
        r == 2 * (a % b)
    IN  IF r > b \/ (r = b /\ q % 2 = 1) THEN q + 1 ELSE q

Least(a, b) == IF a < b THEN a ELSE b
Most(a, b) == IF a < b THEN b ELSE a

Keys(snapshot) == {i \in Id : snapshot[i] # None}

\* In proportion to the types of v1's file, at least one of each, then trimmed.
Stratified(level, both) ==
    LET OfType(t) == {i \in both : ContentType[level[i]] = t}
        Share(t) == Least(Cardinality(OfType(t)),
                        Most(1, Round(SampleSize * Cardinality(OfType(t)), Cardinality(both))))
        drawn == {s \in SUBSET both : \A t \in {ContentType[level[i]] : i \in both} :
                     Cardinality(s \intersect OfType(t)) = Share(t)}
    IN  UNION {IF Cardinality(s) > SampleSize THEN kSubset(SampleSize, s) ELSE {s} : s \in drawn}

\* From the level files, or else from the id files.
Samples ==
    LET level == file[<<"level", "v1">>]
        level2 == file[<<"level", "v2">>]
        both == file[<<"ids", "v1">>] \intersect file[<<"ids", "v2">>]
    IN  CASE level # None -> Stratified(level, Keys(level) \intersect
                                               (IF level2 = None THEN Id ELSE Keys(level2)))
          [] level = None /\ (\A l \in Label : file[<<"ids", l>>] # None) ->
                kSubset(Least(SampleSize, Cardinality(both)), both)
          [] OTHER -> {}

DrawSample ==
    /\ Due("fetch-spot-check") /\ run.sample = None
    /\ \/ \E s \in Samples : run' = [run EXCEPT !.sample = s]
       \/ Samples = {} /\ End
    /\ UNCHANGED <<indices, file, result, said, clean, current, runs, writes>>

FetchSpotCheck ==
    /\ Due("fetch-spot-check") /\ run.sample # None
    /\ Save("sample", Labels[run.step])
    /\ IF run.step < 2 THEN Step(2) ELSE Done("fetch-spot-check")

-----------------------------------------------------------------------------
(* Analyses.                                                               *)

\* What a subcommand cannot do without; sys.exit if it is missing.
Needs(command) ==
    CASE command = "analyze"    -> {"facets", "ids"} \X Label
      [] command = "level-type" -> {"level"} \X Label
      [] command = "spot-check" -> {"sample"} \X Label

Missing(command) == \E f \in Needs(command) : file[f] = None

ExitMissing ==
    /\ \/ \E c \in {"analyze", "level-type", "spot-check"} : Due(c) /\ Missing(c)
       \/ Due("fetch-id-diff") /\ result["diff"] = None
       \/ Due("sort-arrays") /\ result["diffs"] = None
    /\ End
    /\ UNCHANGED <<indices, file, result, said, clean, current, runs, writes>>

Write(name, value, agrees) ==
    /\ result' = [result EXCEPT ![name] = value]
    /\ current' = IF agrees THEN current \union {name} ELSE current \ {name}
    /\ UNCHANGED <<indices, file, clean, runs, writes>>

Conclude(command, name, value) ==
    /\ Due(command) /\ ~Missing(command)
    /\ Write(name, value, Needs(command) \subseteq clean)
    /\ Done(command)
    /\ UNCHANGED said

Ids(l) == file[<<"ids", l>>]

\* _print_id_diff_analysis
Analyze == Conclude("analyze", "diff", [l \in Label |-> Ids(l) \ Ids(Other(l))])

Shared(kind) == {i \in Id : \A l \in Label : file[<<kind, l>>][i] # None}

LevelType ==
    /\ Due("level-type") /\ ~Missing("level-type")
    /\ Shared("level") # {}
    /\ Conclude("level-type", "mismatches",
          {i \in Shared("level") : LevelOf[file[<<"level", "v1">>][i]] # LevelOf[file[<<"level", "v2">>][i]]})

\* The percentage of no records.
LevelTypeRaises ==
    /\ Due("level-type") /\ ~Missing("level-type")
    /\ Shared("level") = {}
    /\ End
    /\ UNCHANGED <<indices, file, result, said, clean, current, runs, writes>>

Fields == [type |-> ContentType, level |-> LevelOf, tags |-> TagsOf]

\* Every field of the records that both samples have.
SpotCheck ==
    LET Value(l, i, f) == Fields[f][file[<<"sample", l>>][i]]
    IN  Conclude("spot-check", "diffs",
           {d \in {[id |-> i, field |-> f, v1 |-> Value("v1", i, f), v2 |-> Value("v2", i, f)] :
                      i \in Shared("sample"), f \in DOMAIN Fields} : d.v1 # d.v2})

\* Parity if id_diff.json is empty, or else the records of the ids in it, an index at a
\* time; an id that is gone by now has no fields.
NoDifference == \A l \in Label : result["diff"][l] = {}

SayParity ==
    /\ Due("fetch-id-diff") /\ result["diff"] # None
    /\ NoDifference
    /\ said' = "parity"
    /\ Done("fetch-id-diff")
    /\ UNCHANGED <<indices, file, result, clean, current, runs, writes>>

FetchIdDiff ==
    LET l == Labels[run.step]
        got == [run.got EXCEPT ![l] = [i \in result["diff"][l] |-> indices[l][i]]]
    IN  /\ Due("fetch-id-diff") /\ result["diff"] # None
        /\ ~NoDifference
        /\ \/ /\ run.step = 1
              /\ run' = [run EXCEPT !.step = 2, !.got = got]
              /\ UNCHANGED <<indices, file, result, clean, current, runs, writes>>
           \/ /\ run.step = 2
              /\ Write("records", got, "diff" \in current)
              /\ Done("fetch-id-diff")
        /\ UNCHANGED said

\* _normalize: a sorted list has only its elements.
Normalized(list) == [x \in ToSet(list) |-> Cardinality({i \in DOMAIN list : list[i] = x})]

SortArrays ==
    LET arrays == {d \in result["diffs"] : d.field = "tags"}
    IN  /\ Due("sort-arrays") /\ result["diffs"] # None
        /\ said' = IF arrays = {} THEN "no_arrays"
                   ELSE IF \A d \in arrays : Normalized(d.v1) = Normalized(d.v2) THEN "ordering_only"
                   ELSE "content_changes"
        /\ Done("sort-arrays")
        /\ UNCHANGED <<indices, file, result, clean, current, runs, writes>>

-----------------------------------------------------------------------------
Script ==
    \/ Fetch \/ FetchLevelType \/ DrawSample \/ FetchSpotCheck \/ ExitMissing
    \/ Analyze \/ LevelType \/ LevelTypeRaises \/ SpotCheck
    \/ SayParity \/ FetchIdDiff \/ SortArrays

ScriptNext == ChangeIndex \/ Invoke \/ Interrupt \/ Script

ScriptSpec == ScriptInit /\ [][ScriptNext]_scriptVars

-----------------------------------------------------------------------------
(* Properties.                                                             *)

\* However often the script is interrupted and whichever of its files are of which
\* invocation: a result computed from files that the indices have not moved away from
\* says of the indices just what is true, and nothing is missing from it.
ReportsMatchIndices ==
    LET both == ObjectIds("v1") \intersect ObjectIds("v2")
        Only(l) == ObjectIds(l) \ ObjectIds(Other(l))
    IN  /\ "diff" \in current => \A l \in Label : result["diff"][l] = Only(l)
        /\ "mismatches" \in current =>
              result["mismatches"] = {i \in both : LevelOf[indices["v1"][i]] # LevelOf[indices["v2"][i]]}
        /\ "records" \in current =>
              \A l \in Label : result["records"][l] = [i \in Only(l) |-> indices[l][i]]
        /\ "diffs" \in current =>
              /\ {<<d.id, d.field>> : d \in result["diffs"]} =
                    {p \in Shared("sample") \X DOMAIN Fields :
                        Fields[p[2]][indices["v1"][p[1]]] # Fields[p[2]][indices["v2"][p[1]]]}
              /\ said = "ordering_only" =>
                    \A i \in Shared("sample") : \A x \in ToSet(TagsOf[indices["v1"][i]]) :
                       x \in ToSet(TagsOf[indices["v2"][i]])

\* Refuted: the docstring.  Subcommands may be combined on one invocation in any order, and
\* fetch-id-diff reads the id_diff.json written by analyze.  The parity an invocation
\* ends with is not at odds with the id_diff.json it leaves.
ParityAgreesWithDiff == said = "parity" /\ run.left = {} => NoDifference
=============================================================================
