---------------------------------- MODULE Chain ----------------------------------
(***************************************************************************)
(* A staged driver (analysis/chain.py): a main that calls several          *)
(* functions, each for one line of input, that share a function which ends *)
(* the program.                                                            *)
(*                                                                         *)
(* calls[f] is the sequence of what a function of the module calls: its    *)
(* own functions, DOMAIN calls, and names of library functions.            *)
(***************************************************************************)
EXTENDS Naturals, Sequences, FiniteSets, SequencesExt

CONSTANTS Main, EndsProgram, StdinReaders

ASSUME ChainAssumption == EndsProgram \cap StdinReaders = {}

Callees(calls, f) == Range(calls[f]) \cap DOMAIN calls

\* reachable_functions, f itself among them.
Reachable(calls, f) ==
    LET within[k \in Nat] ==
            IF k = 0 THEN {f} ELSE UNION {{g} \cup Callees(calls, g) : g \in within[k - 1]}
    IN within[Cardinality(DOMAIN calls)]

Ends(calls, f) == Range(calls[f]) \cap EndsProgram # {}
IsReader(calls, f) == \E g \in Reachable(calls, f) : Range(calls[g]) \cap StdinReaders # {}
Callers(calls, f) == {g \in Reachable(calls, Main) : f \in Callees(calls, g)}

\* The function that ends the program and has the most callers, two at least.  Of several
\* the code takes the one it meets first.
Sinks(calls) ==
    LET shared == {f \in DOMAIN calls : Ends(calls, f) /\ Cardinality(Callers(calls, f)) > 1}
    IN {f \in shared : \A g \in shared :
            Cardinality(Callers(calls, g)) <= Cardinality(Callers(calls, f))}

Times(calls, f) == Cardinality({k \in DOMAIN calls[Main] : calls[Main][k] = f})

IsStage(calls, sink, f) ==
    /\ f \in DOMAIN calls \ {sink}
    /\ ~IsReader(calls, f) /\ Times(calls, f) = 1 /\ sink \in Reachable(calls, f)

\* The stages, in the order main calls them; no plan when there is none.
Stages(calls, sink) ==
    LET upTo[n \in 0..Len(calls[Main])] ==
            IF n = 0 THEN <<>>
            ELSE IF IsStage(calls, sink, calls[Main][n]) THEN Append(upTo[n - 1], calls[Main][n])
            ELSE upTo[n - 1]
    IN upTo[Len(calls[Main])]
=============================================================================
