------------------------------- MODULE Pipeline -------------------------------
(***************************************************************************)
(* From p-code to the program that is searched: every function is lifted,  *)
(* the module's register interfaces are narrowed, each function goes       *)
(* through the passes until a round changes nothing, and what cannot       *)
(* matter for the goals is sliced away (lift/lifter.py,                    *)
(* simplify/pipeline.py, analysis/slicing.py).                             *)
(***************************************************************************)
EXTENDS Machine, Passes, Validate

CONSTANTS Programs,   \* the programs to lift, records as in Recovery and Machine
          Fuel,       \* the p-code ops after which the processor is stopped
          Rounds      \* the rounds of passes a function may take: 20 in the code

VARIABLES prog,       \* the program
          promise,    \* what the processor does with it, for each of its inputs
          module,     \* the module so far
          stage,      \* what comes next
          todo,       \* the entries of the functions it is still to be done to
          round,      \* how many rounds the first of them has been through
          before,     \* that function as it was when the round began
          slice       \* the slice, once there is one
vars == <<prog, promise, module, stage, todo, round, before, slice>>

Entries(p) == SetToSortSeq(Liftable(p), <)
NoSlice == [skipped |-> {}, output |-> {}, looping |-> {}]
NewWorld(p, fuel) == [mem |-> p.memory, trace |-> <<>>, events |-> <<>>, end |-> "", fuel |-> fuel]

EmptyModule(p) ==
    [functions |-> <<>>, registers |-> {g[1] : g \in ToSet(RegisterGroups(p))}, convention |-> p.convention,
     imports |-> p.imports, printing |-> p.printing, writing |-> p.writing,
     externals |-> p.externals,
     widths |-> [r \in {g[1] : g \in ToSet(RegisterGroups(p))} |->
                   Byte * Single({g[2] : g \in {g \in ToSet(RegisterGroups(p)) : g[1] = r}})]]

Init ==
    /\ prog \in Programs
    /\ module = EmptyModule(prog)
    /\ promise = [given \in prog.inputs |->
                    RunProcessor(prog, module, prog.main, given, NewWorld(prog, Fuel))]
    /\ stage = "lift" /\ todo = Entries(prog)
    /\ round = 0 /\ before = <<>> /\ slice = NoSlice

Now == module.functions[Head(todo)]
Becomes(f) == module' = [module EXCEPT !.functions = Replaced(@, Head(todo), f)]

\* lift_export: one function after another, in the order of their entries.
LiftFunction ==
    /\ stage = "lift" /\ todo # <<>>
    /\ Becomes(Freeze(SealRest(BuildAll(NewBuilder(prog, Head(todo))))))
    /\ todo' = Tail(todo)
    /\ stage' = IF Len(todo) = 1 THEN "trim" ELSE "lift"
    /\ UNCHANGED <<prog, promise, round, before, slice>>

\* simplify_module: the interfaces of all functions first.
Trim ==
    /\ stage = "trim"
    /\ module' = TrimInterfaces(module)
    /\ todo' = Entries(prog) /\ stage' = "fold" /\ round' = 0
    /\ before' = module'.functions[Head(Entries(prog))]
    /\ UNCHANGED <<prog, promise, slice>>

Pass(from, to, f) ==
    /\ stage = from /\ stage' = to
    /\ Becomes(f)
    /\ UNCHANGED <<prog, promise, todo, round, before, slice>>

Fold == Pass("fold", "forward", FoldConstants(Now))
Forward == Pass("forward", "cse", ForwardMemory(Now))
Cse == Pass("cse", "dce", EliminateCommon(Now))
Dce == Pass("dce", "cfg", EliminateDead(Now))
Cfg == Pass("cfg", "round", SimplifyCfg(Now))

\* Another round, unless this one changed nothing or it was the last.
NextRound ==
    /\ stage = "round" /\ Now # before /\ round + 1 < Rounds
    /\ round' = round + 1 /\ before' = Now /\ stage' = "fold"
    /\ UNCHANGED <<prog, promise, module, todo, slice>>

Simplified ==
    /\ stage = "round" /\ (Now = before \/ round + 1 = Rounds)
    /\ Becomes(Renumber(Now))
    /\ todo' = Tail(todo) /\ round' = 0
    /\ IF todo' = <<>> THEN stage' = "slice" /\ before' = <<>>
       ELSE stage' = "fold" /\ before' = module.functions[Head(todo')]
    /\ UNCHANGED <<prog, promise, slice>>

SliceAway ==
    /\ stage = "slice"
    /\ slice' = BackwardSlice(module, prog.protected, prog.main)
    /\ stage' = "done"
    /\ UNCHANGED <<prog, promise, module, todo, round, before>>

Done == stage = "done" /\ UNCHANGED vars

Next == LiftFunction \/ Trim \/ Fold \/ Forward \/ Cse \/ Dce \/ Cfg \/ NextRound
        \/ Simplified \/ SliceAway \/ Done

Spec == Init /\ [][Next]_vars

-------------------------------------------------------------------------------
(* Properties.                                                             *)

Prefixed(s, t) == IsPrefix(s, t) \/ IsPrefix(t, s)

\* A processor cut short is agreed with as far as it came, by a run that is cut
\* short as well or comes further; a run that refuses, up to where it did.
Agree(ir, real) ==
    CASE ir.end = "refused" -> IsPrefix(ir.trace, real.trace)
      [] ir.end # "refused" /\ real.end = "fuel" ->
            Prefixed(ir.trace, real.trace) /\ (ir.end = "fuel" \/ Len(ir.trace) >= Len(real.trace))
      [] OTHER -> ir = real

Run(skip, given) == RunIr(module, skip, prog.main, given, NewWorld(prog, 3 * Fuel))
Whole == stage # "lift"

\* From the first module to the last, whatever pass it has just been through,
\* the program does with every input what the processor does with the p-code: it
\* ends the same way - faults among them -, meets the same instructions, calls the
\* same imports with the same arguments, and leaves the same memory and the same
\* registers a caller may look at.
Behaves == Whole => \A given \in prog.inputs : Agree(Run({}, given), promise[given])

\* The lifter and every pass leave each function as the validator demands: each
\* value defined once and before every use of it, on every path.
AllValid == \A e \in DOMAIN module.functions : Valid(module.functions[e], module.widths)

\* No function needs the last round: simplification ends at a fixpoint.
ReachesFixpoint == round + 1 < Rounds

\* Skipping what the slice leaves out, the run meets the protected instructions
\* it would meet without, in the same order, ends as it would, and needs no
\* value that was skipped - as long as the functions that print neither fail nor
\* go on forever, as slicing.py assumes of them.
Protected(outcome) == SelectSeq(outcome.trace, LAMBDA a : a \in prog.protected)
Printing == UNION {Starts(module.functions[e]) : e \in slice.output}
Assumed(whole) == whole.end # "fuel" /\ (whole.end = "fault" => Last(whole.trace) \notin Printing)
SlicedLike(whole, sliced) ==
    Assumed(whole) => Protected(sliced) = Protected(whole) /\ sliced.end = whole.end
SliceKeepsGoals ==
    stage = "done" =>
        \A given \in prog.inputs : SlicedLike(Run({}, given), Run(slice.skipped, given))
===============================================================================
