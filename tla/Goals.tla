---------------------------------- MODULE Goals ----------------------------------
(***************************************************************************)
(* Which outcome is the goal and which are avoided (_select_goals,         *)
(* _by_string of solve.py), and the two ways the choice is put to work:    *)
(* as the Goal the executor searches for (_executor_goal) and as the       *)
(* watches an answer is replayed under (_watch, run_program).              *)
(*                                                                         *)
(* A run of the program is a sequence of events <<address, text>>: an      *)
(* instruction, and the text its argument register points at when it is a  *)
(* call that passes one (Silent otherwise).  A text is a sequence of       *)
(* words; the scores that rank the candidates are data.                    *)
(***************************************************************************)
EXTENDS Naturals, Sequences, FiniteSets, SequencesExt

CONSTANT EndOfLine

Silent == <<>>

\* A GoalCandidate; `called` when the call's register and the string's address are known,
\* `passed` when the text is handed to some call at all.
Candidate(address, outcome, text, called, passed) ==
    [address |-> address, outcome |-> outcome, text |-> text, called |-> called, passed |-> passed]

Given(address, outcome) == Candidate(address, outcome, Silent, FALSE, FALSE)

Stripped(text) ==
    IF text # <<>> /\ Last(text) = EndOfLine THEN Front(text) ELSE text

\* References to strings, in order: <<instruction, text>>.  One that is the text wins over
\* one that contains it.
ByString(references, text, outcome) ==
    LET exact == SelectSeq(references, LAMBDA r : Stripped(r[2]) = text)
        within == SelectSeq(references, LAMBDA r : text \in SubSeqs(r[2]))
        matches == IF exact # <<>> THEN exact ELSE within
    IN IF matches = <<>> THEN {}
       ELSE {Candidate(matches[1][1], outcome, matches[1][2], FALSE, FALSE)}

\* The goals a request leaves: none when nothing is found.  `ranked` are the candidates by
\* their words, most confident first; `shaped` those by their shape, looked at when no words
\* tell of a success (each less confident than any of `ranked`).
ChosenGoals(program, r) ==
    LET successes == SelectSeq(program.ranked, LAMBDA c : c.outcome = "success")
        found == IF successes # <<>> THEN successes ELSE program.shaped
    IN CASE r.goal.by = "address" -> {Given(r.goal.address, "success")}
         [] r.goal.by = "string" -> ByString(program.references, r.goal.text, "success")
         [] OTHER -> IF found = <<>> THEN {} ELSE {found[1]}

\* Failures are avoided only where the user has said nothing, and only where their text is
\* passed to something.
Avoided(program, r, goal) ==
    LET given == {Given(a, "failure") : a \in r.avoidAddresses}
                 \cup UNION {ByString(program.references, t, "failure") : t \in r.avoidTexts}
        all == IF r.goal.by = "none" /\ given = {}
               THEN {c \in Range(program.ranked) : c.outcome = "failure" /\ c.passed}
               ELSE given
    IN {c \in all : c.address # goal.address}

-----------------------------------------------------------------------------
(* A candidate that names its call is met when the call passes its text, any  *)
(* other one when its instruction is reached.                               *)

Meets(event, c) == event[1] = c.address /\ (c.called => event[2] = c.text)

\* Mutant: calls are told apart by their address alone.
ReachesCall(event, goal, avoid) ==
    IF \E c \in avoid : event[1] = c.address THEN "avoid"
    ELSE IF event[1] = goal.address THEN "goal" ELSE "none"

\* Executor._observe, then _call_conditions.
Reaches(event, goal, avoid) ==
    LET avoidAddresses == {c.address : c \in {c \in avoid : ~c.called}}
                              \ (IF goal.called THEN {} ELSE {goal.address})
    IN IF event[1] \in avoidAddresses THEN "avoid"
       ELSE IF ~goal.called /\ event[1] = goal.address THEN "goal"
       ELSE IF \E c \in avoid : c.called /\ Meets(event, c) THEN "avoid"
       ELSE IF goal.called /\ Meets(event, goal) THEN "goal" ELSE "none"

\* run_program: watches without a register at every instruction, the others at calls, the
\* goal's first.
Watched(event, goal, avoid) ==
    LET plain == {c \in avoid : ~c.called /\ Meets(event, c)}
        calls == {c \in avoid : c.called /\ Meets(event, c)}
    IN IF plain # {} THEN "avoid"
       ELSE IF ~goal.called /\ Meets(event, goal) THEN "goal"
       ELSE IF goal.called /\ Meets(event, goal) THEN "goal"
       ELSE IF calls # {} THEN "avoid" ELSE "none"

\* What the first event says that says anything.
FirstSearched(trace, goal, avoid) ==
    LET said == {k \in DOMAIN trace : Reaches(trace[k], goal, avoid) # "none"}
    IN IF said = {} THEN "none"
       ELSE Reaches(trace[CHOOSE k \in said : \A j \in said : k <= j], goal, avoid)

FirstWatched(trace, goal, avoid) ==
    LET said == {k \in DOMAIN trace : Watched(trace[k], goal, avoid) # "none"}
    IN IF said = {} THEN "none"
       ELSE Watched(trace[CHOOSE k \in said : \A j \in said : k <= j], goal, avoid)
=============================================================================
