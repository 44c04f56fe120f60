--------------------------- MODULE ExportCacheProofs ---------------------------
(***************************************************************************)
(* Proofs about ExportCache, for any number of commands, clears, contents  *)
(* and options.                                                            *)
(*                                                                         *)
(* What a command knows at each point of its way (StageOf), what its       *)
(* partial file holds (PartialOf), and that nothing but a clear takes away *)
(* what a command counts on (CountsOn) are inductive together with the     *)
(* properties themselves.                                                  *)
(***************************************************************************)
EXTENDS ExportCache, TLAPS

\* What a command knows on its way: the key it hashed, the content it copied, and from
\* them what it made.
StageOf(p) ==
    /\ command[p].at # "idle" => command[p].key \in Keys
    /\ command[p].at \in {"idle", "lookup", "load", "copy"} => command[p].copied = None
    /\ command[p].at \in {"idle", "lookup", "load", "copy", "analysis", "kill", "output"} =>
           command[p].export = None
    /\ command[p].at \in {"analysis", "output", "store", "write", "replace"} =>
           command[p].copied \in Contents
    /\ command[p].at \in {"store", "write", "replace"} =>
           command[p].cached /\ command[p].export = <<command[p].copied, command[p].key[2]>>

\* Its partial file is there while it stores, and holds what it made.
PartialOf(p) ==
    files[p] # None =>
        /\ command[p].at \in {"write", "replace", "killed"}
        /\ command[p].at \in {"write", "replace"} => files[p].export = command[p].export
        /\ command[p].at = "replace" => files[p].whole

\* The file it found, or the one it writes, is there unless a clear took it.
Begun == \E c \in Clears : clear[c].at # "idle"
CountsOn(p) ==
    /\ command[p].at = "load" /\ files[command[p].key] = None => Begun
    /\ command[p].at \in {"write", "replace"} /\ files[p] = None => Begun

SwappedFor(k) == \E q \in Commands : Swapped(q) /\ command[q].key = k
RightOf(p) == command[p].at = "done" => command[p].export = command[p].key \/ SwappedFor(command[p].key)
QuietOf(p) == command[p].why \in {"gone", "broken"} => Begun
WholeOf(k) == files[k] # None => files[k].whole /\ (files[k].export = k \/ SwappedFor(k))

Fine(p) == StageOf(p) /\ PartialOf(p) /\ CountsOn(p) /\ RightOf(p) /\ QuietOf(p)
Inv == TypeOK /\ (\A p \in Commands : Fine(p)) /\ \A k \in Keys : WholeOf(k)

-----------------------------------------------------------------------------
(* Names.                                                                   *)

\* The names of exports and of partial files are different, and none is None.
LEMMA NamesApart ==
    /\ None \notin Names /\ None \notin Contents /\ None \notin FileState
    /\ None \notin {"gone", "broken"}
    /\ \A k \in Keys, p \in Commands : k # p
    /\ \A k \in Keys : k = <<k[1], k[2]>> /\ k[1] \in Contents /\ k[2] \in Options
BY CacheAssumption DEF Names, Keys, FileState

-----------------------------------------------------------------------------
(* What an action does to the state of its command.                         *)

\* The command moves on and nothing else of it changes.
LEMMA Going ==
    ASSUME TypeOK, NEW p \in Commands, NEW at \in Stations, Goes(p, at)
    PROVE  /\ command' \in [Commands -> CommandState]
           /\ \A q \in Commands \ {p} : command'[q] = command[q]
           /\ command'[p].at = at /\ command'[p].why = command[p].why
           /\ command'[p].key = command[p].key /\ command'[p].cached = command[p].cached
           /\ command'[p].copied = command[p].copied /\ command'[p].export = command[p].export
<1>1. command[p] \in CommandState
  BY DEF TypeOK
<1>2. [command[p] EXCEPT !.at = at] \in CommandState
  BY <1>1 DEF CommandState
<1> QED BY <1>1, <1>2 DEF Goes, TypeOK, CommandState

LEMMA Failing ==
    ASSUME TypeOK, NEW p \in Commands, NEW why \in {"gone", "broken", "ghidra", "timeout", "disk"},
           Fails(p, why)
    PROVE  /\ command' \in [Commands -> CommandState]
           /\ \A q \in Commands \ {p} : command'[q] = command[q]
           /\ command'[p].at = "failed" /\ command'[p].why = why
           /\ command'[p].key = command[p].key /\ command'[p].cached = command[p].cached
           /\ command'[p].copied = command[p].copied /\ command'[p].export = command[p].export
<1>1. command[p] \in CommandState
  BY DEF TypeOK
<1>2. [[command[p] EXCEPT !.at = "failed"] EXCEPT !.why = why] \in CommandState
  BY <1>1 DEF CommandState, Stations, Ends
<1>3. command' = [command EXCEPT ![p] = [[command[p] EXCEPT !.at = "failed"] EXCEPT !.why = why]]
  BY DEF Fails, TypeOK
<1> QED BY <1>1, <1>2, <1>3 DEF TypeOK, CommandState

LEMMA Holding ==
    ASSUME TypeOK, NEW p \in Commands, NEW at \in Stations, NEW export \in Keys,
           Holds(p, at, export)
    PROVE  /\ command' \in [Commands -> CommandState]
           /\ \A q \in Commands \ {p} : command'[q] = command[q]
           /\ command'[p].at = at /\ command'[p].why = command[p].why
           /\ command'[p].key = command[p].key /\ command'[p].cached = command[p].cached
           /\ command'[p].copied = command[p].copied /\ command'[p].export = export
<1>1. command[p] \in CommandState
  BY DEF TypeOK
<1>2. [[command[p] EXCEPT !.at = at] EXCEPT !.export = export] \in CommandState
  BY <1>1 DEF CommandState
<1>3. command' = [command EXCEPT ![p] = [[command[p] EXCEPT !.at = at] EXCEPT !.export = export]]
  BY DEF Holds, TypeOK
<1> QED BY <1>1, <1>2, <1>3 DEF TypeOK, CommandState

LEMMA Hashing ==
    ASSUME TypeOK, NEW p \in Commands, Hash(p)
    PROVE  /\ command' \in [Commands -> CommandState]
           /\ \A q \in Commands \ {p} : command'[q] = command[q]
           /\ command'[p].at \in {"lookup", "copy"} /\ command'[p].why = command[p].why
           /\ command'[p].key \in Keys
           /\ command'[p].copied = command[p].copied /\ command'[p].export = command[p].export
<1>1. command[p] \in CommandState
  BY DEF TypeOK
<1>2. PICK options \in Options, cached \in BOOLEAN :
        command' = [command EXCEPT ![p].at = IF cached THEN "lookup" ELSE "copy",
                                   ![p].cached = cached, ![p].key = <<binary, options>>]
  BY DEF Hash
<1> DEFINE at == IF cached THEN "lookup" ELSE "copy"
           key == <<binary, options>>
           r == [[[command[p] EXCEPT !.at = at] EXCEPT !.cached = cached] EXCEPT !.key = key]
<1>3. key \in Keys /\ at \in {"lookup", "copy"} /\ at \in Stations
  BY DEF Keys, TypeOK, Stations
<1>4. command' = [command EXCEPT ![p] = r]
  BY <1>2 DEF TypeOK
<1> HIDE DEF at, key
<1>5. r \in CommandState /\ r.at = at /\ r.key = key /\ r.why = command[p].why
      /\ r.copied = command[p].copied /\ r.export = command[p].export
  BY <1>1, <1>3 DEF CommandState
<1> QED BY <1>3, <1>4, <1>5 DEF TypeOK

LEMMA Copying ==
    ASSUME TypeOK, NEW p \in Commands, Copy(p)
    PROVE  /\ command' \in [Commands -> CommandState]
           /\ \A q \in Commands \ {p} : command'[q] = command[q]
           /\ command'[p].at = "analysis" /\ command'[p].why = command[p].why
           /\ command'[p].key = command[p].key /\ command'[p].cached = command[p].cached
           /\ command'[p].copied = binary /\ command'[p].export = command[p].export
<1>1. command[p] \in CommandState
  BY DEF TypeOK
<1>2. [[command[p] EXCEPT !.at = "analysis"] EXCEPT !.copied = binary] \in CommandState
  BY <1>1 DEF CommandState, Stations, TypeOK
<1>3. command' = [command EXCEPT ![p] = [[command[p] EXCEPT !.at = "analysis"] EXCEPT !.copied = binary]]
  BY DEF Copy, TypeOK
<1> QED BY <1>1, <1>2, <1>3 DEF TypeOK, CommandState

-----------------------------------------------------------------------------
(* Steps that touch one command, and of the directory only its partial     *)
(* file, keep the invariant if they keep what it says of that command.     *)

\* Once a command has copied, what it hashed and copied is settled: swaps are not forgotten.
LEMMA SwapsStay ==
    ASSUME TypeOK, NEW p \in Commands, command' \in [Commands -> CommandState],
           \A q \in Commands \ {p} : command'[q] = command[q],
           command[p].copied # None =>
               command'[p].copied = command[p].copied /\ command'[p].key = command[p].key,
           NEW k \in Keys, SwappedFor(k)
    PROVE  SwappedFor(k)'
<1>1. PICK q \in Commands : Swapped(q) /\ command[q].key = k
  BY DEF SwappedFor
<1>2. command'[q].copied = command[q].copied /\ command'[q].key = command[q].key
  BY <1>1 DEF Swapped
<1> QED BY <1>1, <1>2 DEF SwappedFor, Swapped

LEMMA CommandStep ==
    ASSUME Inv, NEW p \in Commands, TypeOK',
           \A q \in Commands \ {p} : command'[q] = command[q] /\ files'[q] = files[q],
           \A k \in Keys : files'[k] = files[k],
           clear' = clear,
           command[p].copied # None =>
               command'[p].copied = command[p].copied /\ command'[p].key = command[p].key,
           Fine(p)'
    PROVE  Inv'
<1>1. TypeOK /\ command' \in [Commands -> CommandState]
  BY DEF Inv, TypeOK
<1>2. \A k \in Keys : SwappedFor(k) => SwappedFor(k)'
  BY <1>1, SwapsStay
<1>3. Begun' <=> Begun
  BY DEF Begun
<1>4. ASSUME NEW q \in Commands \ {p} PROVE Fine(q)'
  <2>1. Fine(q) /\ command'[q] = command[q] /\ files'[q] = files[q]
    BY DEF Inv
  <2>2. StageOf(q)' /\ PartialOf(q)' /\ QuietOf(q)'
    BY <2>1, <1>3 DEF Fine, StageOf, PartialOf, QuietOf
  <2>3. CountsOn(q)'
    <3>1. command[q].at = "load" => files'[command[q].key] = files[command[q].key]
      BY <2>1 DEF Fine, StageOf
    <3> QED BY <2>1, <1>3, <3>1 DEF Fine, CountsOn
  <2>4. RightOf(q)'
    BY <2>1, <1>2 DEF Fine, RightOf, StageOf
  <2> QED BY <2>2, <2>3, <2>4 DEF Fine
<1>5. ASSUME NEW k \in Keys PROVE WholeOf(k)'
  BY <1>2 DEF Inv, WholeOf
<1> QED BY <1>4, <1>5 DEF Inv

-----------------------------------------------------------------------------
(* The steps of a command.                                                  *)

\* What the file of a command may change to.
LEMMA PartialType ==
    ASSUME TypeOK, NEW p \in Commands, NEW x \in {None} \cup FileState,
           files' = [files EXCEPT ![p] = x]
    PROVE  /\ files' \in [Names -> {None} \cup FileState] /\ files'[p] = x
           /\ \A q \in Commands \ {p} : files'[q] = files[q]
           /\ \A k \in Keys : files'[k] = files[k]
BY NamesApart DEF TypeOK, Names

\* Stages of a command that has nothing to do with the cache any more.
LEMMA Leaving ==
    ASSUME Inv, NEW p \in Commands, TypeOK',
           \A q \in Commands \ {p} : command'[q] = command[q] /\ files'[q] = files[q],
           \A k \in Keys : files'[k] = files[k], clear' = clear,
           command'[p].at \in {"failed", "interrupted", "killed"},
           command'[p].at # "killed" => files'[p] = None,
           command[p].at # "idle",
           command'[p].key = command[p].key, command'[p].copied = command[p].copied,
           command'[p].why \in {"gone", "broken"} => Begun
    PROVE  Inv'
<1>1. Fine(p)
  BY DEF Inv
<1>2. Begun' <=> Begun
  BY DEF Begun
<1>3. Fine(p)'
  BY <1>1, <1>2 DEF Fine, StageOf, PartialOf, CountsOn, RightOf, QuietOf
<1> QED BY <1>3, CommandStep

LEMMA HashStep == ASSUME Inv, NEW p \in Commands, Hash(p) PROVE Inv'
<1>1. TypeOK /\ Fine(p) /\ command[p].at = "idle" /\ UNCHANGED <<binary, files, child, clear>>
  BY DEF Inv, Hash
<1>2. TypeOK'
  BY <1>1, Hashing DEF TypeOK
<1>3. command[p].copied = None /\ command[p].export = None /\ files[p] = None
  BY <1>1 DEF Fine, StageOf, PartialOf
<1>4. Fine(p)'
  BY <1>1, <1>3, Hashing DEF Fine, StageOf, PartialOf, CountsOn, RightOf, QuietOf, Begun
<1> QED BY <1>1, <1>2, <1>3, <1>4, Hashing, CommandStep

LEMMA LookupStep == ASSUME Inv, NEW p \in Commands, Lookup(p) PROVE Inv'
<1> DEFINE at == IF files[command[p].key] # None THEN "load" ELSE "copy"
<1>1. TypeOK /\ Fine(p) /\ command[p].at = "lookup" /\ Goes(p, at)
      /\ UNCHANGED <<binary, files, child, clear>>
  BY DEF Inv, Lookup
<1>2. at \in Stations /\ at \in {"load", "copy"} /\ (at = "load" => files[command[p].key] # None)
  BY DEF Stations
<1> HIDE DEF at
<1>3. TypeOK'
  BY <1>1, <1>2, Going DEF TypeOK
<1>4. Fine(p)'
  BY <1>1, <1>2, Going DEF Fine, StageOf, PartialOf, CountsOn, RightOf, QuietOf, Begun
<1> QED BY <1>1, <1>2, <1>3, <1>4, Going, CommandStep

LEMMA LoadStep == ASSUME Inv, NEW p \in Commands, Load(p) PROVE Inv'
<1> DEFINE found == files[command[p].key]
<1>1. TypeOK /\ Fine(p) /\ command[p].at = "load" /\ UNCHANGED <<binary, files, child, clear>>
      /\ command[p].key \in Keys /\ files[p] = None
  BY DEF Inv, Load, Fine, StageOf, PartialOf
<1>2. found = None \/ (found \in FileState /\ found.whole)
  BY <1>1, NamesApart DEF Inv, WholeOf, TypeOK, Names
<1>3. CASE found = None
  <2>1. Fails(p, "gone") /\ Begun
    BY <1>1, <1>3 DEF Load, Fine, CountsOn
  <2>2. TypeOK'
    BY <1>1, <2>1, Failing DEF TypeOK
  <2> QED BY <1>1, <2>1, <2>2, Failing, Leaving
<1>4. CASE found # None
  <2>1. Holds(p, "done", found.export) /\ found.export \in Keys /\ "done" \in Stations
    BY <1>1, <1>2, <1>4 DEF Load, FileState, Stations, Ends
  <2>2. TypeOK'
    BY <1>1, <2>1, Holding DEF TypeOK
  <2>3. found.export = command[p].key \/ SwappedFor(command[p].key)
    BY <1>1, <1>4 DEF Inv, WholeOf
  <2>4. SwappedFor(command[p].key) => SwappedFor(command[p].key)'
    BY <1>1, <2>1, Holding, SwapsStay
  <2>5. RightOf(p)'
    BY <2>1, <2>3, <2>4, <1>1, Holding DEF RightOf
  <2>6. Fine(p)'
    BY <1>1, <2>1, <2>5, Holding DEF Fine, StageOf, PartialOf, CountsOn, QuietOf, Begun
  <2> QED BY <1>1, <2>1, <2>2, <2>6, Holding, CommandStep
<1> QED BY <1>3, <1>4

LEMMA CopyStep == ASSUME Inv, NEW p \in Commands, Copy(p) PROVE Inv'
<1>1. TypeOK /\ Fine(p) /\ command[p].at = "copy" /\ UNCHANGED <<binary, files, clear>>
      /\ command[p].copied = None /\ binary \in Contents
  BY DEF Inv, Copy, Fine, StageOf, TypeOK
<1>2. TypeOK'
  BY <1>1, Copying DEF TypeOK, Copy
<1>3. Fine(p)'
  BY <1>1, Copying DEF Fine, StageOf, PartialOf, CountsOn, RightOf, QuietOf, Begun
<1> QED BY <1>1, <1>2, <1>3, Copying, CommandStep

LEMMA WaitStep == ASSUME Inv, NEW p \in Commands, Wait(p) PROVE Inv'
<1>1. TypeOK /\ Fine(p) /\ command[p].at = "analysis" /\ UNCHANGED <<binary, files, child, clear>>
      /\ files[p] = None
  BY DEF Inv, Wait, Fine, PartialOf
<1>2. CASE Goes(p, "output")
  <2>1. "output" \in Stations
    BY DEF Stations
  <2>2. TypeOK'
    BY <1>1, <1>2, <2>1, Going DEF TypeOK
  <2>3. Fine(p)'
    BY <1>1, <1>2, <2>1, Going DEF Fine, StageOf, PartialOf, CountsOn, RightOf, QuietOf, Begun
  <2> QED BY <1>1, <1>2, <2>1, <2>2, <2>3, Going, CommandStep
<1>3. CASE Fails(p, "ghidra")
  <2>1. TypeOK'
    BY <1>1, <1>3, Failing DEF TypeOK
  <2> QED BY <1>1, <1>3, <2>1, Failing, Leaving
<1> QED BY <1>2, <1>3 DEF Wait

LEMMA TimesOutStep == ASSUME Inv, NEW p \in Commands, TimesOut(p) PROVE Inv'
<1>1. TypeOK /\ Fine(p) /\ command[p].at = "analysis" /\ UNCHANGED <<binary, files, child, clear>>
      /\ files[p] = None /\ Goes(p, "kill") /\ "kill" \in Stations
  BY DEF Inv, TimesOut, Fine, PartialOf, Stations
<1>2. TypeOK'
  BY <1>1, Going DEF TypeOK
<1>3. Fine(p)'
  BY <1>1, Going DEF Fine, StageOf, PartialOf, CountsOn, RightOf, QuietOf, Begun
<1> QED BY <1>1, <1>2, <1>3, Going, CommandStep

LEMMA KillStep == ASSUME Inv, NEW p \in Commands, Kill(p) PROVE Inv'
<1>1. TypeOK /\ Fine(p) /\ command[p].at = "kill" /\ UNCHANGED <<binary, files, clear>>
      /\ files[p] = None /\ Fails(p, "timeout")
  BY DEF Inv, Kill, Fine, PartialOf
<1>2. TypeOK'
  BY <1>1, Failing DEF TypeOK, Kill
<1> QED BY <1>1, <1>2, Failing, Leaving

LEMMA LoadOutputStep == ASSUME Inv, NEW p \in Commands, LoadOutput(p) PROVE Inv'
<1> DEFINE at == IF command[p].cached THEN "store" ELSE "done"
           made == <<command[p].copied, command[p].key[2]>>
<1>1. TypeOK /\ Fine(p) /\ command[p].at = "output" /\ UNCHANGED <<binary, files, child, clear>>
      /\ files[p] = None /\ command[p].key \in Keys /\ command[p].copied \in Contents
  BY DEF Inv, LoadOutput, Fine, StageOf, PartialOf
<1>2. CASE Fails(p, "ghidra")
  <2>1. TypeOK'
    BY <1>1, <1>2, Failing DEF TypeOK
  <2> QED BY <1>1, <1>2, <2>1, Failing, Leaving
<1>3. CASE Holds(p, at, made)
  <2>1. at \in Stations /\ at \in {"store", "done"} /\ (at = "store" => command[p].cached)
        /\ made \in Keys /\ made[1] = command[p].copied
    BY <1>1, NamesApart DEF Stations, Ends, Keys
  <2>2. made = command[p].key \/ made[1] # command[p].key[1]
    BY <1>1, NamesApart
  <2>3. command[p].copied # None
    BY <1>1, NamesApart
  <2> HIDE DEF at
  <2>4. TypeOK'
    BY <1>1, <1>3, <2>1, Holding DEF TypeOK
  <2>5. RightOf(p)'
    BY <1>1, <1>3, <2>1, <2>2, <2>3, Holding DEF RightOf, SwappedFor, Swapped
  <2>6. Fine(p)'
    BY <1>1, <1>3, <2>1, <2>5, Holding DEF Fine, StageOf, PartialOf, CountsOn, QuietOf, Begun
  <2> QED BY <1>1, <1>3, <2>1, <2>4, <2>6, Holding, CommandStep
<1> QED BY <1>2, <1>3 DEF LoadOutput

LEMMA MakePartialStep == ASSUME Inv, NEW p \in Commands, MakePartial(p) PROVE Inv'
<1>1. TypeOK /\ Fine(p) /\ command[p].at = "store" /\ UNCHANGED <<binary, child, clear>>
      /\ Goes(p, "write") /\ "write" \in Stations
  BY DEF Inv, MakePartial, Stations
<1>2. command[p].key \in Keys /\ command[p].copied \in Contents /\ command[p].cached
      /\ command[p].export = <<command[p].copied, command[p].key[2]>>
  BY <1>1 DEF Fine, StageOf
<1>3. command[p].export \in Keys
  BY <1>2, NamesApart DEF Keys
<1>4. File(command[p].export, FALSE) \in FileState
      /\ File(command[p].export, FALSE).export = command[p].export
  BY <1>3 DEF File, FileState
<1>5. files' = [files EXCEPT ![p] = File(command[p].export, FALSE)]
  BY DEF MakePartial
<1>6. TypeOK'
  BY <1>1, <1>4, <1>5, PartialType, Going DEF TypeOK
<1>7. files'[p] = File(command[p].export, FALSE) /\ files'[p] # None
  BY <1>1, <1>3, <1>4, <1>5, PartialType, NamesApart DEF Names
<1>8. Fine(p)'
  BY <1>1, <1>2, <1>4, <1>7, Going DEF Fine, StageOf, PartialOf, CountsOn, RightOf, QuietOf, Begun
<1> QED BY <1>1, <1>4, <1>5, <1>6, <1>8, PartialType, Going, CommandStep

LEMMA WriteStep == ASSUME Inv, NEW p \in Commands, Write(p) PROVE Inv'
<1>1. TypeOK /\ Fine(p) /\ command[p].at = "write" /\ UNCHANGED <<binary, child, clear>>
      /\ Goes(p, "replace") /\ "replace" \in Stations
  BY DEF Inv, Write, Stations
<1> DEFINE x == IF files[p] = None THEN None ELSE [files[p] EXCEPT !.whole = TRUE]
<1>2. files[p] \in {None} \cup FileState
  BY <1>1 DEF TypeOK, Names
<1>3. files' = [files EXCEPT ![p] = x]
  BY <1>1 DEF Write, TypeOK
<1>4. x \in {None} \cup FileState
      /\ (x # None => files[p] # None /\ x.whole /\ x.export = files[p].export)
      /\ (x = None => files[p] = None)
  BY <1>2, NamesApart DEF FileState
<1> HIDE DEF x
<1>5. TypeOK'
  BY <1>1, <1>3, <1>4, PartialType, Going DEF TypeOK
<1>6. files'[p] = x
  BY <1>1, <1>3, <1>4, PartialType
<1>7. Fine(p)'
  BY <1>1, <1>4, <1>6, Going DEF Fine, StageOf, PartialOf, CountsOn, RightOf, QuietOf, Begun
<1> QED BY <1>1, <1>3, <1>4, <1>5, <1>7, PartialType, Going, CommandStep

LEMMA WriteFailsStep == ASSUME Inv, NEW p \in Commands, WriteFails(p) PROVE Inv'
<1>1. TypeOK /\ Fine(p) /\ command[p].at = "write" /\ UNCHANGED <<binary, child, clear>>
      /\ Fails(p, "disk") /\ files' = [files EXCEPT ![p] = None]
  BY DEF Inv, WriteFails
<1>2. TypeOK'
  BY <1>1, PartialType, Failing DEF TypeOK
<1>3. /\ files'[p] = None /\ \A q \in Commands \ {p} : files'[q] = files[q]
      /\ \A k \in Keys : files'[k] = files[k]
  BY <1>1, PartialType
<1> QED BY <1>1, <1>2, <1>3, Failing, Leaving

LEMMA InterruptStep == ASSUME Inv, NEW p \in Commands, Interrupt(p) PROVE Inv'
<1>1. TypeOK /\ Fine(p) /\ command[p].at # "idle" /\ UNCHANGED <<binary, child, clear>>
      /\ Goes(p, "interrupted") /\ files' = [files EXCEPT ![p] = None]
      /\ "interrupted" \in Stations
  BY DEF Inv, Interrupt, Running, Stations, Ends
<1>2. TypeOK'
  BY <1>1, PartialType, Going DEF TypeOK
<1>3. command'[p].why \in {"gone", "broken"} => Begun
  BY <1>1, Going DEF Fine, QuietOf
<1> QED BY <1>1, <1>2, <1>3, PartialType, Going, Leaving

LEMMA CrashStep == ASSUME Inv, NEW p \in Commands, Crash(p) PROVE Inv'
<1>1. TypeOK /\ Fine(p) /\ command[p].at # "idle" /\ UNCHANGED <<binary, files, child, clear>>
      /\ Goes(p, "killed") /\ "killed" \in Stations
  BY DEF Inv, Crash, Running, Stations, Ends
<1>2. TypeOK'
  BY <1>1, Going DEF TypeOK
<1>3. command'[p].why \in {"gone", "broken"} => Begun
  BY <1>1, Going DEF Fine, QuietOf
<1> QED BY <1>1, <1>2, <1>3, Going, Leaving

\* The rename is the one step that changes what the cache holds.
LEMMA ReplaceShape ==
    ASSUME TypeOK, NEW p \in Commands, files[p] # None, command[p].key \in Keys,
           files' = [files EXCEPT ![command[p].key] = files[p], ![p] = None]
    PROVE  /\ files' \in [Names -> {None} \cup FileState] /\ files[p] \in FileState
           /\ files'[command[p].key] = files[p] /\ files'[p] = None
           /\ \A k \in Keys \ {command[p].key} : files'[k] = files[k]
           /\ \A q \in Commands \ {p} : files'[q] = files[q]
<1>1. command[p].key \in Names /\ p \in Names /\ command[p].key # p
  BY NamesApart DEF Names
<1> QED BY <1>1, NamesApart DEF TypeOK, Names

LEMMA ReplaceStep == ASSUME Inv, NEW p \in Commands, Replace(p) PROVE Inv'
<1>1. TypeOK /\ Fine(p) /\ command[p].at = "replace" /\ UNCHANGED <<binary, child, clear>>
  BY DEF Inv, Replace
<1>2. command[p].key \in Keys /\ command[p].copied \in Contents
      /\ command[p].export = <<command[p].copied, command[p].key[2]>>
  BY <1>1 DEF Fine, StageOf
<1>3. CASE files[p] = None
  <2>1. Fails(p, "gone") /\ UNCHANGED files /\ Begun
    BY <1>1, <1>3 DEF Replace, Fine, CountsOn
  <2>2. TypeOK'
    BY <1>1, <2>1, Failing DEF TypeOK
  <2> QED BY <1>1, <1>3, <2>1, <2>2, Failing, Leaving
<1>4. CASE files[p] # None
  <2>1. Goes(p, "done") /\ "done" \in Stations
        /\ files' = [files EXCEPT ![command[p].key] = files[p], ![p] = None]
    BY <1>4 DEF Replace, Stations, Ends
  <2>2. files[p].whole /\ files[p].export = command[p].export
    BY <1>1, <1>4 DEF Fine, PartialOf
  <2>3. TypeOK' /\ command' \in [Commands -> CommandState]
    BY <1>1, <1>2, <1>4, <2>1, ReplaceShape, Going DEF TypeOK
  <2>4. Begun' <=> Begun
    BY <1>1 DEF Begun
  <2>5. \A k \in Keys : SwappedFor(k) => SwappedFor(k)'
    BY <1>1, <2>1, Going, SwapsStay
  <2>6. PICK key \in Keys : key = command[p].key /\ key = command'[p].key
    BY <1>1, <1>2, <2>1, Going
  <2>7. command[p].export = key \/ SwappedFor(key)'
    <3>1. command[p].copied # None /\ key = <<key[1], key[2]>>
      BY <1>2, NamesApart
    <3>2. command[p].copied # key[1] => SwappedFor(key)
      BY <2>6, <3>1 DEF SwappedFor, Swapped
    <3>3. command[p].copied = key[1] => command[p].export = key
      BY <1>2, <2>6, <3>1
    <3> QED BY <2>5, <3>2, <3>3
  <2>8. ASSUME NEW k \in Keys PROVE WholeOf(k)'
    <3>1. CASE k = key
      <4>1. files'[k] = files[p]
        BY <1>1, <1>2, <1>4, <2>1, <2>6, <3>1, ReplaceShape
      <4> QED BY <2>2, <2>7, <3>1, <4>1 DEF WholeOf
    <3>2. CASE k # key
      <4>1. files'[k] = files[k]
        BY <1>1, <1>2, <1>4, <2>1, <2>6, <3>2, ReplaceShape
      <4> QED BY <2>5, <4>1 DEF Inv, WholeOf
    <3> QED BY <3>1, <3>2
  <2>10. Fine(p)'
    <3>1. files'[p] = None
      BY <1>1, <1>2, <1>4, <2>1, ReplaceShape
    <3>2. command'[p].at = "done" /\ command'[p].export = command[p].export
          /\ command'[p].why = command[p].why
      BY <1>1, <2>1, Going
    <3>3. RightOf(p)'
      BY <2>6, <2>7, <3>2 DEF RightOf
    <3> QED BY <1>1, <2>4, <2>6, <3>1, <3>2, <3>3
            DEF Fine, StageOf, PartialOf, CountsOn, QuietOf
  <2>9. ASSUME NEW q \in Commands \ {p} PROVE Fine(q)'
    <3>a. Fine(q)
      BY DEF Inv
    <3>b. command'[q] = command[q]
      BY <1>1, <2>1, Going
    <3>c. files'[q] = files[q]
      BY <1>1, <1>2, <1>4, <2>1, ReplaceShape
    <3>1. Fine(q) /\ command'[q] = command[q] /\ files'[q] = files[q]
      BY <3>a, <3>b, <3>c
    <3>2. StageOf(q)' /\ PartialOf(q)' /\ QuietOf(q)'
      BY <2>4, <3>1 DEF Fine, StageOf, PartialOf, QuietOf
    <3>3. command[q].at = "load" /\ files'[command[q].key] = None => files[command[q].key] = None
      BY <1>1, <1>2, <1>4, <2>1, <3>1, ReplaceShape DEF Fine, StageOf
    <3>4. CountsOn(q)'
      BY <2>4, <3>1, <3>3 DEF Fine, CountsOn
    <3>5. RightOf(q)'
      BY <2>5, <3>1 DEF Fine, RightOf, StageOf
    <3> QED BY <3>2, <3>4, <3>5 DEF Fine
  <2> QED BY <2>3, <2>8, <2>9, <2>10 DEF Inv
<1> QED BY <1>3, <1>4

-----------------------------------------------------------------------------
(* The steps of everybody else.                                             *)

\* While no command moves, a clear that has begun may take files away.
LEMMA OthersStep ==
    ASSUME Inv, TypeOK', command' = command, Begun => Begun',
           \A n \in Names : files'[n] = files[n] \/ (files'[n] = None /\ Begun')
    PROVE  Inv'
<1>1. \A k \in Keys : SwappedFor(k)' <=> SwappedFor(k)
  BY DEF SwappedFor, Swapped
<1>2. \A k \in Keys : WholeOf(k)'
  BY <1>1 DEF Inv, WholeOf, Names
<1>3. ASSUME NEW p \in Commands PROVE Fine(p)'
  <2>1. Fine(p) /\ p \in Names
    BY DEF Inv, Names
  <2>2. StageOf(p)' /\ PartialOf(p)' /\ QuietOf(p)'
    BY <2>1 DEF Fine, StageOf, PartialOf, QuietOf
  <2>3. command[p].at = "load" => command[p].key \in Names
    BY <2>1 DEF Fine, StageOf, Names
  <2>4. CountsOn(p)'
    BY <2>1, <2>3 DEF Fine, CountsOn
  <2>5. RightOf(p)'
    BY <1>1, <2>1 DEF Fine, RightOf, StageOf
  <2> QED BY <2>2, <2>4, <2>5 DEF Fine
<1> QED BY <1>2, <1>3 DEF Inv

\* A clear that takes a step has begun.
LEMMA ClearStep == ASSUME Inv, NEW c \in Clears, Clearing(c) PROVE Inv'
<1>1. TypeOK /\ UNCHANGED <<binary, command, child>>
  BY DEF Inv, Clearing, List, Check, Unlink, Cleared
<1>2. clear[c] \in ClearState
  BY <1>1 DEF TypeOK
<1>3. CASE List(c)
  <2> DEFINE r == [[clear[c] EXCEPT !.at = "listed"] EXCEPT !.todo = {n \in Names : files[n] # None}]
  <2>1. r \in ClearState /\ r.at = "listed"
    BY <1>2 DEF ClearState
  <2>2. clear' = [clear EXCEPT ![c] = r] /\ files' = files
    BY <1>1, <1>3 DEF List, TypeOK
  <2> HIDE DEF r
  <2>3. TypeOK' /\ Begun'
    BY <1>1, <2>1, <2>2 DEF TypeOK, Begun
  <2> QED BY <1>1, <2>2, <2>3, OthersStep
<1>4. CASE Check(c)
  <2>1. PICK n \in clear[c].todo :
          clear' = [clear EXCEPT ![c].todo = @ \ {n},
                                 ![c].at = IF files[n] # None THEN "unlink" ELSE "listed",
                                 ![c].checked = n]
    BY <1>4 DEF Check
  <2> DEFINE at == IF files[n] # None THEN "unlink" ELSE "listed"
             r == [[[clear[c] EXCEPT !.todo = @ \ {n}] EXCEPT !.at = at] EXCEPT !.checked = n]
  <2>2. n \in Names /\ at \in {"unlink", "listed"}
    BY <1>2 DEF ClearState
  <2>3. clear' = [clear EXCEPT ![c] = r] /\ files' = files
    BY <1>1, <1>4, <2>1 DEF Check, TypeOK
  <2> HIDE DEF at
  <2>4. r \in ClearState /\ r.at = at
    BY <1>2, <2>2 DEF ClearState
  <2> HIDE DEF r
  <2>5. TypeOK' /\ Begun'
    BY <1>1, <2>2, <2>3, <2>4 DEF TypeOK, Begun
  <2> QED BY <1>1, <2>3, <2>5, OthersStep
<1>5. CASE Unlink(c)
  <2> DEFINE at == IF files[clear[c].checked] = None THEN "failed" ELSE "listed"
             r == [clear[c] EXCEPT !.at = at]
  <2>1. at \in {"failed", "listed"}
    OBVIOUS
  <2>2. clear' = [clear EXCEPT ![c] = r] /\ files' = [files EXCEPT ![clear[c].checked] = None]
    BY <1>1, <1>5 DEF Unlink, TypeOK
  <2> HIDE DEF at
  <2>3. r \in ClearState /\ r.at = at
    BY <1>2, <2>1 DEF ClearState
  <2> HIDE DEF r
  <2>4. files' \in [Names -> {None} \cup FileState]
        /\ \A n \in Names : files'[n] = files[n] \/ files'[n] = None
    BY <1>1, <2>2 DEF TypeOK
  <2>5. TypeOK' /\ Begun'
    BY <1>1, <2>1, <2>2, <2>3, <2>4 DEF TypeOK, Begun
  <2> QED BY <1>1, <2>4, <2>5, OthersStep
<1>6. CASE Cleared(c)
  <2> DEFINE r == [clear[c] EXCEPT !.at = "done"]
  <2>1. r \in ClearState /\ r.at = "done"
    BY <1>2 DEF ClearState
  <2>2. clear' = [clear EXCEPT ![c] = r] /\ files' = files
    BY <1>1, <1>6 DEF Cleared, TypeOK
  <2> HIDE DEF r
  <2>3. TypeOK' /\ Begun'
    BY <1>1, <2>1, <2>2 DEF TypeOK, Begun
  <2> QED BY <1>1, <2>2, <2>3, OthersStep
<1> QED BY <1>3, <1>4, <1>5, <1>6 DEF Clearing

LEMMA ChildStep == ASSUME Inv, NEW p \in Commands, ChildEnds(p) PROVE Inv'
<1>1. TypeOK /\ UNCHANGED <<binary, files, command, clear>>
  BY DEF Inv, ChildEnds
<1>2. TypeOK'
  BY <1>1 DEF TypeOK, ChildEnds
<1>3. Begun => Begun'
  BY <1>1 DEF Begun
<1> QED BY <1>1, <1>2, <1>3, OthersStep

LEMMA RebuildStep == ASSUME Inv, Rebuild PROVE Inv'
<1>1. TypeOK /\ UNCHANGED <<files, command, child, clear>> /\ binary' \in Contents
  BY DEF Inv, Rebuild
<1>2. TypeOK' /\ (Begun => Begun')
  BY <1>1 DEF TypeOK, Begun
<1> QED BY <1>1, <1>2, OthersStep

LEMMA Stutter == ASSUME Inv, UNCHANGED vars PROVE Inv'
BY DEF vars, Inv, TypeOK, Fine, StageOf, PartialOf, CountsOn, RightOf, QuietOf, WholeOf, SwappedFor,
       Swapped, Begun

-----------------------------------------------------------------------------
(* The invariant.                                                           *)

LEMMA Initially == Init => Inv
<1> SUFFICES ASSUME Init PROVE Inv
  OBVIOUS
<1>1. TypeOK
  <2>1. [at |-> "idle", cached |-> FALSE, key |-> None, copied |-> None, export |-> None, why |-> None]
          \in CommandState
    BY DEF CommandState, Stations
  <2>2. [at |-> "idle", todo |-> {}, checked |-> None] \in ClearState
    BY DEF ClearState
  <2> QED BY <2>1, <2>2 DEF Init, TypeOK
<1>2. ASSUME NEW p \in Commands PROVE Fine(p)
  <2>1. command[p].at = "idle" /\ command[p].copied = None /\ command[p].export = None
        /\ command[p].why = None /\ files[p] = None
    BY DEF Init, Names
  <2> QED BY <2>1, NamesApart DEF Fine, StageOf, PartialOf, CountsOn, RightOf, QuietOf
<1>3. \A k \in Keys : WholeOf(k)
  BY DEF Init, WholeOf, Names
<1> QED BY <1>1, <1>2, <1>3 DEF Inv

LEMMA Preserved == Inv /\ [Next]_vars => Inv'
<1> SUFFICES ASSUME Inv, [Next]_vars PROVE Inv'
  OBVIOUS
<1>1. ASSUME NEW p \in Commands, Step(p) PROVE Inv'
  BY <1>1, HashStep, LookupStep, LoadStep, CopyStep, WaitStep, TimesOutStep, KillStep, LoadOutputStep,
     MakePartialStep, WriteStep, WriteFailsStep, ReplaceStep DEF Step
<1>2. ASSUME NEW p \in Commands, ChildEnds(p) \/ Interrupt(p) \/ Crash(p) PROVE Inv'
  BY <1>2, ChildStep, InterruptStep, CrashStep
<1>3. ASSUME NEW c \in Clears, Clearing(c) PROVE Inv'
  BY <1>3, ClearStep
<1>4. CASE Rebuild
  BY <1>4, RebuildStep
<1>5. CASE UNCHANGED vars
  BY <1>5, Stutter
<1> QED BY <1>1, <1>2, <1>3, <1>4, <1>5 DEF Next

LEMMA Always == Spec => []Inv
BY Initially, Preserved, PTL DEF Spec

\* The directory, the commands, their children and the clears keep to their types.
THEOREM TypeCorrect == Spec => []TypeOK
<1>1. Inv => TypeOK
  BY DEF Inv
<1> QED BY <1>1, Always, PTL

\* Whoever stores, dies storing or clears: what a lookup finds is a whole export (cache.py:50),
\* of what the key says unless the binary was rebuilt between some command's hash and copy.
THEOREM WholeExports == Spec => []OnlyWholeExports
<1>1. Inv => OnlyWholeExports
  BY DEF Inv, WholeOf, SwappedFor, OnlyWholeExports
<1> QED BY <1>1, Always, PTL

\* A command that ends with an export (frontend.py) ends with that of what it hashed, with
\* the same exception.
THEOREM RightExports == Spec => []RightExport
<1>1. Inv => RightExport
  BY DEF Inv, Fine, RightOf, SwappedFor, RightExport
<1> QED BY <1>1, Always, PTL

\* No command loses a file it counts on but to a `cache clear`: however many store and load
\* at the same time.
THEOREM Undisturbed == Spec => []OnlyClearsDisturb
<1>1. Inv => OnlyClearsDisturb
  BY DEF Inv, Fine, QuietOf, Begun, OnlyClearsDisturb
<1> QED BY <1>1, Always, PTL

-----------------------------------------------------------------------------
(* The cache as a map.                                                      *)

MapNow == [k \in Keys |-> IF files[k] = None THEN None ELSE files[k].export]
PuttingNow == {<<command[p].key, command[p].export>> : p \in Stored}
Abstract == <<MapNow, PuttingNow>>

Stores(p) == command[p].export # None /\ command[p].cached /\ command[p].copied # None

LEMMA MapKept ==
    ASSUME \A k \in Keys : files'[k] = files[k] PROVE MapNow' = MapNow
BY DEF MapNow

LEMMA MapChanged ==
    ASSUME NEW k \in Keys, NEW e, e = IF files'[k] = None THEN None ELSE files'[k].export,
           \A j \in Keys \ {k} : files'[j] = files[j]
    PROVE  MapNow' = [MapNow EXCEPT ![k] = e]
<1>1. \A j \in Keys : MapNow'[j] = IF j = k THEN e ELSE MapNow[j]
  BY DEF MapNow
<1>2. MapNow' = [j \in Keys |-> MapNow'[j]]
  BY DEF MapNow
<1>3. [MapNow EXCEPT ![k] = e] = [j \in Keys |-> IF j = k THEN e ELSE MapNow[j]]
  BY DEF MapNow
<1> QED BY <1>1, <1>2, <1>3

\* What is being put is what the commands that store hold.
LEMMA PuttingKept ==
    ASSUME \A p \in Commands :
              /\ Stores(p)' <=> Stores(p)
              /\ Stores(p) => command'[p].key = command[p].key /\ command'[p].export = command[p].export
    PROVE  PuttingNow' = PuttingNow
<1>1. Stored' = Stored
  BY DEF Stored, Stores
<1> QED BY <1>1 DEF PuttingNow, Stored, Stores

\* A command that keeps what it holds puts what it put.
LEMMA HoldingOn ==
    ASSUME NEW p \in Commands, \A q \in Commands \ {p} : command'[q] = command[q],
           command'[p].key = command[p].key, command'[p].cached = command[p].cached,
           command'[p].copied = command[p].copied, command'[p].export = command[p].export
    PROVE  PuttingNow' = PuttingNow
<1>1. \A q \in Commands :
          /\ Stores(q)' <=> Stores(q)
          /\ command'[q].key = command[q].key /\ command'[q].export = command[q].export
  BY DEF Stores
<1> QED BY <1>1, PuttingKept

\* A command that stores neither before nor after does not count.
LEMMA NotStoring ==
    ASSUME NEW p \in Commands, \A q \in Commands \ {p} : command'[q] = command[q],
           ~ Stores(p), ~ Stores(p)'
    PROVE  PuttingNow' = PuttingNow
<1>1. \A q \in Commands :
          /\ Stores(q)' <=> Stores(q)
          /\ Stores(q) => command'[q].key = command[q].key /\ command'[q].export = command[q].export
  BY DEF Stores
<1> QED BY <1>1, PuttingKept

\* Before there is an output, nothing is put.
LEMMA CommandActs ==
    ASSUME Inv, NEW p \in Commands,
           Hash(p) \/ Lookup(p) \/ Load(p) \/ Copy(p) \/ Wait(p) \/ TimesOut(p) \/ Kill(p) \/ Crash(p)
    PROVE  UNCHANGED Abstract
<1>1. TypeOK /\ Fine(p) /\ files' = files
  BY DEF Inv, Hash, Lookup, Load, Copy, Wait, TimesOut, Kill, Crash
<1>2. MapNow' = MapNow
  BY <1>1, MapKept
<1>3. CASE Hash(p)
  <2>1. command[p].export = None /\ command'[p].export = None
    BY <1>1, <1>3, Hashing DEF Hash, Fine, StageOf
  <2> QED BY <1>1, <1>2, <1>3, <2>1, Hashing, NotStoring DEF Stores, Abstract
<1>4. CASE Copy(p)
  <2>1. command[p].export = None /\ command'[p].export = None
    BY <1>1, <1>4, Copying DEF Copy, Fine, StageOf
  <2> QED BY <1>1, <1>2, <1>4, <2>1, Copying, NotStoring DEF Stores, Abstract
<1>5. CASE Load(p)
  <2> DEFINE found == files[command[p].key]
  <2>1. command[p].copied = None /\ command[p].key \in Keys
    BY <1>1, <1>5 DEF Load, Fine, StageOf
  <2>2. CASE found = None
    <3>1. Fails(p, "gone")
      BY <1>5, <2>2 DEF Load
    <3> QED BY <1>1, <1>2, <3>1, Failing, HoldingOn DEF Abstract
  <2>3. CASE found # None
    <3>1. found \in FileState /\ found.whole
      BY <1>1, <2>1, <2>3, NamesApart DEF Inv, WholeOf, TypeOK, Names
    <3>2. Holds(p, "done", found.export) /\ found.export \in Keys /\ "done" \in Stations
      BY <1>5, <2>3, <3>1 DEF Load, FileState, Stations, Ends
    <3>3. command'[p].copied = None /\ \A q \in Commands \ {p} : command'[q] = command[q]
      BY <1>1, <2>1, <3>2, Holding
    <3> QED BY <1>2, <2>1, <3>3, NotStoring DEF Stores, Abstract
  <2> QED BY <2>2, <2>3
<1>6. CASE \E at \in Stations : Goes(p, at)
  BY <1>1, <1>2, <1>6, Going, HoldingOn DEF Abstract
<1>7. CASE \E why \in {"gone", "broken", "ghidra", "timeout", "disk"} : Fails(p, why)
  BY <1>1, <1>2, <1>7, Failing, HoldingOn DEF Abstract
<1>8. CASE Lookup(p) \/ Wait(p) \/ TimesOut(p) \/ Kill(p) \/ Crash(p)
  <2>1. {"load", "copy", "output", "kill", "killed"} \subseteq Stations
    BY DEF Stations, Ends
  <2> QED BY <1>6, <1>7, <1>8, <2>1 DEF Lookup, Wait, TimesOut, Kill, Crash
<1> QED BY <1>3, <1>4, <1>5, <1>8

\* What is made of an export to be stored offers it.
LEMMA OutputActs ==
    ASSUME Inv, NEW p \in Commands, LoadOutput(p)
    PROVE  UNCHANGED Abstract
           \/ \E k \in Keys, e \in Keys : PuttingNow' = PuttingNow \cup {<<k, e>>} /\ MapNow' = MapNow
<1> DEFINE at == IF command[p].cached THEN "store" ELSE "done"
           made == <<command[p].copied, command[p].key[2]>>
<1>1. TypeOK /\ Fine(p) /\ files' = files /\ command[p].export = None
      /\ command[p].key \in Keys /\ command[p].copied \in Contents
  BY DEF Inv, LoadOutput, Fine, StageOf
<1>2. MapNow' = MapNow
  BY <1>1, MapKept
<1>3. CASE Fails(p, "ghidra")
  BY <1>1, <1>2, <1>3, Failing, HoldingOn DEF Abstract
<1>4. CASE Holds(p, at, made)
  <2>1. at \in Stations /\ made \in Keys
    BY <1>1, NamesApart DEF Stations, Ends, Keys
  <2> HIDE DEF at, made
  <2>2. /\ \A q \in Commands \ {p} : command'[q] = command[q]
        /\ command'[p].key = command[p].key /\ command'[p].cached = command[p].cached
        /\ command'[p].copied = command[p].copied /\ command'[p].export = made
    BY <1>1, <1>4, <2>1, Holding
  <2>3. CASE ~ command[p].cached
    BY <1>1, <1>2, <2>2, <2>3, NotStoring DEF Stores, Abstract
  <2>4. CASE command[p].cached
    <3>1. made # None /\ command[p].copied # None
      BY <1>1, <2>1, NamesApart DEF Names
    <3>2. Stored' = Stored \cup {p} /\ p \notin Stored
      BY <1>1, <2>2, <2>4, <3>1 DEF Stored
    <3>3. \A q \in Stored : command'[q] = command[q]
      BY <2>2, <3>2 DEF Stored
    <3>4. PuttingNow' = PuttingNow \cup {<<command[p].key, made>>}
      BY <2>2, <3>2, <3>3 DEF PuttingNow
    <3> QED BY <1>1, <1>2, <2>1, <3>4
  <2> QED BY <2>3, <2>4
<1> QED BY <1>3, <1>4 DEF LoadOutput

\* Partial files are no part of the map.
LEMMA PartialActs ==
    ASSUME Inv, NEW p \in Commands, MakePartial(p) \/ Write(p) \/ WriteFails(p) \/ Interrupt(p)
    PROVE  UNCHANGED Abstract
<1>1. TypeOK
  BY DEF Inv
<1>2. \A k \in Keys : files'[k] = files[k]
  <2>1. files' = files \/ \E x : files' = [files EXCEPT ![p] = x]
    <3>1. CASE Write(p)
      BY <1>1, <3>1 DEF Write, TypeOK
    <3> QED BY <3>1 DEF MakePartial, WriteFails, Interrupt
  <2> QED BY <1>1, <2>1, NamesApart DEF TypeOK, Names
<1>3. MapNow' = MapNow
  BY <1>2, MapKept
<1>4. (\E at \in Stations : Goes(p, at)) \/ Fails(p, "disk")
  BY DEF MakePartial, Write, WriteFails, Interrupt, Stations, Ends
<1>5. PuttingNow' = PuttingNow
  <2>1. CASE \E at \in Stations : Goes(p, at)
    BY <1>1, <2>1, Going, HoldingOn
  <2>2. CASE Fails(p, "disk")
    BY <1>1, <2>2, Failing, HoldingOn
  <2> QED BY <1>4, <2>1, <2>2
<1> QED BY <1>3, <1>5 DEF Abstract

\* The rename puts an export that was offered.
LEMMA ReplaceActs ==
    ASSUME Inv, NEW p \in Commands, Replace(p)
    PROVE  UNCHANGED Abstract
           \/ \E k \in Keys, e \in Keys :
                 /\ <<k, e>> \in PuttingNow
                 /\ MapNow' = [MapNow EXCEPT ![k] = e] /\ PuttingNow' = PuttingNow
<1>1. TypeOK /\ Fine(p) /\ command[p].at = "replace"
  BY DEF Inv, Replace
<1>2. command[p].key \in Keys /\ command[p].copied \in Contents /\ command[p].cached
      /\ command[p].export = <<command[p].copied, command[p].key[2]>>
  BY <1>1 DEF Fine, StageOf
<1>3. CASE files[p] = None
  <2>1. Fails(p, "gone") /\ files' = files
    BY <1>3 DEF Replace
  <2> QED BY <1>1, <2>1, Failing, HoldingOn, MapKept DEF Abstract
<1>4. CASE files[p] # None
  <2>1. Goes(p, "done") /\ "done" \in Stations
        /\ files' = [files EXCEPT ![command[p].key] = files[p], ![p] = None]
    BY <1>4 DEF Replace, Stations, Ends
  <2>2. files[p].export = command[p].export
    BY <1>1, <1>4 DEF Fine, PartialOf
  <2>3. PuttingNow' = PuttingNow
    BY <1>1, <2>1, Going, HoldingOn
  <2>4. command[p].export \in Keys /\ command[p].export # None /\ command[p].copied # None
    BY <1>2, NamesApart DEF Keys, Names
  <2>5. <<command[p].key, command[p].export>> \in PuttingNow
    BY <1>2, <2>4 DEF PuttingNow, Stored
  <2>6. /\ files'[command[p].key] = files[p]
        /\ \A k \in Keys \ {command[p].key} : files'[k] = files[k]
    BY <1>1, <1>2, <1>4, <2>1, ReplaceShape
  <2>7. MapNow' = [MapNow EXCEPT ![command[p].key] = command[p].export]
    BY <1>2, <1>4, <2>2, <2>6 DEF MapNow
  <2> QED BY <1>2, <2>3, <2>4, <2>5, <2>7
<1> QED BY <1>3, <1>4

\* A clear takes exports out, one at a time.
LEMMA ClearActs ==
    ASSUME Inv, NEW c \in Clears, Clearing(c)
    PROVE  UNCHANGED Abstract
           \/ \E k \in Keys :
                 /\ MapNow[k] # None
                 /\ MapNow' = [MapNow EXCEPT ![k] = None] /\ PuttingNow' = PuttingNow
<1>1. TypeOK /\ command' = command
  BY DEF Inv, Clearing, List, Check, Unlink, Cleared
<1>2. PuttingNow' = PuttingNow
  BY <1>1 DEF PuttingNow, Stored
<1>3. CASE files' = files
  BY <1>2, <1>3, MapKept DEF Abstract
<1>4. CASE Unlink(c)
  <2> DEFINE n == clear[c].checked
  <2>1. files' = [files EXCEPT ![n] = None]
    BY <1>4 DEF Unlink
  <2>2. CASE n \in Keys /\ files[n] # None
    <3>1. files[n] \in FileState
      BY <1>1, <2>2 DEF TypeOK, Names
    <3>2. MapNow[n] # None
      BY <2>2, <3>1, NamesApart DEF MapNow, FileState, Names
    <3>3. files'[n] = None /\ \A k \in Keys \ {n} : files'[k] = files[k]
      BY <1>1, <2>1, <2>2 DEF TypeOK, Names
    <3> HIDE DEF n
    <3>4. MapNow' = [MapNow EXCEPT ![n] = None]
      BY <2>2, <3>3, MapChanged
    <3> QED BY <1>2, <2>2, <3>2, <3>4
  <2>3. CASE ~ (n \in Keys /\ files[n] # None)
    <3>1. \A k \in Keys : files'[k] = files[k]
      BY <1>1, <2>1, <2>3 DEF TypeOK, Names
    <3> QED BY <1>2, <3>1, MapKept DEF Abstract
  <2> QED BY <2>2, <2>3
<1> QED BY <1>3, <1>4 DEF Clearing, List, Check, Cleared

LEMMA AbstractStep == Inv /\ [Next]_vars => Cached!Next \/ UNCHANGED Abstract
<1> SUFFICES ASSUME Inv, [Next]_vars PROVE Cached!Next \/ UNCHANGED Abstract
  OBVIOUS
<1>1. ASSUME NEW p \in Commands, LoadOutput(p) PROVE Cached!Next \/ UNCHANGED Abstract
  BY <1>1, OutputActs DEF Cached!Next, Cached!Offer, MapNow, PuttingNow
<1>2. ASSUME NEW p \in Commands, Replace(p) PROVE Cached!Next \/ UNCHANGED Abstract
  BY <1>2, ReplaceActs DEF Cached!Next, Cached!Put, MapNow, PuttingNow
<1>3. ASSUME NEW c \in Clears, Clearing(c) PROVE Cached!Next \/ UNCHANGED Abstract
  BY <1>3, ClearActs DEF Cached!Next, Cached!Take, MapNow, PuttingNow
<1>4. ASSUME NEW p \in Commands,
             Hash(p) \/ Lookup(p) \/ Load(p) \/ Copy(p) \/ Wait(p) \/ TimesOut(p) \/ Kill(p) \/ Crash(p)
      PROVE  UNCHANGED Abstract
  BY <1>4, CommandActs
<1>5. ASSUME NEW p \in Commands, MakePartial(p) \/ Write(p) \/ WriteFails(p) \/ Interrupt(p)
      PROVE  UNCHANGED Abstract
  BY <1>5, PartialActs
<1>6. CASE UNCHANGED vars \/ Rebuild \/ \E p \in Commands : ChildEnds(p)
  BY <1>6 DEF vars, Rebuild, ChildEnds, Abstract, MapNow, PuttingNow, Stored
<1> QED BY <1>1, <1>2, <1>3, <1>4, <1>5, <1>6 DEF Next, Step

LEMMA AbstractInit == Init => Cached!Init
<1> SUFFICES ASSUME Init PROVE Cached!Init
  OBVIOUS
<1>1. \A k \in Keys : files[k] = None
  BY DEF Init, Names
<1>2. Stored = {}
  BY DEF Init, Stored
<1> QED BY <1>1, <1>2 DEF Cached!Init

\* The directory is a map from keys to exports: whatever commands, clears, crashes and
\* interrupts do, in whatever order, an export appears under a key at once and as a whole, put
\* there by a command that made it for that key, and goes as a whole.
THEOREM Implements == Spec => ActsAsMap
<1>1. Inv /\ [Next]_vars =>
          [Cached!Next]_<<[k \in Keys |-> IF files[k] = None THEN None ELSE files[k].export],
                          {<<command[p].key, command[p].export>> : p \in Stored}>>
  BY AbstractStep DEF Abstract, MapNow, PuttingNow
<1>2. Spec => Cached!Spec
  BY <1>1, AbstractInit, Always, PTL DEF Spec, Cached!Spec
<1> QED BY <1>2 DEF ActsAsMap
=============================================================================
