------------------------------- MODULE ExportCache -------------------------------
(***************************************************************************)
(* From a binary to its Ghidra export (ghidra/frontend.py), by several     *)
(* ppy-rev commands that share one cache directory (ghidra/cache.py) and   *)
(* each run Ghidra as a child process under a time limit                   *)
(* (ghidra/headless.py), while `ppy-rev cache clear` runs, the binary is   *)
(* rebuilt, and commands are interrupted or killed.                        *)
(*                                                                         *)
(* An export is named by what it was made of: the binary's content and the *)
(* options.  That is also what a key is made of; versions of Ghidra, of    *)
(* the bridge and of the schema do not change while commands run.          *)
(***************************************************************************)
EXTENDS Naturals, FiniteSets

CONSTANTS
    Commands,      \* runs of export_binary, one each
    Clears,        \* runs of `cache clear`
    Contents,      \* what the binary's file can hold
    Options,       \* GhidraOptions that are part of the key
    None

ASSUME CacheAssumption ==
    /\ Contents # {} /\ Options # {}
    /\ None \notin Contents \cup (Contents \X Options)
    /\ None \notin [export : Contents \X Options, whole : BOOLEAN] \cup {"gone", "broken"}
    /\ Commands \cap (Contents \X Options) = {} /\ None \notin Commands

Keys == Contents \X Options
\* A `.partial` file is named by the command that made it: mkstemp never gives a name twice.
Names == Keys \cup Commands

VARIABLES
    binary,        \* content of the binary's file
    files,         \* the directory: None, or a file, whole or not yet
    command,       \* state of each command
    child,         \* its Ghidra process
    clear          \* state of each `cache clear`

vars == <<binary, files, command, child, clear>>

File(export, whole) == [export |-> export, whole |-> whole]

Ends == {"done", "failed", "interrupted", "killed"}
Running(p) == command[p].at \notin Ends \cup {"idle"}

Init ==
    /\ binary \in Contents
    /\ files = [n \in Names |-> None]
    /\ command = [p \in Commands |->
                    [at |-> "idle", cached |-> FALSE, key |-> None, copied |-> None,
                     export |-> None, why |-> None]]
    /\ child = [p \in Commands |-> "none"]
    /\ clear = [c \in Clears |-> [at |-> "idle", todo |-> {}, checked |-> None]]

-----------------------------------------------------------------------------
(* export_binary, one system call at a time.                                *)

Goes(p, at) == command' = [command EXCEPT ![p].at = at]
Fails(p, why) == command' = [command EXCEPT ![p].at = "failed", ![p].why = why]
Holds(p, at, export) == command' = [command EXCEPT ![p].at = at, ![p].export = export]

\* The binary is read for its hash.
Hash(p) ==
    /\ command[p].at = "idle"
    /\ \E options \in Options, cached \in BOOLEAN :
          command' = [command EXCEPT ![p].at = IF cached THEN "lookup" ELSE "copy",
                                     ![p].cached = cached, ![p].key = <<binary, options>>]
    /\ UNCHANGED <<binary, files, child, clear>>

Lookup(p) ==
    /\ command[p].at = "lookup"
    /\ Goes(p, IF files[command[p].key] # None THEN "load" ELSE "copy")
    /\ UNCHANGED <<binary, files, child, clear>>

\* load_export of what was found: it may be gone by now.
Load(p) ==
    /\ command[p].at = "load"
    /\ LET found == files[command[p].key]
       IN IF found = None THEN Fails(p, "gone")
          ELSE IF ~found.whole THEN Fails(p, "broken")
          ELSE Holds(p, "done", found.export)
    /\ UNCHANGED <<binary, files, child, clear>>

\* run_export: the binary is copied and Ghidra started on the copy.
Copy(p) ==
    /\ command[p].at = "copy"
    /\ command' = [command EXCEPT ![p].at = "analysis", ![p].copied = binary]
    /\ child' = [child EXCEPT ![p] = "running"]
    /\ UNCHANGED <<binary, files, clear>>

ChildEnds(p) ==
    /\ child[p] = "running"
    /\ \E end \in {"exported", "failed"} : child' = [child EXCEPT ![p] = end]
    /\ UNCHANGED <<binary, files, command, clear>>

\* _run_with_timeout: a turn of the loop in which the child has ended.
Wait(p) ==
    /\ command[p].at = "analysis" /\ child[p] # "running"
    /\ IF child[p] = "exported" THEN Goes(p, "output") ELSE Fails(p, "ghidra")
    /\ UNCHANGED <<binary, files, child, clear>>

\* Mutant: the wait has no time limit.
NeverTimesOut(p) == FALSE /\ command[p].at = "analysis" /\ UNCHANGED vars

\* One in which it has not, and the time is over.
TimesOut(p) ==
    /\ command[p].at = "analysis" /\ child[p] = "running"
    /\ Goes(p, "kill")
    /\ UNCHANGED <<binary, files, child, clear>>

\* The session is killed and reaped.  A child that ended in between is still there to be
\* killed, as a zombie.
Kill(p) ==
    /\ command[p].at = "kill"
    /\ child' = [child EXCEPT ![p] = IF @ = "running" THEN "killed" ELSE @]
    /\ Fails(p, "timeout")
    /\ UNCHANGED <<binary, files, clear>>

\* Mutant: Ghidra reads the binary itself, not a copy.
LoadOutputOfNow(p) ==
    /\ command[p].at = "output"
    /\ Holds(p, IF command[p].cached THEN "store" ELSE "done", <<binary, command[p].key[2]>>)
    /\ UNCHANGED <<binary, files, child, clear>>

\* load_export of Ghidra's output, which may turn out invalid.
LoadOutput(p) ==
    /\ command[p].at = "output"
    /\ \/ Fails(p, "ghidra")
       \/ Holds(p, IF command[p].cached THEN "store" ELSE "done",
                <<command[p].copied, command[p].key[2]>>)
    /\ UNCHANGED <<binary, files, child, clear>>

\* Mutant: the destination is written in place.
MakeInPlace(p) ==
    /\ command[p].at = "store"
    /\ files' = [files EXCEPT ![command[p].key] = File(command[p].export, FALSE)]
    /\ Goes(p, "write")
    /\ UNCHANGED <<binary, child, clear>>

\* ExportCache.store: mkstemp, ...
MakePartial(p) ==
    /\ command[p].at = "store"
    /\ files' = [files EXCEPT ![p] = File(command[p].export, FALSE)]
    /\ Goes(p, "write")
    /\ UNCHANGED <<binary, child, clear>>

\* ... the compressed export (to an open file, which may have lost its name) ...
Write(p) ==
    /\ command[p].at = "write"
    /\ files' = IF files[p] = None THEN files ELSE [files EXCEPT ![p].whole = TRUE]
    /\ Goes(p, "replace")
    /\ UNCHANGED <<binary, child, clear>>

\* Mutant: a failure removes all partial files.
WriteFailsSweeping(p) ==
    /\ command[p].at = "write"
    /\ files' = [n \in Names |-> IF n \in Commands THEN None ELSE files[n]]
    /\ Fails(p, "disk")
    /\ UNCHANGED <<binary, child, clear>>

WriteFails(p) ==
    /\ command[p].at = "write"
    /\ files' = [files EXCEPT ![p] = None]
    /\ Fails(p, "disk")
    /\ UNCHANGED <<binary, child, clear>>

\* Mutant: where it goes is worked out again from what was analysed.
ReplaceElsewhere(p) ==
    /\ command[p].at = "replace"
    /\ IF files[p] = None THEN Fails(p, "gone") /\ UNCHANGED files
       ELSE /\ files' = [files EXCEPT ![command[p].export] = files[p], ![p] = None]
            /\ Goes(p, "done")
    /\ UNCHANGED <<binary, child, clear>>

\* ... and the rename, of a file that may be gone.
Replace(p) ==
    /\ command[p].at = "replace"
    /\ IF files[p] = None THEN Fails(p, "gone") /\ UNCHANGED files
       ELSE /\ files' = [files EXCEPT ![command[p].key] = files[p], ![p] = None]
            /\ Goes(p, "done")
    /\ UNCHANGED <<binary, child, clear>>

\* Ctrl-C: Python cleans up what it is in the middle of.  The child is in a session of its
\* own, which the terminal's interrupt does not reach.
Interrupt(p) ==
    /\ Running(p)
    /\ files' = [files EXCEPT ![p] = None]
    /\ Goes(p, "interrupted")
    /\ UNCHANGED <<binary, child, clear>>

\* SIGKILL: nothing is cleaned up, and what was written stays.  A power cut is another
\* matter: store does not flush the file before it renames it, so that a name could come
\* to stand for a file cut short.
Crash(p) ==
    /\ Running(p)
    /\ Goes(p, "killed")
    /\ UNCHANGED <<binary, files, child, clear>>

-----------------------------------------------------------------------------
(* ExportCache.clear, and the world.                                        *)

List(c) ==
    /\ clear[c].at = "idle"
    /\ clear' = [clear EXCEPT ![c].at = "listed", ![c].todo = {n \in Names : files[n] # None}]
    /\ UNCHANGED <<binary, files, command, child>>

\* entry.is_file()
Check(c) ==
    /\ clear[c].at = "listed"
    /\ \E n \in clear[c].todo :
          clear' = [clear EXCEPT ![c].todo = @ \ {n},
                                 ![c].at = IF files[n] # None THEN "unlink" ELSE "listed",
                                 ![c].checked = n]
    /\ UNCHANGED <<binary, files, command, child>>

\* entry.unlink()
Unlink(c) ==
    /\ clear[c].at = "unlink"
    /\ files' = [files EXCEPT ![clear[c].checked] = None]
    /\ clear' = [clear EXCEPT ![c].at = IF files[clear[c].checked] = None THEN "failed" ELSE "listed"]
    /\ UNCHANGED <<binary, command, child>>

Cleared(c) ==
    /\ clear[c].at = "listed" /\ clear[c].todo = {}
    /\ clear' = [clear EXCEPT ![c].at = "done"]
    /\ UNCHANGED <<binary, files, command, child>>

Rebuild ==
    /\ binary' \in Contents \ {binary}
    /\ UNCHANGED <<files, command, child, clear>>

-----------------------------------------------------------------------------

Step(p) ==
    \/ Hash(p) \/ Lookup(p) \/ Load(p) \/ Copy(p) \/ Wait(p) \/ TimesOut(p) \/ Kill(p)
    \/ LoadOutput(p) \/ MakePartial(p) \/ Write(p) \/ WriteFails(p) \/ Replace(p)

Clearing(c) == List(c) \/ Check(c) \/ Unlink(c) \/ Cleared(c)

Next ==
    \/ \E p \in Commands : Step(p) \/ ChildEnds(p) \/ Interrupt(p) \/ Crash(p)
    \/ \E c \in Clears : Clearing(c)
    \/ Rebuild

\* The operating system runs every command; time passes, so that a wait comes to its end.
Spec == Init /\ [][Next]_vars /\ \A p \in Commands : WF_vars(Step(p))

-----------------------------------------------------------------------------
(* Properties.                                                              *)

Stations == Ends \cup {"idle", "lookup", "load", "copy", "analysis", "kill", "output", "store",
                       "write", "replace"}
FileState == [export : Keys, whole : BOOLEAN]
CommandState ==
    [at : Stations, cached : BOOLEAN, key : Keys \cup {None}, copied : Contents \cup {None},
     export : Keys \cup {None}, why : {None, "gone", "broken", "ghidra", "timeout", "disk"}]
ClearState ==
    [at : {"idle", "listed", "unlink", "done", "failed"}, todo : SUBSET Names,
     checked : Names \cup {None}]

TypeOK ==
    /\ binary \in Contents
    /\ files \in [Names -> {None} \cup FileState]
    /\ command \in [Commands -> CommandState]
    /\ child \in [Commands -> {"none", "running", "exported", "failed", "killed"}]
    /\ clear \in [Clears -> ClearState]

\* The binary was rebuilt between a command's hash of it and its copy for Ghidra.
Swapped(p) == command[p].copied # None /\ command[p].copied # command[p].key[1]

\* A lookup only ever finds whole exports (cache.py:50, "atomically"), whoever else is
\* storing or died storing, and of what the key says unless the binary was rebuilt under some
\* command's hands.
OnlyWholeExports ==
    \A k \in Keys : files[k] # None =>
        /\ files[k].whole
        /\ files[k].export = k \/ \E p \in Commands : Swapped(p) /\ command[p].key = k

\* What a command ends with is the export of what it hashed, unless the binary was rebuilt
\* after some command's hash of it.
RightExport ==
    \A p \in Commands : command[p].at = "done" =>
        \/ command[p].export = command[p].key
        \/ \E q \in Commands : Swapped(q) /\ command[q].key = command[p].key

\* Commands that store and load at the same time never make each other fail: a file that was
\* there and is gone was taken by a `cache clear`.
OnlyClearsDisturb ==
    \A p \in Commands : command[p].why \in {"gone", "broken"} => \E c \in Clears : clear[c].at # "idle"

\* The cache is an ExportMap, `putting` being what commands are storing or have stored.
Stored == {p \in Commands : command[p].export # None /\ command[p].cached /\ command[p].copied # None}
Cached == INSTANCE ExportMap WITH
    Exports <- Keys,
    map <- [k \in Keys |-> IF files[k] = None THEN None ELSE files[k].export],
    putting <- {<<command[p].key, command[p].export>> : p \in Stored}
ActsAsMap == Cached!Spec

\* A command that is not killed comes to an end, whatever Ghidra does.
EveryoneEnds == \A p \in Commands : (command[p].at # "idle") ~> (command[p].at \in Ends)
=============================================================================
