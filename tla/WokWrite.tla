------------------------------ MODULE WokWrite ------------------------------
(***************************************************************************)
(* wokfmt -w on one file (grammar/c/cmd/wokfmt.c, wok_write.c): read the    *)
(* file, stamp it, format, and replace it through a temporary beside it,    *)
(* while an editor saves the same file and the process may die anywhere.    *)
(*                                                                         *)
(* A directory entry leads to an inode; an open handle keeps the inode      *)
(* whatever becomes of the entry.  A text is a whole file; Torn is what a   *)
(* truncated or half-written file holds.  A stamp stands for the hash and   *)
(* size of what it was taken of, so it is that content (the time stamps are *)
(* recorded and compared by nothing).  The editor saves in one step.        *)
(***************************************************************************)
EXTENDS Naturals

CONSTANTS Formatters,  \* processes running wokfmt -w on the path
          Sources,     \* texts the editor saves
          Parses,      \* those of them that have a canonical form
          Canonical(_), \* the printer's output for a text that parses
  Inodes,      \* positive numbers, enough for a new file whenever one is made
          MaxSaves,    \* bound on the editor's saves
          MaxRuns      \* bound on the runs of each formatter

\* Parses \subseteq Sources; Canonical takes Parses into itself; Torn is no source.

VARIABLES
  dir,     \* entry -> inode, or None
  disk,    \* inode -> [text, mode]
  fm,      \* formatter -> its locals
  saves,   \* saves so far
  missed   \* history: formatter -> the windows an edit fell into

vars == <<dir, disk, fm, saves, missed>>

Torn == "torn"
None == 0
OwnMode == "own"        \* the permission bits the user gave the file
Umask == "umask"        \* those of a file newly created

Idle(runs) == [pc |-> "idle", src |-> Torn, at |-> Torn, fd |-> None,
               result |-> "none", runs |-> runs]

Holds(e) == disk[dir[e]].text
NewInode == CHOOSE i \in Inodes : i \notin {dir["path"], dir["tmp"]}
                                          \cup {fm[p].fd : p \in Formatters}
Goto(p, pc) == [fm EXCEPT ![p].pc = pc]
Finish(p, r) == [fm EXCEPT ![p].pc = "done", ![p].result = r, ![p].fd = None]
Unlinked == [dir EXCEPT !["tmp"] = None]

Init ==
  /\ dir = [path |-> 1, tmp |-> None]
  /\ \E t \in Sources : disk = [i \in Inodes |-> [text |-> IF i = 1 THEN t ELSE Torn, mode |-> OwnMode]]
  /\ fm = [p \in Formatters |-> Idle(0)]
  /\ saves = 0
  /\ missed = [p \in Formatters |-> {}]

-----------------------------------------------------------------------------
\* Slurp reads the file through a handle of its own; wok_file_stamp reads it
\* once more.
Slurp(p) ==
  /\ fm[p].pc = "idle" /\ fm[p].runs < MaxRuns
  /\ fm' = [fm EXCEPT ![p] = [Idle(@.runs + 1) EXCEPT !.pc = "stamp", !.src = Holds("path")]]
  /\ missed' = [missed EXCEPT ![p] = {}]
  /\ UNCHANGED <<dir, disk, saves>>

Stamp(p) ==
  /\ fm[p].pc = "stamp"
  /\ fm' = [Goto(p, "format") EXCEPT ![p].at = Holds("path")]
  /\ UNCHANGED <<dir, disk, saves, missed>>

\* A text that does not parse has no canonical form: exit 1, nothing written.
Format(p) ==
  /\ fm[p].pc = "format"
  /\ fm' = IF fm[p].src \in Parses THEN Goto(p, "check") ELSE Finish(p, "unparsed")
  /\ UNCHANGED <<dir, disk, saves, missed>>

MutPermitted(at, now) == TRUE
Permitted(at, now) == at = now

Data(p) == Canonical(fm[p].src)

Check(p) ==
  /\ fm[p].pc = "check"
  /\ fm' = IF ~Permitted(fm[p].at, Holds("path")) THEN Finish(p, "moved")
           ELSE IF Data(p) = Holds("path") THEN Finish(p, "unchanged")
           ELSE Goto(p, "open")
  /\ UNCHANGED <<dir, disk, saves, missed>>

\* fopen(tmp, "wb"): the entry's inode is truncated, or a new one is made.
Open(p) ==
  /\ fm[p].pc = "open"
  /\ \/ /\ fm' = Finish(p, "failed")
        /\ UNCHANGED <<dir, disk>>
     \/ LET old == dir["tmp"]
            i   == IF old = None THEN NewInode ELSE old
        IN /\ dir'  = [dir EXCEPT !["tmp"] = i]
           /\ disk' = [disk EXCEPT ![i] = [text |-> Torn, mode |-> IF old = None THEN Umask ELSE @.mode]]
           /\ fm'   = [Goto(p, "write") EXCEPT ![p].fd = i]
  /\ UNCHANGED <<saves, missed>>

\* fwrite and fclose, of everything or of less.  A handle writes from its own
\* position: over another writer's bytes the outcome is neither's text.
MutWrite(p) ==
  /\ fm[p].pc = "write"
  /\ \E ok \in BOOLEAN :
       /\ disk' = [disk EXCEPT ![fm[p].fd].text = IF ok THEN Data(p) ELSE Torn]
       /\ fm'   = Goto(p, "chmod")
  /\ UNCHANGED <<dir, saves, missed>>
Write(p) ==
  /\ fm[p].pc = "write"
  /\ \E ok \in BOOLEAN :
       /\ disk' = [disk EXCEPT ![fm[p].fd].text =
                     IF ok /\ @ \in {Torn, Data(p)} THEN Data(p) ELSE Torn]
       /\ fm'   = Goto(p, IF ok THEN "chmod" ELSE "unlink")
  /\ UNCHANGED <<dir, saves, missed>>

\* chmod goes by the entry's name.
Chmod(p) ==
  /\ fm[p].pc = "chmod"
  /\ disk' = IF dir["tmp"] = None THEN disk
             ELSE [disk EXCEPT ![dir["tmp"]].mode = disk[dir["path"]].mode]
  /\ fm' = Goto(p, "recheck")
  /\ UNCHANGED <<dir, saves, missed>>

Recheck(p) ==
  /\ fm[p].pc = "recheck"
  /\ IF Permitted(fm[p].at, Holds("path"))
     THEN fm' = Goto(p, "rename") /\ UNCHANGED dir
     ELSE fm' = Finish(p, "moved") /\ dir' = Unlinked
  /\ UNCHANGED <<disk, saves, missed>>

Rename(p) ==
  /\ fm[p].pc = "rename"
  /\ \/ /\ dir["tmp"] # None
        /\ dir' = [path |-> dir["tmp"], tmp |-> None]
        /\ fm'  = Finish(p, "ok")
     \/ fm' = Goto(p, "unlink") /\ UNCHANGED dir
  /\ UNCHANGED <<disk, saves, missed>>

Unlink(p) ==
  /\ fm[p].pc = "unlink"
  /\ dir' = Unlinked
  /\ fm' = Finish(p, "failed")
  /\ UNCHANGED <<disk, saves, missed>>

\* The process dies between two calls, leaving whatever is on disk.
Crash(p) ==
  /\ fm[p].pc \notin {"idle", "done"}
  /\ fm' = [fm EXCEPT ![p] = Idle(@.runs)]
  /\ UNCHANGED <<dir, disk, saves, missed>>

Again(p) ==
  /\ fm[p].pc = "done"
  /\ fm' = [fm EXCEPT ![p] = Idle(@.runs)]
  /\ UNCHANGED <<dir, disk, saves, missed>>

\* The user saves: what each formatter is about to do next dates the edit.
Save(t) ==
  /\ saves < MaxSaves /\ t # Holds("path")
  /\ saves' = saves + 1
  /\ disk' = [disk EXCEPT ![dir["path"]].text = t]
  /\ missed' = [p \in Formatters |-> missed[p] \cup {fm[p].pc}]
  /\ UNCHANGED <<dir, fm>>

Next ==
  \/ \E p \in Formatters :
       \/ Slurp(p) \/ Stamp(p) \/ Format(p) \/ Check(p) \/ Open(p) \/ Write(p) \/ Chmod(p)
       \/ Recheck(p) \/ Rename(p) \/ Unlink(p) \/ Crash(p) \/ Again(p)
  \/ \E t \in Sources : Save(t)

Spec == Init /\ [][Next]_vars

-----------------------------------------------------------------------------
(* Properties.                                                              *)

Replaces(p) == Rename(p) /\ dir'["path"] # dir["path"]

\* A save is overwritten only if it fell between the read and the stamp, or
\* between the last check and the rename: at every other moment the formatter
\* sees it and leaves it (wok_write.c 74-75, 99-104; wokfmt.c 154-159).
EditsKept ==
  [][\A p \in Formatters : Replaces(p) /\ Holds("path") # fm[p].src
       => missed[p] \cap {"stamp", "rename"} # {}]_vars

\* wok_write.h 12-13: "A reader never observes a partial file".
NeverPartial == Holds("path") # Torn

\* Whatever is interrupted or fails, the path holds a whole file, saved by
\* the user or the canonical form of one that was, with the user's
\* permission bits; a run that reports success left the canonical form and a
\* run that reports a concurrent change was overtaken by one
\* (wok_write.c 69-113, wok_write.h 1-18).
TargetWhole ==
  /\ NeverPartial
  /\ disk[dir["path"]].mode = OwnMode
  /\ \A p \in Formatters :
       /\ fm[p].result \in {"ok", "unchanged"} /\ "done" \notin missed[p]
          => Holds("path") = Canonical(fm[p].src)
       /\ fm[p].result = "moved" => missed[p] \ {"done"} # {}
=============================================================================
