-------------------------------- MODULE FileSystem -----------------------------
(***************************************************************************)
(* What a program does with File and its relatives: walk directories, or   *)
(* work on a file with several objects.  The two have nothing in common    *)
(* and are not interleaved: a behaviour is of one kind or the other.       *)
(***************************************************************************)
EXTENDS FileHandle

CONSTANTS Paths, Trees, Calls, MaxFailures, MaxOthers   \* of FileTree

ASSUME FileSystemAssumption ==
  /\ MaxFailures \in Nat /\ MaxOthers \in Nat
  /\ MaxSize \in Nat /\ Space \in Nat /\ 0 \in Bytes /\ NoFile \notin Files

(* Names are strings, here also the pieces of what a file contains; what is *)
(* there is in a directory, up to the top.                                  *)
ASSUME TreeAssumption ==
  /\ Paths \subseteq Seq(STRING) \ {<< >>}
  /\ Trees \subseteq [Paths -> [kind : {"none", "file", "dir", "link"}, data : Seq(STRING)]]
  /\ \A t \in Trees, p \in Paths :
       /\ t[p].kind \in {"none", "dir"} => t[p].data = << >>
       /\ t[p].kind # "none" =>
            \A n \in 1 .. Len(p) - 1 :
              SubSeq(p, 1, n) \in Paths /\ t[SubSeq(p, 1, n)].kind = "dir"
  /\ \A c \in Calls : c.op \in {"create", "delete", "copy"}

VARIABLES os, tree, call, stack, failures, before, others

Tree == INSTANCE FileTree

(* There is a path for what each call is given, through links to            *)
(* directories, if any.                                                     *)
ASSUME CallAssumption ==
  \A c \in Calls, t \in Trees :
    /\ Tree!Place(t, c.path) \in Paths
    /\ c.op # "delete" => Tree!Entered(t, c.path) \in Paths
    /\ c.op = "copy" => Tree!Entered(t, c.to) \in Paths

treeVars == <<os, tree, call, stack, failures, before, others>>
vars == <<treeVars, handleVars>>

Init ==
  \/ Tree!Init /\ NoObjects
  \/ Tree!None /\ ObjectsInit

Walk == Tree!Next /\ UNCHANGED handleVars
Work == ObjectsNext /\ UNCHANGED treeVars

Next == Walk \/ Work

Spec == Init /\ [][Next]_vars

-----------------------------------------------------------------------------
(* Of FileTree.                                                             *)
StaysInside == Tree!StaysInside
TrueMeansDone == Tree!TrueMeansDone
=============================================================================
