------------------------------ MODULE FileTree ------------------------------
(***************************************************************************)
(* File::CreateDirectory, DeleteDirectory and CopyDirectory                *)
(* (src/Posix/FilePosix.cpp, src/Win32/FileWin32.cpp, src/File.cpp).  Each *)
(* walks a tree with one system call after the other, any of which may     *)
(* fail, while another process may change the tree.  The recursion is a    *)
(* stack of frames; a call that fails returns through all of them.         *)
(*                                                                         *)
(* A path is the sequence of its names.  What a file contains, and where a *)
(* link leads, are sequences too.  The parent of a path of one name exists.*)
(* The links on the way of the paths given to a call are followed when it  *)
(* begins; those met in a walk are followed when they are met.  What a     *)
(* link leads to is one step away: links to links are left out, and so are *)
(* calls that delete a link on their own way, and closing a listing.       *)
(***************************************************************************)
EXTENDS Naturals, Sequences, FiniteSets

CONSTANTS
  Paths,        \* the paths there may be
  Trees,        \* the trees there may be at the start
  Calls,        \* the calls made: [op, path, to], to being copied to
  MaxFailures,  \* bound: system calls that fail for reasons of their own
  MaxOthers     \* bound: directories made by another process

VARIABLES
  os,        \* "posix" or "win32"; "none": no calls are made
  tree,      \* tree[p]: what is at path p
  call,      \* the call in progress, or the last one, and its result
  stack,     \* its frames, the innermost first
  failures,  \* bound and history: failures; misread: one was taken for an end
  before,    \* history: the tree before the call
  others     \* history: the directories another process has made

vars == <<os, tree, call, stack, failures, before, others>>

-----------------------------------------------------------------------------
Nothing == [kind |-> "none", data |-> << >>]
Directory == [kind |-> "dir", data |-> << >>]

Parent(p) == SubSeq(p, 1, Len(p) - 1)
Name(p) == p[Len(p)]
IsPrefixOf(p, q) == Len(p) <= Len(q) /\ SubSeq(q, 1, Len(p)) = p

Kind(t, p) == IF p = << >> THEN "dir"
              ELSE IF p \in Paths THEN t[p].kind ELSE "none"

Entries(t, p) == {Name(q) : q \in {r \in Paths : Parent(r) = p /\ t[r].kind # "none"}}

(* What a path leads to, through a link at its end.                         *)
Resolved(t, p) == IF Kind(t, p) = "link" THEN t[p].data ELSE p

(* The directory a link leads to, if it leads to one.                       *)
Through(t, p) == IF Kind(t, Resolved(t, p)) = "dir" THEN Resolved(t, p) ELSE p

(* What is found at a path through the links on the way, and the same with  *)
(* a link to a directory at its end followed too: it makes no difference to *)
(* a listing, to a mkdir() or to what is then done in the directory.        *)
Place(t, p) ==
  LET at[n \in 0 .. Len(p)] ==
        IF n = 0 THEN << >> ELSE Append(Through(t, at[n - 1]), p[n])
  IN  at[Len(p)]

Entered(t, p) == Through(t, Place(t, p))

Put(p, node) == tree' = [tree EXCEPT ![p] = node]

Idle == [op |-> "none", path |-> << >>, to |-> << >>, result |-> FALSE]

Init ==
  /\ os \in {"posix", "win32"}
  /\ tree \in Trees
  /\ call = Idle
  /\ stack = << >>
  /\ failures = [count |-> 0, misread |-> FALSE]
  /\ before = tree
  /\ others = {}

(* No directories at all.                                                   *)
None ==
  /\ os = "none"
  /\ tree = [p \in Paths |-> Nothing]
  /\ call = Idle
  /\ stack = << >>
  /\ failures = [count |-> 0, misread |-> FALSE]
  /\ before = tree
  /\ others = {}

-----------------------------------------------------------------------------
(* Frames.                                                                  *)

Frame(op, path, to) ==
  [op |-> op, path |-> path, to |-> to, at |-> path,
   phase |-> "begin", todo |-> {}, link |-> << >>]

(* A frame for copying begins with the creation of the new directory.       *)
Frames(op, path, to) ==
  IF op = "copy" THEN <<Frame("create", to, << >>), Frame(op, path, to)>>
                 ELSE <<Frame(op, path, to)>>

Top == stack[1]

In(op, phase) == stack # << >> /\ Top.op = op /\ Top.phase = phase

Going(frame) == stack' = <<frame>> \o Tail(stack) /\ UNCHANGED call

Entering(frame, op, path, to) ==
  /\ stack' = Frames(op, path, to) \o <<frame>> \o Tail(stack)
  /\ UNCHANGED call

(* A frame returns true to the one below.                                   *)
Return ==
  /\ stack' = Tail(stack)
  /\ call' = IF Len(stack) = 1 THEN [call EXCEPT !.result = TRUE] ELSE call

(* A frame returns false, and so do all below it.                           *)
Fail ==
  /\ stack' = << >>
  /\ call' = [call EXCEPT !.result = FALSE]

(* A system call fails for a reason the tree does not show.                 *)
Failure(misread) ==
  /\ failures.count < MaxFailures
  /\ failures' = [count |-> failures.count + 1,
                  misread |-> failures.misread \/ misread]

Same == UNCHANGED <<os, before, others>>

(* CreateDirectory, DeleteDirectory or CopyDirectory is called.  A          *)
(* directory is not copied into itself: that would never end.  One call is  *)
(* made: the trees at the start are those others may have left.             *)
Begin(c) ==
  /\ os # "none" /\ call.op = "none"
  /\ LET path == IF c.op = "delete" THEN Place(tree, c.path) ELSE Entered(tree, c.path)
         to == IF c.op = "copy" THEN Entered(tree, c.to) ELSE << >>
     IN  /\ c.op = "copy" => ~IsPrefixOf(path, to)
         /\ call' = [op |-> c.op, path |-> path, to |-> to, result |-> FALSE]
         /\ stack' = Frames(c.op, path, to)
  /\ UNCHANGED <<os, tree, failures, before, others>>

-----------------------------------------------------------------------------
(* CreatePath().                                                            *)

(* The parent is made first, once, and then the directory again.            *)
MakeParent(p) ==
  IF Top.phase = "begin"
  THEN Entering([Top EXCEPT !.phase = "again"], "create", Parent(p), << >>)
  ELSE Fail

(* Whatever exists will do, except after the parent had to be made.  A link *)
(* in the place of the parent leads to no directory (Place): it will do for *)
(* the parent, but then nothing can be made in it.  (That another process   *)
(* makes what the link leads to just then is left out.)                     *)
MakeDirectory ==
  /\ stack # << >> /\ Top.op = "create"
  /\ LET p == Top.path
     IN  \/ /\ Kind(tree, p) = "none" /\ Kind(tree, Parent(p)) = "dir"
            /\ Put(p, Directory) /\ Return
            /\ UNCHANGED failures
         \/ /\ Kind(tree, p) # "none"
            /\ IF Top.phase = "begin" THEN Return ELSE Fail
            /\ UNCHANGED <<tree, failures>>
         \/ /\ Kind(tree, p) = "none" /\ Kind(tree, Parent(p)) = "none"
            /\ MakeParent(p)
            /\ UNCHANGED <<tree, failures>>
         \/ /\ Kind(tree, p) = "none" /\ Kind(tree, Parent(p)) \in {"file", "link"}
            /\ Fail
            /\ UNCHANGED <<tree, failures>>
         \/ Failure(FALSE) /\ Fail /\ UNCHANGED tree
  /\ Same

-----------------------------------------------------------------------------
(* The end of a listing, for which an error of readdir_r() or               *)
(* FindNextFile() is taken too.                                             *)
NoMoreEntries ==
  \/ Top.todo = {} /\ UNCHANGED failures
  \/ Top.todo # {} /\ Failure(TRUE)

(* DeleteDirectory().                                                       *)

(* What cannot be listed need not be deleted, says the POSIX version; the   *)
(* other tries to remove it all the same.                                   *)
NotListed == IF os = "posix" THEN Return
             ELSE Going([Top EXCEPT !.phase = "remove"])

(* opendir() or FindFirstFile(), which look through a link.                 *)
List ==
  LET at == Resolved(tree, Top.path)
  IN  \/ /\ Kind(tree, at) = "dir"
         /\ Going([Top EXCEPT !.phase = "entries", !.at = at,
                              !.todo = Entries(tree, at)])
         /\ UNCHANGED failures
      \/ /\ \/ Kind(tree, at) # "dir" /\ UNCHANGED failures
            \/ Failure(TRUE)
         /\ IF Top.op = "delete" THEN NotListed ELSE Return

ListToDelete == In("delete", "begin") /\ List /\ Same /\ UNCHANGED tree

(* What a link leads to is taken for the link.                              *)
FollowsLinks(p) == Kind(tree, Resolved(tree, p)) = "dir"

(* d_type tells a link from a directory; PathIsDirectory() does not.        *)
TakenForDirectory(p) ==
  IF os = "posix" THEN Kind(tree, p) = "dir" ELSE FollowsLinks(p)

DeleteEntry ==
  /\ In("delete", "entries")
  /\ \E name \in Top.todo :
       LET p == Append(Top.at, name)
           done == [Top EXCEPT !.todo = @ \ {name}]
       IN  IF TakenForDirectory(p)
           THEN /\ Entering(done, "delete", p, << >>)
                /\ UNCHANGED <<tree, failures>>
           ELSE \/ /\ Kind(tree, p) \in {"file", "link"}
                   /\ Put(p, Nothing) /\ Going(done)
                   /\ UNCHANGED failures
                \/ Failure(FALSE) /\ Fail /\ UNCHANGED tree
  /\ Same

AllDeleted ==
  /\ In("delete", "entries")
  /\ NoMoreEntries
  /\ Going([Top EXCEPT !.phase = "remove"])
  /\ Same /\ UNCHANGED tree

(* rmdir(), which refuses a link, or RemoveDirectory(), which removes it and *)
(* not what it leads to.                                                    *)
RemoveDirectory ==
  /\ In("delete", "remove")
  /\ LET p == Top.path
     IN  \/ /\ \/ Kind(tree, p) = "dir" /\ Entries(tree, p) = {}
               \/ Kind(tree, p) = "link" /\ os = "win32"
            /\ Put(p, Nothing) /\ Return
            /\ UNCHANGED failures
         \/ /\ \/ Kind(tree, p) = "dir" /\ Entries(tree, p) # {}
               \/ Kind(tree, p) = "link" /\ os = "posix"
               \/ Kind(tree, p) \in {"none", "file"}
            /\ Fail
            /\ UNCHANGED <<tree, failures>>
         \/ Failure(FALSE) /\ Fail /\ UNCHANGED tree
  /\ Same

-----------------------------------------------------------------------------
(* CopyDirectory().                                                         *)

ListToCopy == In("copy", "begin") /\ List /\ Same /\ UNCHANGED tree

(* What is written over something longer leaves the rest of it: a file that *)
(* is not truncated, a buffer that is not terminated.                       *)
Overlaid(new, old) == new \o SubSeq(old, Len(new) + 1, Len(old))

(* The File::Copy() of an entry: OpenReadWrite does not truncate the file   *)
(* that is there, CopyFile() replaces it.                                   *)
Copied(data, old) == IF os = "posix" THEN Overlaid(data, old) ELSE data

(* There is no directory to copy to, CreatePath() or not; the source or the *)
(* destination cannot be opened; or symlink() finds its place taken.        *)
Blocked(p, to) ==
  LET at == Resolved(tree, to)
  IN  \/ Kind(tree, Parent(to)) # "dir"
      \/ /\ ~TakenForDirectory(p)
         /\ IF os = "posix" /\ Kind(tree, p) = "link"
            THEN Kind(tree, to) # "none"
            ELSE \/ Kind(tree, Resolved(tree, p)) # "file"
                 \/ Kind(tree, Parent(at)) # "dir"
                 \/ Kind(tree, at) \in {"dir", "link"}

(* A file is written, through the link that may be there.  A failed read()  *)
(* is taken for the end of the file, a failed write() ends the call; either *)
(* leaves the first part of the file.                                       *)
CopyFile(to, data, done) ==
  \E n \in 0 .. Len(data) :
    LET at == Resolved(tree, to)
    IN  /\ Put(at, [kind |-> "file",
                    data |-> Copied(SubSeq(data, 1, n), tree[at].data)])
        /\ \/ n = Len(data) /\ Going(done) /\ UNCHANGED failures
           \/ Failure(FALSE) /\ Fail
           \/ os = "posix" /\ Failure(TRUE) /\ Going(done)

(* readlink() into the buffer of this call, then symlink().                 *)
CopyLink(to, target, done) ==
  LET buffer == Overlaid(target, Top.link)
  IN  \/ /\ Put(to, [kind |-> "link", data |-> buffer])
         /\ Going([done EXCEPT !.link = buffer])
         /\ UNCHANGED failures
      \/ Failure(FALSE) /\ Fail /\ UNCHANGED tree

(* An entry goes where the new directory leads, even when that is a link to *)
(* a directory.                                                             *)
CopyEntry ==
  /\ In("copy", "entries")
  /\ \E name \in Top.todo :
       LET p == Append(Top.at, name)
           to == Append(Resolved(tree, Top.to), name)
           done == [Top EXCEPT !.todo = @ \ {name}]
       IN  \/ /\ Blocked(p, to)
              /\ Fail
              /\ UNCHANGED <<tree, failures>>
           \/ /\ TakenForDirectory(p) /\ ~Blocked(p, to)
              /\ Entering(done, "copy", p, to)
              /\ UNCHANGED <<tree, failures>>
           \/ /\ ~TakenForDirectory(p) /\ ~Blocked(p, to)
              /\ IF os = "posix" /\ Kind(tree, p) = "link"
                 THEN CopyLink(to, tree[p].data, done)
                 ELSE CopyFile(to, tree[Resolved(tree, p)].data, done)
  /\ Same

AllCopied ==
  /\ In("copy", "entries")
  /\ NoMoreEntries
  /\ Return
  /\ Same /\ UNCHANGED tree

-----------------------------------------------------------------------------
(* Another process makes a directory, before the call has returned: what is *)
(* true when it returns may cease to be so later.                           *)
OtherMakesDirectory ==
  /\ stack # << >> /\ Cardinality(others) < MaxOthers
  /\ \E p \in Paths :
       /\ Kind(tree, p) = "none" /\ Kind(tree, Parent(p)) = "dir"
       /\ Put(p, Directory)
       /\ others' = others \cup {p}
  /\ UNCHANGED <<os, call, stack, failures, before>>

Next ==
  \/ \E c \in Calls : Begin(c)
  \/ MakeDirectory
  \/ ListToDelete \/ DeleteEntry \/ AllDeleted \/ RemoveDirectory
  \/ ListToCopy \/ CopyEntry \/ AllCopied
  \/ OtherMakesDirectory

-----------------------------------------------------------------------------
Changed == {p \in Paths : tree[p] # before[p]}

Below(p) == {q \in Paths : IsPrefixOf(p, q)}
Above(p) == {q \in Paths : IsPrefixOf(q, p)}

(* What some links lead to.                                                 *)
Links(t, S) == {q \in S : t[q].kind = "link"}
LeadTo(t, links) == UNION {Below(t[q].data) : q \in links}

(* What the links among some paths lead to, the links there, and so on.     *)
LinkedFrom(t, S) ==
  {p \in Paths : \A links \in SUBSET Links(t, Paths) :
     Links(t, S \cup LeadTo(t, links)) \subseteq links => p \in LeadTo(t, links)}

(* A link in the new directory leads to something other than a file.        *)
Shared == \E q \in Links(before, Below(call.to)) : Kind(before, before[q].data) # "file"

(* A call changes its own directory and nothing else, at every moment,      *)
(* whatever fails, and in particular when it fails half way: nothing but    *)
(* the directory is deleted; nothing but the new directory and those on the *)
(* way to it is written.  Exceptions: the directory to be deleted is itself *)
(* a link; on Windows, what a link in that directory leads to is deleted    *)
(* with it, and so on from there; files are written through the links in    *)
(* the place of new ones; and where a link in the new directory leads to    *)
(* something else, directories are copied through the links, those the call *)
(* itself copied among them.                                                *)
StaysInside ==
  LET mine == Changed \ others
      followed == IF os = "win32" THEN LinkedFrom(before, Below(call.path))
                  ELSE LeadTo(before, Links(before, {call.path} \cap Paths))
      through == IF Shared THEN LinkedFrom(tree, Below(call.to))
                 ELSE LeadTo(before, Links(before, Below(call.to)))
  IN  /\ call.op = "create" => mine \subseteq Above(call.path)
      /\ call.op = "delete" => mine \subseteq Below(call.path) \cup followed
      /\ call.op = "copy" => mine \subseteq Above(call.to) \cup Below(call.to) \cup through

(* The only link in its directory.                                          *)
Alone(p) == \A q \in Paths : before[q].kind = "link" /\ Parent(q) = Parent(p) => q = p

Comparable(p, to) ==
  \/ before[p].kind = "dir" /\ before[to].kind \in {"none", "dir"}
  \/ /\ before[p].kind = "file"
     /\ os = "win32" \/ Len(before[Resolved(before, to)].data) <= Len(before[p].data)
  \/ before[p].kind = "link" /\ os = "posix" /\ Alone(p)

Made == call.op = "create" => tree[call.path].kind # "none"

Gone == call.op = "delete" /\ ~failures.misread => tree[call.path].kind # "dir"

(* The path of p in the new directory.                                      *)
CopyOf(p) == call.to \o SubSeq(p, Len(call.path) + 1, Len(p))

(* The directory copied is not in the new one, and the links there lead to  *)
(* files in neither, each to another.                                       *)
Apart ==
  LET links == Links(before, Below(call.to))
  IN  /\ ~Shared
      /\ ~IsPrefixOf(call.to, call.path)
      /\ LeadTo(before, links) \cap (Below(call.path) \cup Below(call.to)) = {}
      /\ \A q, r \in links : before[q].data = before[r].data => q = r

Arrived ==
  call.op = "copy" /\ ~failures.misread /\ before[call.path].kind = "dir" /\ Apart =>
    \A p \in Below(call.path) \ {call.path} :
      before[p].kind # "none" /\ Comparable(p, CopyOf(p)) =>
        tree[IF before[p].kind = "link" THEN CopyOf(p) ELSE Resolved(tree, CopyOf(p))]
          = before[p]

(* True means done.  A created path exists (as a file, if it was one); a    *)
(* deleted directory is gone; of a copied one every entry is there, with    *)
(* the same content, whatever else the new directory held and whichever     *)
(* process made it.  Exceptions: what could not be listed or read; for      *)
(* POSIX, a longer file in the place of the new one, and the second link of *)
(* a directory, which share its buffer; for Windows, links; for both, an    *)
(* empty directory that finds something else in its place, a directory      *)
(* copied to one above it, and a new directory with links other than to     *)
(* files elsewhere, each to its own.                                        *)
TrueMeansDone == call.result /\ stack = << >> => Made /\ Gone /\ Arrived
=============================================================================
