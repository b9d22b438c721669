--------------------------- MODULE DirectoryWatch ---------------------------
(***************************************************************************)
(* The emulated recursive watch of libuv_reactor.c on Linux: inotify       *)
(* watches one directory, so the reactor keeps one watch node per          *)
(* directory of the tree and adds and drops nodes as notifications name    *)
(* directories that appeared or vanished.                                  *)
(*                                                                         *)
(* Other processes change the tree at any moment, also between two system  *)
(* calls of a callback; what a callback still has to do is kept in work.   *)
(* A notification carries the watch descriptor and a name, and what it     *)
(* means is found out when it is handled, by which time the tree may have  *)
(* moved on.  Callbacks and PHP code share one thread.                     *)
(*                                                                         *)
(* The snapshot comparison used on kqueue and event ports, and the native  *)
(* recursion of macOS and Windows, are other builds and are left out.      *)
(***************************************************************************)
EXTENDS Naturals, FiniteSets, Sequences, SequencesExt

CONSTANTS
  Paths,        \* the paths a directory may have; <<>> is the watched root
  MaxWatchDirs  \* ASYNC_FS_MAX_WATCH_DIRS

ASSUME PathsAreATree ==
  /\ <<>> \in Paths
  /\ \A p \in Paths : p # <<>> => Front(p) \in Paths

VARIABLES
  tree,     \* the file system: the inode of the directory at a path, 0 if none
  inotify,  \* notifications the kernel holds, oldest first
  watch,    \* the async_filesystem_event_t: its life, nodes and pending_close
  work,     \* what the running callback still has to do, next step first
  fresh,    \* the next inode and the next watch descriptor
  left,     \* bounds: changes other processes make, directories the kernel refuses
  past      \* history: paths that came back under a node, refused ones, the cap reached

watchVars == <<tree, inotify, watch, work, fresh, left, past>>

IsDir(p) == p \in Paths /\ tree[p] # 0

Under(p, q) == IsPrefix(p, q)

Subdirs(p) == {q \in Paths : q # <<>> /\ Front(q) = p /\ IsDir(q)}

-----------------------------------------------------------------------------
(* The kernel's side: every change of a directory that is watched is       *)
(* queued, once, for its watch descriptor.                                 *)

Post(queue, dir, name, kind) ==
  LET on == {n \in watch.nodes : n.ino = dir}
  IN IF watch.life # "armed" \/ on = {} THEN queue
     ELSE Append(queue, [wd |-> (CHOOSE n \in on : TRUE).wd, name |-> name, kind |-> kind])

Watched(p) == \E n \in watch.nodes : n.path = p

ChangeTree(new, queue) ==
  /\ left.ops > 0
  /\ left' = [left EXCEPT !.ops = @ - 1]
  /\ tree' = new
  /\ inotify' = queue
  /\ past' = [past EXCEPT !.reused = @ \cup {p \in Paths : new[p] \notin {0, tree[p]} /\ Watched(p)}]
  /\ UNCHANGED <<watch, work>>

Mkdir(p) ==
  /\ p # <<>> /\ ~IsDir(p) /\ IsDir(Front(p))
  /\ ChangeTree([tree EXCEPT ![p] = fresh.ino], Post(inotify, tree[Front(p)], Last(p), "rename"))
  /\ fresh' = [fresh EXCEPT !.ino = @ + 1]

Rmdir(p) ==
  /\ p # <<>> /\ IsDir(p) /\ Subdirs(p) = {}
  /\ ChangeTree([tree EXCEPT ![p] = 0], Post(inotify, tree[Front(p)], Last(p), "rename"))
  /\ UNCHANGED fresh

(* The directory at p leaves the tree with all it holds.                   *)
MoveOut(p) ==
  /\ p # <<>> /\ IsDir(p)
  /\ ChangeTree([q \in Paths |-> IF Under(p, q) THEN 0 ELSE tree[q]],
                Post(inotify, tree[Front(p)], Last(p), "rename"))
  /\ UNCHANGED fresh

Move(p, q) ==
  LET from(r) == p \o SubSeq(r, Len(q) + 1, Len(r))
      moved   == [r \in Paths |-> IF Under(q, r) THEN IF from(r) \in Paths THEN tree[from(r)] ELSE 0
                                  ELSE IF Under(p, r) THEN 0 ELSE tree[r]]
  IN /\ p # <<>> /\ IsDir(p) /\ q # <<>> /\ ~IsDir(q) /\ IsDir(Front(q)) /\ ~Under(p, q)
     /\ \A r \in Paths : Under(p, r) /\ IsDir(r) => q \o SubSeq(r, Len(p) + 1, Len(r)) \in Paths
     /\ ChangeTree(moved, Post(Post(inotify, tree[Front(p)], Last(p), "rename"),
                               tree[Front(q)], Last(q), "rename"))
     /\ UNCHANGED fresh

(* A file in the directory at p is written, or created or removed.         *)
Touch(p, kind) ==
  /\ left.touches > 0 /\ IsDir(p)
  /\ left' = [left EXCEPT !.touches = @ - 1]
  /\ inotify' = Post(inotify, tree[p], "f", kind)
  /\ UNCHANGED <<tree, watch, work, fresh, past>>

OtherProcess ==
  \/ \E p \in Paths : Mkdir(p) \/ Rmdir(p) \/ MoveOut(p)
  \/ \E p, q \in Paths : Move(p, q)
  \/ \E p \in Paths, kind \in {"rename", "change"} : Touch(p, kind)

-----------------------------------------------------------------------------
(* The reactor's side.                                                     *)

Doing(op) == work # <<>> /\ Head(work).op = op

Full == Cardinality(watch.nodes) >= MaxWatchDirs

(* Mutant: the directory itself is dropped and what it held stays watched. *)
RemoveOnlyItself(p) == {n \in watch.nodes : n.path # p}

(* The nodes that stay when the directory at p is gone.                    *)
RemoveSubtree(p) == {n \in watch.nodes : ~Under(p, n.path)}

(* libuv finds the handles of the descriptor; a notification whose handle  *)
(* was closed meanwhile is dropped.                                        *)
NextNotification ==
  /\ work = <<>> /\ inotify # <<>> /\ watch.life = "armed"
  /\ LET e == Head(inotify)
         handles == SetToSeq({n \in watch.nodes : n.wd = e.wd})
     IN work' = [k \in 1..Len(handles) |->
                   [op |-> "cb", path |-> handles[k].path, name |-> e.name, kind |-> e.kind]]
  /\ inotify' = Tail(inotify)
  /\ UNCHANGED <<tree, watch, fresh, left, past>>

(* A rename that names a directory asks for a watch on it, one that names  *)
(* anything else, or nothing, drops the watches below that name; the       *)
(* consumers are told last.                                                *)
WatchDirCb ==
  /\ Doing("cb")
  /\ LET cb    == Head(work)
         child == Append(cb.path, cb.name)
         tell  == <<[op |-> "notify", name |-> child, kind |-> cb.kind]>> \o Tail(work)
         adds  == cb.kind = "rename" /\ IsDir(child)
     IN /\ work' = IF adds /\ ~Full THEN <<[op |-> "add", path |-> child]>> \o tell ELSE tell
        /\ watch' = IF cb.kind = "rename" /\ ~IsDir(child)
                    THEN [watch EXCEPT !.nodes = RemoveSubtree(child)] ELSE watch
        /\ past' = [past EXCEPT !.capped = @ \/ (adds /\ Full)]
  /\ UNCHANGED <<tree, inotify, fresh, left>>

(* The kernel has no watch or no descriptor left, or denies access: the    *)
(* callers of async_fs_watch_add_dir and of async_fs_watch_walk go on and  *)
(* tell nobody.  (A refused root makes the constructor throw.)             *)
Refused(p) ==
  /\ left.refusals > 0 /\ p # <<>>
  /\ left' = [left EXCEPT !.refusals = @ - 1]
  /\ past' = [past EXCEPT !.refused = @ \cup {p}]
  /\ work' = Tail(work)
  /\ UNCHANGED <<tree, inotify, watch, fresh>>

(* A watched path is skipped; a directory that is gone by now fails to     *)
(* start.  One inode has one descriptor however many handles watch it.     *)
AddDir ==
  /\ Doing("add")
  /\ LET p    == Head(work).path
         same == {n \in watch.nodes : n.ino = tree[p]}
         wd   == IF same = {} THEN fresh.wd ELSE (CHOOSE n \in same : TRUE).wd
         adds == ~Full /\ ~Watched(p) /\ IsDir(p)
     IN /\ work' = IF adds THEN <<[op |-> "opendir", path |-> p]>> \o Tail(work) ELSE Tail(work)
        /\ watch' = IF adds THEN [watch EXCEPT !.nodes = @ \cup {[path |-> p, ino |-> tree[p], wd |-> wd]}]
                    ELSE watch
        /\ fresh' = IF adds /\ same = {} THEN [fresh EXCEPT !.wd = @ + 1] ELSE fresh
        /\ past' = [past EXCEPT !.capped = @ \/ Full]
  /\ UNCHANGED <<tree, inotify, left>>

AddDirRefused ==
  /\ Doing("add")
  /\ ~Full /\ ~Watched(Head(work).path)
  /\ Refused(Head(work).path)

OpenDirRefused == Doing("opendir") /\ Refused(Head(work).path)

OpenDir ==
  /\ Doing("opendir")
  /\ work' = <<[op |-> "walk", ents |-> Subdirs(Head(work).path)]>> \o Tail(work)
  /\ UNCHANGED <<tree, inotify, watch, fresh, left, past>>

(* The walk takes the entries in the order readdir gives them, skips what  *)
(* is no directory any more, descends into each and ends at the cap.       *)
Walk ==
  /\ Doing("walk")
  /\ LET ents == Head(work).ents
     IN \/ /\ ents = {} \/ Full
           /\ work' = Tail(work)
           /\ past' = [past EXCEPT !.capped = @ \/ ents # {}]
        \/ /\ ents # {} /\ ~Full
           /\ \E p \in ents :
                LET rest == <<[op |-> "walk", ents |-> ents \ {p}]>> \o Tail(work)
                IN work' = IF IsDir(p) THEN <<[op |-> "add", path |-> p]>> \o rest ELSE rest
           /\ UNCHANGED past
  /\ UNCHANGED <<tree, inotify, watch, fresh, left>>

ReactorStep == NextNotification \/ WatchDirCb \/ AddDir \/ OpenDir \/ Walk \/ AddDirRefused \/ OpenDirRefused

(* The first start watches the root and, through it, the whole tree.       *)
FilesystemStart ==
  /\ work' = <<[op |-> "add", path |-> <<>>]>>
  /\ watch' = [watch EXCEPT !.life = "armed"]

(* uv_fs_event_stop on every node: nothing more is heard.                  *)
FilesystemStop(w) == [w EXCEPT !.life = "stopped"]

FilesystemDispose(w) ==
  IF w.nodes = {} THEN [w EXCEPT !.life = "freed"]
  ELSE [w EXCEPT !.life = "closing", !.pending = Cardinality(w.nodes)]

(* The close callback of a node frees it, and the last one frees the event.*)
WatchDirCloseCb ==
  /\ watch.life = "closing"
  /\ \E n \in watch.nodes :
       watch' = [watch EXCEPT !.nodes = @ \ {n}, !.pending = @ - 1,
                              !.life = IF watch.pending = 1 THEN "freed" ELSE @]
  /\ UNCHANGED <<tree, inotify, work, fresh, left, past>>

WatchInit(dirs, ops, touches, refusals) ==
  /\ LET listed == SetToSeq(dirs)
     IN tree = [p \in Paths |-> IF p \in dirs THEN CHOOSE k \in 1..Len(listed) : listed[k] = p ELSE 0]
  /\ inotify = <<>>
  /\ watch = [life |-> "new", nodes |-> {}, pending |-> 0]
  /\ work = <<>>
  /\ fresh = [ino |-> Cardinality(dirs) + 1, wd |-> 1]
  /\ left = [ops |-> ops, touches |-> touches, refusals |-> refusals]
  /\ past = [reused |-> {}, refused |-> {}, capped |-> FALSE]

=============================================================================
