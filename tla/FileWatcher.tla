---------------------------- MODULE FileWatcher ----------------------------
(***************************************************************************)
(* The file watcher (core/file_watcher.cpp) on inotify.  The kernel keeps  *)
(* watches by inode and descriptor and queues events; the watcher keeps    *)
(* file2wd_ and wd2file_.  Files are created, linked, changed and deleted  *)
(* meanwhile, and a callback may watch and unwatch files between two       *)
(* events that were read at once.                                          *)
(***************************************************************************)
EXTENDS Integers, Sequences, SequencesExt, Functions

CONSTANTS
  Names,      \* paths
  Inodes,
  MaxWd,      \* bound: descriptors the kernel hands out
  MaxEvents   \* bound: events in the queue

VARIABLES
  names,      \* the file system: the inode of each path, or None
  watches,    \* the kernel: descriptor to inode
  last_wd,    \* the kernel: the last descriptor handed out
  events,     \* the kernel: events not yet read
  file2wd,    \* file2wd_
  wd2file,    \* wd2file_
  polling,    \* poll_ is active
  batch,      \* what one read() has returned and the loop has not got to
  told,       \* descriptors whose deletion has been told to fn_on_file_delete_
  deleted,    \* descriptors whose inode has been deleted
  aliased     \* two paths were given one descriptor

kernel == <<names, watches, last_wd, events>>
ghosts == <<told, deleted, aliased>>
watcherVars == <<kernel, file2wd, wd2file, polling, batch, ghosts>>

None == "none"
BadWd == -1     \* inotify_add_watch() of a path that is not there
Empty == [x \in {} |-> x]
Without(f, x) == Restrict(f, DOMAIN f \ {x})
With(f, x, y) == [z \in DOMAIN f \cup {x} |-> IF z = x THEN y ELSE f[z]]

Init ==
  /\ names \in [Names -> Inodes \cup {None}]
  /\ watches = Empty /\ last_wd = 0 /\ events = <<>>
  /\ file2wd = Empty /\ wd2file = Empty /\ polling = FALSE /\ batch = <<>>
  /\ told = {} /\ deleted = {} /\ aliased = FALSE
----------------------------------------------------------------------------
(* The kernel *)

Event(wd, mask) == [wd |-> wd, mask |-> mask]
WdsOf(i) == {wd \in DOMAIN watches : watches[wd] = i}

\* A path is created, as a new file or as a link to one.
Create(f, i) ==
  /\ names[f] = None /\ names' = [names EXCEPT ![f] = i]
  /\ UNCHANGED <<watches, last_wd, events, file2wd, wd2file, polling, batch, ghosts>>

\* A file is opened, changed or closed.
Use(f, mask) ==
  /\ names[f] # None
  /\ \E wd \in WdsOf(names[f]) : Len(events) < MaxEvents /\ events' = Append(events, Event(wd, mask))
  /\ UNCHANGED <<names, watches, last_wd, file2wd, wd2file, polling, batch, ghosts>>

\* The last path of an inode is removed: the watch ends with two events.
Delete(f) ==
  /\ names[f] # None /\ names' = [names EXCEPT ![f] = None]
  /\ IF (\E g \in Names \ {f} : names[g] = names[f]) \/ WdsOf(names[f]) = {}
     THEN UNCHANGED <<watches, events, deleted>>
     ELSE \E wd \in WdsOf(names[f]) :
            /\ watches' = Without(watches, wd) /\ deleted' = deleted \cup {wd}
            /\ events' = events \o <<Event(wd, "delete"), Event(wd, "ignored")>>
  /\ UNCHANGED <<last_wd, file2wd, wd2file, polling, batch, told, aliased>>
----------------------------------------------------------------------------
(* The watcher *)

has_watch(f) == f \in DOMAIN file2wd

\* inotify_add_watch() returns the watch an inode has, or a new one.
watch(f) ==
  /\ ~has_watch(f)
  /\ \E wd \in IF names[f] = None THEN {BadWd}
               ELSE IF WdsOf(names[f]) # {} THEN WdsOf(names[f]) ELSE {last_wd + 1} :
       /\ wd <= MaxWd
       /\ last_wd' = IF wd > last_wd THEN wd ELSE last_wd
       /\ watches' = IF wd = BadWd THEN watches ELSE With(watches, wd, names[f])
       /\ file2wd' = With(file2wd, f, wd) /\ wd2file' = With(wd2file, wd, f)
       /\ aliased' = (aliased \/ wd \in DOMAIN wd2file)
  /\ UNCHANGED <<names, events, polling, batch, told, deleted>>

Forget(f) == file2wd' = Without(file2wd, f) /\ wd2file' = Without(wd2file, file2wd[f])

\* inotify_rm_watch() queues an event that says the watch is gone.
unwatch(f) ==
  /\ has_watch(f)
  /\ watches' = Without(watches, file2wd[f])
  /\ events' = IF file2wd[f] \in DOMAIN watches THEN Append(events, Event(file2wd[f], "ignored")) ELSE events
  /\ Forget(f)
  /\ UNCHANGED <<names, last_wd, polling, batch, ghosts>>

start == ~polling /\ polling' = TRUE /\ UNCHANGED <<kernel, file2wd, wd2file, batch, ghosts>>
stop == polling /\ polling' = FALSE /\ UNCHANGED <<kernel, file2wd, wd2file, batch, ghosts>>

on_inotify_event == polling /\ batch = <<>>

\* read(): as many events as fit the buffer
on_inotify_read(n) ==
  /\ on_inotify_event /\ n <= Len(events)
  /\ batch' = SubSeq(events, 1, n) /\ events' = SubSeq(events, n + 1, Len(events))
  /\ UNCHANGED <<names, watches, last_wd, file2wd, wd2file, polling, ghosts>>

\* One turn of the loop: a callback for the file of the descriptor, if it still
\* has one.
on_event ==
  /\ batch # <<>> /\ batch' = Tail(batch)
  /\ told' = IF Head(batch).mask = "delete" /\ Head(batch).wd \in DOMAIN wd2file
             THEN told \cup {Head(batch).wd} ELSE told
  /\ UNCHANGED <<kernel, file2wd, wd2file, polling, deleted, aliased>>

Next ==
  \/ \E f \in Names : watch(f) \/ unwatch(f) \/ Delete(f) \/ Use(f, "modify") \/ \E i \in Inodes : Create(f, i)
  \/ \E n \in 1 .. MaxEvents : on_inotify_read(n)
  \/ start \/ stop \/ on_event
----------------------------------------------------------------------------
Unread == ToSet(events) \cup ToSet(batch)

\* Every watch of the kernel is in wd2file_, from which the destructor removes
\* them.  As long as no two paths have one descriptor (links to one file, or
\* two paths that are not there), the tables are each other's inverse, so that
\* the assertion of has_watch() holds; a watched file is watched by the kernel
\* until it is deleted; and a file deleted while watched is told once the
\* event is read, unless it has been unwatched before.
WatchesAgree ==
  /\ DOMAIN watches \subseteq DOMAIN wd2file
  /\ ~aliased =>
       /\ \A f \in DOMAIN file2wd : file2wd[f] \in DOMAIN wd2file /\ wd2file[file2wd[f]] = f
       /\ \A wd \in DOMAIN wd2file : wd2file[wd] \in DOMAIN file2wd
       /\ \A wd \in DOMAIN wd2file \ {BadWd} :
            \/ wd \in DOMAIN watches
            \/ wd \in deleted /\ (wd \in told \/ Event(wd, "delete") \in Unread)

\* With it, what the queues hold, and that the entry of a descriptor is the
\* one its path leads back to, without which an unwatched path might leave a
\* second entry behind
Change == [wd : Nat, mask : {"modify", "delete", "ignored"}]
IInv ==
  /\ last_wd \in Nat /\ DOMAIN watches \subseteq Nat
  /\ events \in Seq(Change) /\ batch \in Seq(Change)
  /\ ~aliased => \A wd \in DOMAIN wd2file : file2wd[wd2file[wd]] = wd
  /\ WatchesAgree
============================================================================
