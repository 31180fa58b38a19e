---------------------------- MODULE HealthCheck ----------------------------
(***************************************************************************)
(* What the health check looks at without a lock while requests change it: *)
(* the cache directory, walked by DirSize, and the counters of CacheStats. *)
(*                                                                         *)
(* A goroutine does a sequence of tasks: an operation of the provider is   *)
(* here what it counts and what it does to the cache directory.            *)
(***************************************************************************)
EXTENDS CacheDirectory

VARIABLES
  todo,      (* the tasks each goroutine has yet to do                     *)
  stats,     (* the counters of CacheStats                                 *)
  register,  (* a counter's value that a goroutine has read and will write *)
  walk,      (* where the walk of each goroutine is                        *)
  reported,  (* what the last walk of each goroutine came to               *)
  counted,   (* how often each counter should have been incremented        *)
  low, high, (* for each goroutine that walks: the smallest and the        *)
             (* largest size each file has had since its walk began        *)
  quiet      (* and whether the tree has not changed since then            *)

healthVars == <<todo, stats, register, walk, reported, counted>>
seenVars == <<low, high, quiet>>
vars == <<treeVars, healthVars, seenVars>>

Counters == {"hitLru", "missLru", "hitFileCache", "missFileCache"}
NotRead == -1

(* The operations of the provider that change something, as tasks.  What   *)
(* Set writes, and what Get counts, depends on the LRU cache; a Get that   *)
(* cannot decode what it found goes on to Delete.                          *)
Count(c) == [do |-> "count", counter |-> c, key |-> << >>, bytes |-> 0]
Write(k, n) == [do |-> "write", counter |-> "none", key |-> k, bytes |-> n]
Remove(k) == [do |-> "erase", counter |-> "none", key |-> k, bytes |-> 0]
RemoveAll == [do |-> "eraseAll", counter |-> "none", key |-> << >>, bytes |-> 0]
DirSize == [do |-> "dirSize", counter |-> "none", key |-> << >>, bytes |-> 0]

Set(k, n) == {<<Count("missLru"), Count("missFileCache"), Write(k, 0)>>,
              <<Count("missFileCache"), Write(k, n)>>}
Delete(k) == {<<Remove(k)>>}
Hit == {<<Count("hitLru")>>, <<Count("hitFileCache")>>}
Get(k) == Hit \cup {hit \o <<Remove(k)>> : hit \in Hit}
DeleteAll == {<<RemoveAll>>}

-----------------------------------------------------------------------------
Nowhere == [at |-> "none", path |-> << >>, sum |-> 0]
NoReport == [kind |-> "none", size |-> 0, low |-> 0, high |-> 0, quiet |-> TRUE]

TypeOK ==
  /\ TypeOKTree
  /\ \A c \in Counters : stats[c] \in Nat /\ counted[c] \in Nat
  /\ \A p \in Procs :
       /\ register[p] \in Nat \cup {NotRead}
       /\ walk[p].at \in {"none", "root", "read", "next"} /\ walk[p].sum \in Nat
       /\ reported[p].kind \in {"none", "size", "error", "panic"}

Init ==
  /\ InitTree
  /\ todo = [p \in Procs |-> << >>]
  /\ stats = [c \in Counters |-> 0] /\ counted = stats
  /\ register = [p \in Procs |-> NotRead]
  /\ walk = [p \in Procs |-> Nowhere]
  /\ reported = [p \in Procs |-> NoReport]
  /\ low = [p \in Procs |-> size] /\ high = low
  /\ quiet = [p \in Procs |-> TRUE]

-----------------------------------------------------------------------------
Begins(p, task) ==
  /\ todo[p] # << >> /\ Head(todo[p]).do = task
  /\ job[p].at = "none" /\ walk[p].at = "none"

Finished(p) == todo' = [todo EXCEPT ![p] = Tail(@)]

(* A counter is incremented by reading and writing it.                     *)
ReadCounter(p) ==
  LET c == Head(todo[p]).counter IN
  /\ Begins(p, "count") /\ register[p] = NotRead
  /\ register' = [register EXCEPT ![p] = stats[c]]
  /\ counted' = [counted EXCEPT ![c] = @ + 1]
  /\ UNCHANGED <<treeVars, todo, stats, walk, reported>>

(* Mutant of WriteCounter: what was read is written back.                  *)
WriteCounterAsRead(p) ==
  /\ Begins(p, "count") /\ register[p] # NotRead
  /\ stats' = [stats EXCEPT ![Head(todo[p]).counter] = register[p]]
  /\ register' = [register EXCEPT ![p] = NotRead]
  /\ Finished(p)
  /\ UNCHANGED <<treeVars, walk, reported, counted>>

WriteCounter(p) ==
  /\ Begins(p, "count") /\ register[p] # NotRead
  /\ stats' = [stats EXCEPT ![Head(todo[p]).counter] = register[p] + 1]
  /\ register' = [register EXCEPT ![p] = NotRead]
  /\ Finished(p)
  /\ UNCHANGED <<treeVars, walk, reported, counted>>

BeginStoreTask(p) ==
  /\ \/ Begins(p, "write") /\ WriteStream(p, Head(todo[p]).key, Head(todo[p]).bytes)
     \/ Begins(p, "erase") /\ Erase(p, Head(todo[p]).key)
     \/ Begins(p, "eraseAll") /\ EraseAll(p)
  /\ Finished(p)
  /\ UNCHANGED <<stats, register, walk, reported, counted>>

ContinueJob(p) == ChangeTree(p) /\ UNCHANGED healthVars

-----------------------------------------------------------------------------
(* DirSize.  path is the way from the base to where the walk is: for each  *)
(* directory its name and what is left of the entries read in it.  The     *)
(* order in which the entries come is left open.                           *)
Sum(sizes) == SE!FoldSet(LAMBDA k, n : n + (IF sizes[k] = Absent THEN 0 ELSE sizes[k]), 0, Keys)

Reported(p, kind) ==
  /\ reported' = [reported EXCEPT ![p] =
                    [kind |-> kind, size |-> IF kind = "size" THEN walk[p].sum ELSE 0,
                     low |-> Sum(low[p]), high |-> Sum(high[p]), quiet |-> quiet[p]]]
  /\ walk' = [walk EXCEPT ![p] = Nowhere]
  /\ todo' = [todo EXCEPT ![p] = IF kind = "panic" THEN << >> ELSE Tail(@)]
  /\ UNCHANGED <<treeVars, stats, register, counted>>

Goto(p, place, path, sum) ==
  /\ walk' = [walk EXCEPT ![p] = [at |-> place, path |-> path, sum |-> sum]]
  /\ UNCHANGED <<treeVars, todo, stats, register, reported, counted>>

(* A directory that does not exist has the size zero.                      *)
StatRoot(p) ==
  /\ Begins(p, "dirSize")
  /\ IF Base \in dirs THEN Goto(p, "root", << >>, 0) ELSE Reported(p, "size")

LstatRoot(p) ==
  /\ walk[p].at = "root"
  /\ IF Base \in dirs THEN Goto(p, "read", <<[dir |-> Base, files |-> {}, dirs |-> {}]>>, 0)
                      ELSE Reported(p, "panic")

Here(p) == walk[p].path[Len(walk[p].path)]
Above(p) == SubSeq(walk[p].path, 1, Len(walk[p].path) - 1)

(* A directory that has vanished since its Lstat is an error, which ends   *)
(* the walk.                                                               *)
ReadDirNames(p) ==
  LET dir == Here(p).dir IN
  /\ walk[p].at = "read"
  /\ IF dir \in dirs
       THEN Goto(p, "next",
                 Append(Above(p), [dir |-> dir, files |-> FilesIn(dir), dirs |-> DirsIn(dir)]),
                 walk[p].sum)
       ELSE Reported(p, "error")

(* Mutant of LstatFile: the size of a file that has vanished is used.      *)
LstatFileAnyway(p) ==
  /\ walk[p].at = "next"
  /\ \E k \in Here(p).files :
       Goto(p, "next", Append(Above(p), [Here(p) EXCEPT !.files = @ \ {k}]),
            walk[p].sum + size[k])

(* The info of an entry that has vanished is nil, and its IsDir panics.    *)
LstatFile(p) ==
  /\ walk[p].at = "next"
  /\ \E k \in Here(p).files :
       IF k \in Files
         THEN Goto(p, "next", Append(Above(p), [Here(p) EXCEPT !.files = @ \ {k}]),
                   walk[p].sum + size[k])
         ELSE Reported(p, "panic")

(* Mutant of LstatDirectory: the directories in a directory are left out.  *)
LstatDirectorySkips(p) ==
  /\ walk[p].at = "next"
  /\ \E d \in Here(p).dirs :
       Goto(p, "next", Append(Above(p), [Here(p) EXCEPT !.dirs = @ \ {d}]), walk[p].sum)

LstatDirectory(p) ==
  /\ walk[p].at = "next"
  /\ \E d \in Here(p).dirs :
       IF d \in dirs
         THEN Goto(p, "read", Above(p) \o <<[Here(p) EXCEPT !.dirs = @ \ {d}],
                                            [dir |-> d, files |-> {}, dirs |-> {}]>>,
                   walk[p].sum)
         ELSE Reported(p, "panic")

LeaveDirectory(p) ==
  /\ walk[p].at = "next" /\ Here(p).files = {} /\ Here(p).dirs = {}
  /\ IF Here(p).dir = Base THEN Reported(p, "size") ELSE Goto(p, "next", Above(p), walk[p].sum)

Walk(p) ==
  \/ StatRoot(p) \/ LstatRoot(p) \/ ReadDirNames(p)
  \/ LstatFile(p) \/ LstatDirectory(p) \/ LeaveDirectory(p)

-----------------------------------------------------------------------------
Smaller(n, m) == IF n < m THEN n ELSE m
Larger(n, m) == IF n > m THEN n ELSE m

(* What a walk could have seen, kept by every step; it begins where no     *)
(* walk is under way.                                                      *)
Observe ==
  /\ low' = [p \in Procs |-> IF walk'[p].at = "none" THEN size' ELSE
                               [k \in Keys |-> Smaller(low[p][k], size'[k])]]
  /\ high' = [p \in Procs |-> IF walk'[p].at = "none" THEN size' ELSE
                                [k \in Keys |-> Larger(high[p][k], size'[k])]]
  /\ quiet' = [p \in Procs |-> \/ walk'[p].at = "none"
                               \/ quiet[p] /\ dirs' = dirs /\ size' = size]

Task(p) ==
  ReadCounter(p) \/ WriteCounter(p) \/ BeginStoreTask(p) \/ ContinueJob(p) \/ Walk(p)

Idle(p) == todo[p] = << >> /\ job[p].at = "none" /\ walk[p].at = "none"

(* A goroutine is given tasks.                                             *)
Begin(p, tasks) ==
  /\ Idle(p)
  /\ todo' = [todo EXCEPT ![p] = tasks]
  /\ UNCHANGED <<treeVars, stats, register, walk, reported, counted>>

-----------------------------------------------------------------------------
(***************************************************************************)
(* The size that a walk reports, whatever changes the tree meanwhile, is   *)
(* between what never was below and what never was above it: each file     *)
(* that was there throughout is counted, once, at a size it had, and no    *)
(* file is counted twice.  A walk may fail, but in a tree at rest it does  *)
(* not (utils.go 134-149).                                                 *)
(***************************************************************************)
WalkReportsWhatWasThere ==
  \A p \in Procs :
    /\ reported[p].kind = "size" =>
         reported[p].low <= reported[p].size /\ reported[p].size <= reported[p].high
    /\ reported[p].quiet => reported[p].kind \in {"none", "size"}

(***************************************************************************)
(* The counters, incremented without synchronisation, lose increments and  *)
(* even go back, but count nothing that did not happen and, once anything  *)
(* was counted, are not zero when no increment is under way.               *)
(***************************************************************************)
CountersNeverOvercount ==
  \A c \in Counters :
    /\ stats[c] <= counted[c]
    /\ counted[c] > 0 /\ (\A p \in Procs : register[p] = NotRead) => stats[c] > 0
=============================================================================
