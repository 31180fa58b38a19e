-------------------------- MODULE CacheDirectory --------------------------
(***************************************************************************)
(* The directory that diskv keeps its files in, and what the operations of *)
(* the store do to it, one system call at a time.  They exclude each other *)
(* by d.mu, but a walk of the directory by the health check does not take  *)
(* the mutex and sees every stage.  Between two changes of the tree an     *)
(* operation only looks at it, so a step is one change of it.              *)
(*                                                                         *)
(* A directory is the sequence of names that leads to it, a file is known  *)
(* by its key.  The file system does what it is told, but for names it     *)
(* does not take: a client chooses what is in a key (resizer.go 59, 76,    *)
(* 85), and with a slash or too many characters in it the file cannot be   *)
(* opened.  The further directories such a slash stands for are left out.  *)
(***************************************************************************)
EXTENDS Names, Integers, FiniteSets

CONSTANTS
  Procs,   (* the goroutines that use the store                            *)
  Keys,    (* sequences of characters                                      *)
  Awkward, (* the keys with names that the file system may not take, or    *)
           (* that filepath.Glob takes for patterns                        *)
  Nobody   (* the owner of a free mutex                                    *)

(* "%s_%s_%d_%d" has six characters at least: no file has the name of a    *)
(* directory of another key.                                               *)
ASSUME KeysAssumption == \A k \in Keys : k \in Seq(Nat) /\ Len(k) > BlockSize
(* Nor is there a name of any length: the keys of files are finitely many. *)
ASSUME FiniteKeysAssumption == IsFiniteSet(Keys)
ASSUME AwkwardAssumption == Awkward \subseteq Keys
ASSUME OwnerAssumption == Nobody \notin Procs

VARIABLES
  dirs,  (* the directories                                                *)
  size,  (* the size of each file, or Absent                               *)
  littered,  (* the keys whose last operation failed, so that it may have  *)
             (* left directories without a file                            *)
  mu,    (* who holds d.mu                                                 *)
  job    (* the operation each goroutine is in the middle of               *)

treeVars == <<dirs, size, littered, mu, job>>

Absent == -1
Base == << >>  (* BasePath *)
DirOf == [k \in Keys |-> blockTransform(k)]  (* pathFor *)
Parents == [k \in Keys |-> {SubSeq(DirOf[k], 1, n) : n \in 0 .. Len(DirOf[k])}]
ParentsOf(ks) == UNION {Parents[k] : k \in ks}
Files == {k \in Keys : size[k] # Absent}

Jobs == {"none", "mkdir", "fill", "prune", "removeAll"}
NoJob == [at |-> "none", key |-> << >>, bytes |-> 0, depth |-> 0]

TypeOKTree ==
  /\ dirs \subseteq ParentsOf(Keys)
  /\ \A k \in Keys : size[k] \in Nat \cup {Absent}
  /\ littered \subseteq Keys
  /\ mu \in Procs \cup {Nobody}
  /\ \A p \in Procs : job[p].at \in Jobs

(* What is in the base directory at the start is found by the store.       *)
InitTree ==
  /\ size \in [Keys -> {Absent, 0, 1}]
  /\ littered \in SUBSET Keys
  /\ dirs \in {ParentsOf(Files \cup littered), ParentsOf(Files \cup littered) \cup {Base}}
  /\ mu = Nobody
  /\ job = [p \in Procs |-> NoJob]

-----------------------------------------------------------------------------
(* What is in a directory.                                                 *)
FilesIn(dir) == {k \in Files : DirOf[k] = dir}
DirsIn(dir) == {d \in dirs : d # Base /\ SubSeq(d, 1, Len(d) - 1) = dir}
EmptyDir(dir) == FilesIn(dir) = {} /\ DirsIn(dir) = {}

Lock(p) == mu = Nobody /\ mu' = p

(* The deferred Unlock, when the operation of p returns.                   *)
Unlock(p) ==
  /\ mu' = Nobody
  /\ job' = [job EXCEPT ![p] = NoJob]

-----------------------------------------------------------------------------
(* WriteStream: the directories of the key from the top, the file, its     *)
(* content.                                                                *)
WriteStream(p, k, n) ==
  /\ Lock(p)
  /\ job' = [job EXCEPT ![p] = [at |-> "mkdir", key |-> k, bytes |-> n, depth |-> 0]]
  /\ UNCHANGED <<dirs, size, littered>>

MakeDirectory(p) ==
  LET missing == Parents[job[p].key] \ dirs IN
  /\ job[p].at = "mkdir"
  /\ \E d \in missing :
       /\ \A e \in missing : Len(d) <= Len(e)
       /\ dirs' = dirs \cup {d}
  /\ UNCHANGED <<size, littered, mu, job>>

OpenFile(p) ==
  /\ job[p].at = "mkdir" /\ Parents[job[p].key] \subseteq dirs
  /\ size' = [size EXCEPT ![job[p].key] = 0]
  /\ littered' = littered \ {job[p].key}
  /\ job' = [job EXCEPT ![p].at = "fill"]
  /\ UNCHANGED <<dirs, mu>>

(* MkdirAll or OpenFile fails, and the directories made so far stay.       *)
OpenFails(p) ==
  /\ job[p].at = "mkdir" /\ job[p].key \in Awkward
  /\ littered' = littered \cup {job[p].key}
  /\ Unlock(p)
  /\ UNCHANGED <<dirs, size>>

FillFile(p) ==
  /\ job[p].at = "fill"
  /\ size' = [size EXCEPT ![job[p].key] = job[p].bytes]
  /\ Unlock(p)
  /\ UNCHANGED <<dirs, littered>>

-----------------------------------------------------------------------------
(* Erase: the file, then its directories from the bottom, up to the first  *)
(* that is not empty.  The base stays.                                     *)
Erase(p, k) ==
  \/ /\ k \in Files
     /\ Lock(p)
     /\ size' = [size EXCEPT ![k] = Absent]
     /\ littered' = littered \ {k}
     /\ job' = [job EXCEPT ![p] = [at |-> "prune", key |-> k, bytes |-> 0,
                                   depth |-> Len(DirOf[k])]]
     /\ UNCHANGED dirs
  \/ /\ k \notin Files /\ mu = Nobody
     /\ UNCHANGED treeVars

(* Mutant of PrunedDir: without the directory of the file itself.          *)
ParentOfPrunedDir(p) == SubSeq(DirOf[job[p].key], 1, job[p].depth - 1)

PrunedDir(p) == SubSeq(DirOf[job[p].key], 1, job[p].depth)

PruneDirectory(p) ==
  /\ job[p].at = "prune" /\ job[p].depth > 0 /\ EmptyDir(PrunedDir(p))
  /\ dirs' = dirs \ {PrunedDir(p)}
  /\ job' = [job EXCEPT ![p].depth = @ - 1]
  /\ UNCHANGED <<size, littered, mu>>

(* Mutant of PrunedAll: the early return forgets the mutex.                *)
PrunedAllLocked(p) ==
  /\ job[p].at = "prune"
  /\ job[p].depth = 0 \/ ~EmptyDir(PrunedDir(p))
  /\ job' = [job EXCEPT ![p] = NoJob]
  /\ UNCHANGED <<dirs, size, littered, mu>>

PrunedAll(p) ==
  /\ job[p].at = "prune"
  /\ job[p].depth = 0 \/ ~EmptyDir(PrunedDir(p))
  /\ Unlock(p)
  /\ UNCHANGED <<dirs, size, littered>>

(* Glob takes the name of the directory for a pattern: a bracket in it is  *)
(* a syntax error, or matches other names, and the pruning stops.          *)
PruneStops(p) ==
  /\ job[p].at = "prune" /\ job[p].depth > 0 /\ job[p].key \in Awkward
  /\ littered' = littered \cup {job[p].key}
  /\ Unlock(p)
  /\ UNCHANGED <<dirs, size>>

-----------------------------------------------------------------------------
(* EraseAll: os.RemoveAll of the base, leaf by leaf, in no given order.    *)
EraseAll(p) ==
  /\ Lock(p)
  /\ job' = [job EXCEPT ![p].at = "removeAll"]
  /\ UNCHANGED <<dirs, size, littered>>

RemoveLeaf(p) ==
  /\ job[p].at = "removeAll"
  /\ \/ \E k \in Files : size' = [size EXCEPT ![k] = Absent] /\ UNCHANGED dirs
     \/ \E d \in dirs : EmptyDir(d) /\ dirs' = dirs \ {d} /\ UNCHANGED size
  /\ UNCHANGED <<littered, mu, job>>

RemovedAll(p) ==
  /\ job[p].at = "removeAll" /\ dirs = {}
  /\ littered' = {}
  /\ Unlock(p)
  /\ UNCHANGED <<dirs, size>>

ChangeTree(p) ==
  \/ MakeDirectory(p) \/ OpenFile(p) \/ OpenFails(p) \/ FillFile(p)
  \/ PruneDirectory(p) \/ PrunedAll(p) \/ PruneStops(p)
  \/ RemoveLeaf(p) \/ RemovedAll(p)

-----------------------------------------------------------------------------
(***************************************************************************)
(* Every file has its directories at every moment, and when no operation   *)
(* is under way every directory leads to a file, or was made for a key     *)
(* whose last operation failed: the pruning of Erase goes up as far as it  *)
(* should and no further, and only a failed operation leaves directories   *)
(* behind (diskv.go 121-129, 518-545).                                     *)
(***************************************************************************)
DirectoriesServeFiles ==
  /\ ParentsOf(Files) \subseteq dirs
  /\ mu = Nobody => dirs \subseteq ParentsOf(Files \cup littered) \cup {Base}
=============================================================================
