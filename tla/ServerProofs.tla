---------------------------- MODULE ServerProofs ----------------------------
(***************************************************************************)
(* For any number of goroutines, requests, pointers and paths: the map of  *)
(* gorilla/context follows the requests, the counters count nothing that   *)
(* did not happen, the directories serve the files, the id and the         *)
(* extension of a picture are those of its path, a redirect leads to a     *)
(* path that is not redirected, and a walk reports what was there.         *)
(*                                                                         *)
(* None is inductive.  That a handler finds its own variables needs the    *)
(* pointers of the requests under way to differ, and that every entry of   *)
(* the map belongs to a request that has got that far.  A counter falls    *)
(* short of what it should be by the increments that got lost, which needs *)
(* every value that has been read, and is yet to be written, to be below   *)
(* what was counted.                                                       *)
(***************************************************************************)
EXTENDS Server, SequenceTheorems, FiniteSetTheorems, WellFoundedInduction, TLAPS

-----------------------------------------------------------------------------
(***************************************************************************)
(* The operations of the store keep the directories that its files need,   *)
(* and leave no others behind, for any keys, any number of goroutines and  *)
(* whatever is in the directory when they begin.                           *)
(*                                                                         *)
(* DirectoriesServeFiles speaks of the directories at rest.  Its inductive *)
(* form (TreeInv) says of each stage of an operation which directories may *)
(* be there in excess: those a write makes for a file that is yet to be    *)
(* opened, those an erasure has yet to prune, which are the ones above a   *)
(* certain depth, and those that failed operations have left (littered).   *)
(***************************************************************************)
(* The names on the way to the file of a key.                              *)
NamesOf(k) == {DirOf[k][i] : i \in 1 .. Len(k) \div BlockSize}

Prefix(k, n) == SubSeq(DirOf[k], 1, n)

LEMMA DirOfType == \A k \in Keys : DirOf[k] \in Seq(NamesOf(k)) /\ Len(DirOf[k]) \in Nat
<1> TAKE k \in Keys
<1>1. DirOf[k] = [i \in 1 .. Len(k) \div BlockSize |->
                    SubSeq(k, (i - 1) * BlockSize + 1, i * BlockSize)]
  BY DEF DirOf, blockTransform
<1>2. Len(k) \div BlockSize \in Nat
  BY KeysAssumption, BlockSizeAssumption, LenProperties
<1>3. \A i \in 1 .. Len(k) \div BlockSize :
         SubSeq(k, (i - 1) * BlockSize + 1, i * BlockSize) \in NamesOf(k)
  BY <1>1, Zenon DEF NamesOf
<1>4. DirOf[k] \in [1 .. Len(k) \div BlockSize -> NamesOf(k)]
  BY <1>1, <1>3, Zenon
<1>5. QED
  BY <1>2, <1>4

LEMMA PrefixProperties ==
  ASSUME NEW k \in Keys, NEW n \in 0 .. Len(DirOf[k])
  PROVE  /\ Len(Prefix(k, n)) = n
         /\ \A m \in 0 .. n : SubSeq(Prefix(k, n), 1, m) = Prefix(k, m)
         /\ Prefix(k, 0) = Base /\ Prefix(k, Len(DirOf[k])) = DirOf[k]
<1> DEFINE s == DirOf[k]
           S == NamesOf(k)
<1>1. s \in Seq(S) /\ Len(s) \in Nat /\ n \in Nat
  BY DirOfType
<1>2. n \in 0 .. Len(s) /\ Prefix(k, n) = SubSeq(s, 1, n)
  BY DEF Prefix
<1>3. \A m : Prefix(k, m) = SubSeq(s, 1, m)
  BY DEF Prefix
<1> HIDE DEF s, S
<1>4. \A i \in 1 .. n : s[i] \in S
  BY <1>1, <1>2, ElementOfSeq
<1>5. Len(SubSeq(s, 1, n)) = IF 1 <= n THEN n - 1 + 1 ELSE 0
  BY <1>1, <1>4, SubSeqProperties
<1>6. Len(SubSeq(s, 1, n)) = n
  BY <1>1, <1>5
<1>7. \A t : SubSeq(t, 1, 0) = << >>
  BY SubSeqEmpty
<1>8. ASSUME NEW m \in 0 .. n
      PROVE  SubSeq(SubSeq(s, 1, n), 1, m) = SubSeq(s, 1, m)
  <2>1. CASE m = 0
    BY <1>7, <2>1
  <2>2. CASE m # 0
    <3>1. /\ 1 \in 1 .. Len(s) /\ n \in 1 .. Len(s) /\ n - 1 + 1 = n
          /\ 1 \in 1 .. n - 1 + 1 /\ m \in 1 .. n - 1 + 1
          /\ 1 + 1 - 1 = 1 /\ 1 + m - 1 = m
      BY <1>1, <1>2, <2>2
    <3>2. SubSeq(SubSeq(s, 1, n), 1, m) = SubSeq(s, 1 + 1 - 1, 1 + m - 1)
      BY <1>1, <3>1, SubSeqOfSubSeq
    <3>3. QED
      BY <3>1, <3>2
  <2>3. QED
    BY <2>1, <2>2
<1>9. SubSeq(s, 1, Len(s)) = s
  BY <1>1, SubSeqFull
<1>10. Len(DirOf[k]) = Len(s) /\ DirOf[k] = s
  BY DEF s
<1>11. QED
  BY <1>2, <1>3, <1>6, <1>7, <1>8, <1>9, <1>10 DEF Base

-----------------------------------------------------------------------------
(* The directories of a key down to a depth.                               *)
UpTo(k, depth) == {Prefix(k, n) : n \in 0 .. depth}

LEMMA ParentsAreUpTo == \A k \in Keys : Parents[k] = UpTo(k, Len(DirOf[k]))
BY DEF Parents, UpTo, Prefix

(* A directory that two keys have is reached by the same way from both.    *)
LEMMA WaysMeet ==
  ASSUME NEW k \in Keys, NEW j \in Keys, NEW n \in 0 .. Len(DirOf[k]), Prefix(k, n) \in Parents[j]
  PROVE  UpTo(k, n) \subseteq Parents[j]
<1>1. PICK m \in 0 .. Len(DirOf[j]) : Prefix(k, n) = Prefix(j, m)
  BY ParentsAreUpTo DEF UpTo
<1>2. Len(Prefix(k, n)) = n /\ Len(Prefix(j, m)) = m
  BY PrefixProperties
<1>3. m = n
  BY <1>1, <1>2
<1>4. SUFFICES ASSUME NEW i \in 0 .. n PROVE Prefix(k, i) \in Parents[j]
  BY DEF UpTo
<1>5. SubSeq(Prefix(k, n), 1, i) = Prefix(k, i) /\ SubSeq(Prefix(j, m), 1, i) = Prefix(j, i)
  BY <1>3, PrefixProperties
<1>6. i \in 0 .. Len(DirOf[j])
  BY <1>3, DirOfType
<1>7. QED
  BY <1>1, <1>5, <1>6, ParentsAreUpTo DEF UpTo

(* What is empty is on the way to no file.                                 *)
LEMMA EmptyLeadsNowhere ==
  ASSUME ParentsOf(Files) \subseteq dirs, NEW d, EmptyDir(d), NEW k \in Files
  PROVE  d \notin Parents[k]
<1>1. SUFFICES ASSUME d \in Parents[k] PROVE FALSE
  OBVIOUS
<1>2. k \in Keys
  BY DEF Files
<1>3. PICK n \in 0 .. Len(DirOf[k]) : d = Prefix(k, n)
  BY <1>1, <1>2, ParentsAreUpTo DEF UpTo
<1>4. CASE n = Len(DirOf[k])
  <2>1. DirOf[k] = d
    BY <1>2, <1>3, <1>4, PrefixProperties
  <2>2. QED
    BY <2>1 DEF EmptyDir, FilesIn
<1>5. CASE n # Len(DirOf[k])
  <2>1. n + 1 \in 0 .. Len(DirOf[k]) /\ n \in 0 .. n + 1 /\ n + 1 # 0 /\ n + 1 - 1 = n
        /\ 0 \in 0 .. Len(DirOf[k])
    BY <1>2, <1>5, DirOfType
  <2>2. /\ Len(Prefix(k, n + 1)) = n + 1 /\ SubSeq(Prefix(k, n + 1), 1, n) = d
        /\ Prefix(k, n + 1) # Base
    BY <1>2, <1>3, <2>1, PrefixProperties
  <2>3. Prefix(k, n + 1) \in dirs
    BY <1>2, <2>1, ParentsAreUpTo DEF UpTo, ParentsOf
  <2>4. Prefix(k, n + 1) \in DirsIn(d)
    BY <2>1, <2>2, <2>3 DEF DirsIn
  <2>5. QED
    BY <2>4 DEF EmptyDir
<1>6. QED
  BY <1>4, <1>5

-----------------------------------------------------------------------------
(* The directories that are there when nothing is under way.               *)
Resting == ParentsOf(Files \cup littered) \cup {Base}

TreeTypeInv ==
  /\ size \in [Keys -> Nat \cup {Absent}] /\ littered \subseteq Keys
  /\ job \in [Procs -> [at : Jobs, key : Keys \cup {<< >>}, bytes : Nat, depth : Nat]]

MutexInv == \A p \in Procs : job[p].at # "none" <=> mu = p

FilesReached == ParentsOf(Files) \subseteq dirs

(* What may be in excess when p is in the middle of its operation.         *)
Stage(p) ==
  /\ job[p].at = "mkdir" =>
       job[p].key \in Keys /\ dirs \subseteq Resting \cup Parents[job[p].key]
  /\ job[p].at = "fill" => job[p].key \in Files /\ dirs \subseteq Resting
  /\ job[p].at = "prune" =>
       /\ job[p].key \in Keys /\ job[p].depth \in 0 .. Len(DirOf[job[p].key])
       /\ dirs \subseteq Resting \cup UpTo(job[p].key, job[p].depth)

TreeInv ==
  /\ TreeTypeInv /\ MutexInv /\ FilesReached
  /\ mu = Nobody => dirs \subseteq Resting
  /\ \A p \in Procs : Stage(p)

-----------------------------------------------------------------------------
(* Whoever is in the middle of an operation is alone in that.              *)
LEMMA AloneAtWork ==
  ASSUME MutexInv, NEW p \in Procs, job[p].at # "none"
  PROVE  mu = p /\ \A q \in Procs : q # p => job[q].at = "none"
BY DEF MutexInv

(* p goes on, or begins.                                                   *)
LEMMA GoesOn ==
  ASSUME TreeTypeInv', FilesReached', NEW p \in Procs, Stage(p)',
         mu' = p, job'[p].at # "none", \A q \in Procs : q # p => job'[q].at = "none"
  PROVE  TreeInv'
<1>1. p # Nobody
  BY OwnerAssumption
<1>2. MutexInv'
  BY DEF MutexInv
<1>3. \A q \in Procs : q # p => Stage(q)'
  BY DEF Stage
<1>4. QED
  BY <1>1, <1>2, <1>3 DEF TreeInv

(* p has come to the end of its operation.                                 *)
LEMMA Returns ==
  ASSUME TreeInv, NEW p \in Procs, job[p].at # "none", Unlock(p),
         size' \in [Keys -> Nat \cup {Absent}], littered' \subseteq Keys,
         FilesReached', dirs' \subseteq Resting'
  PROVE  TreeInv'
<1>1. \A q \in Procs : q # p => job[q].at = "none"
  BY AloneAtWork DEF TreeInv
<1>2. job' = [job EXCEPT ![p] = NoJob] /\ mu' = Nobody
  BY DEF Unlock
<1>3. NoJob \in [at : Jobs, key : Keys \cup {<< >>}, bytes : Nat, depth : Nat]
  BY DEF NoJob, Jobs
<1>4. TreeTypeInv'
  BY <1>2, <1>3 DEF TreeInv, TreeTypeInv
<1>5. \A q \in Procs : job'[q].at = "none"
  BY <1>1, <1>2 DEF TreeInv, TreeTypeInv, NoJob
<1>6. MutexInv' /\ \A q \in Procs : Stage(q)'
  BY <1>2, <1>5, OwnerAssumption DEF MutexInv, Stage
<1>7. QED
  BY <1>4, <1>6 DEF TreeInv

LEMMA FilesInv ==
  ASSUME TreeTypeInv
  PROVE  /\ Files \subseteq Keys /\ littered \subseteq Keys
         /\ \A k \in Keys : k \in Files <=> size[k] \in Nat
BY DEF TreeTypeInv, Files, Absent

-----------------------------------------------------------------------------
LEMMA WriteStreamKeeps ==
  ASSUME TreeInv, NEW p \in Procs, NEW k \in Keys, NEW n \in Nat, WriteStream(p, k, n)
  PROVE  TreeInv'
<1> DEFINE j == [at |-> "mkdir", key |-> k, bytes |-> n, depth |-> 0]
<1>1. /\ mu = Nobody /\ mu' = p /\ dirs' = dirs /\ size' = size /\ littered' = littered
      /\ job' = [job EXCEPT ![p] = j]
  BY DEF WriteStream, Lock
<1>2. \A q \in Procs : job[q].at = "none"
  BY <1>1, OwnerAssumption DEF TreeInv, MutexInv
<1>3. j \in [at : Jobs, key : Keys \cup {<< >>}, bytes : Nat, depth : Nat] /\ j.at = "mkdir"
      /\ j.key = k
  BY DEF Jobs
<1> HIDE DEF j
<1>4. TreeTypeInv' /\ job'[p] = j /\ \A q \in Procs : q # p => job'[q] = job[q]
  BY <1>1, <1>3 DEF TreeInv, TreeTypeInv
<1>5. FilesReached' /\ dirs' \subseteq Resting'
  BY <1>1 DEF TreeInv, FilesReached, Resting, ParentsOf, Files
<1>6. Stage(p)'
  BY <1>3, <1>4, <1>5 DEF Stage
<1>7. QED
  BY <1>1, <1>2, <1>3, <1>4, <1>5, <1>6, GoesOn

LEMMA MakeDirectoryKeeps ==
  ASSUME TreeInv, NEW p \in Procs, MakeDirectory(p)
  PROVE  TreeInv'
<1>1. /\ job[p].at = "mkdir" /\ job' = job /\ mu' = mu /\ size' = size /\ littered' = littered
      /\ job[p].key \in Keys /\ dirs \subseteq Resting \cup Parents[job[p].key]
  BY DEF MakeDirectory, TreeInv, Stage
<1>2. dirs \subseteq dirs' /\ dirs' \subseteq dirs \cup Parents[job[p].key]
  BY DEF MakeDirectory
<1>3. TreeTypeInv'
  BY <1>1 DEF TreeInv, TreeTypeInv
<1>4. FilesReached' /\ Resting' = Resting
  BY <1>1, <1>2 DEF TreeInv, FilesReached, Resting, ParentsOf, Files
<1>5. Stage(p)'
  BY <1>1, <1>2, <1>4 DEF Stage
<1>6. mu = p /\ \A q \in Procs : q # p => job[q].at = "none"
  BY <1>1, AloneAtWork DEF TreeInv
<1>7. QED
  BY <1>1, <1>3, <1>4, <1>5, <1>6, GoesOn

LEMMA OpenFileKeeps ==
  ASSUME TreeInv, NEW p \in Procs, OpenFile(p)
  PROVE  TreeInv'
<1>1. PICK k \in Keys : k = job[p].key
  BY DEF OpenFile, TreeInv, Stage
<1>2. /\ job[p].at = "mkdir" /\ dirs' = dirs /\ mu' = mu /\ Parents[k] \subseteq dirs
      /\ size' = [size EXCEPT ![k] = 0] /\ littered' = littered \ {k}
      /\ job' = [job EXCEPT ![p].at = "fill"]
      /\ dirs \subseteq Resting \cup Parents[k]
  BY <1>1 DEF OpenFile, TreeInv, Stage
<1>3. size \in [Keys -> Nat \cup {Absent}] /\ size' \in [Keys -> Nat \cup {Absent}]
      /\ Files' = Files \cup {k} /\ littered' \subseteq Keys
      /\ Files' \cup littered' = Files \cup littered \cup {k}
  BY <1>2 DEF TreeInv, TreeTypeInv, Files, Absent
<1>4. /\ job'[p].at = "fill" /\ job'[p].key = k
      /\ \A q \in Procs : q # p => job'[q] = job[q]
      /\ job' \in [Procs -> [at : Jobs, key : Keys \cup {<< >>}, bytes : Nat, depth : Nat]]
  BY <1>1, <1>2 DEF TreeInv, TreeTypeInv, Jobs
<1>5. FilesReached' /\ dirs' \subseteq Resting'
  BY <1>2, <1>3 DEF TreeInv, FilesReached, Resting, ParentsOf
<1>6. TreeTypeInv' /\ Stage(p)'
  BY <1>3, <1>4, <1>5 DEF TreeTypeInv, Stage
<1>7. mu = p /\ \A q \in Procs : q # p => job[q].at = "none"
  BY <1>2, AloneAtWork DEF TreeInv
<1>8. QED
  BY <1>2, <1>4, <1>5, <1>6, <1>7, GoesOn

(* The directories made for the key are in excess from now on.             *)
LEMMA OpenFailsKeeps ==
  ASSUME TreeInv, NEW p \in Procs, OpenFails(p)
  PROVE  TreeInv'
<1>1. PICK k \in Keys : k = job[p].key
  BY DEF OpenFails, TreeInv, Stage
<1>2. /\ job[p].at = "mkdir" /\ dirs' = dirs /\ size' = size /\ Unlock(p)
      /\ littered' = littered \cup {k} /\ dirs \subseteq Resting \cup Parents[k]
  BY <1>1 DEF OpenFails, TreeInv, Stage
<1>3. /\ size' \in [Keys -> Nat \cup {Absent}] /\ littered' \subseteq Keys
      /\ Files' = Files /\ FilesReached'
  BY <1>2 DEF TreeInv, TreeTypeInv, FilesReached, ParentsOf, Files
<1>4. dirs' \subseteq Resting'
  BY <1>2, <1>3 DEF Resting, ParentsOf
<1>5. QED
  BY <1>2, <1>3, <1>4, Returns

LEMMA FillFileKeeps ==
  ASSUME TreeInv, NEW p \in Procs, FillFile(p)
  PROVE  TreeInv'
<1>1. PICK k \in Files, n \in Nat : k = job[p].key /\ n = job[p].bytes
  BY DEF FillFile, TreeInv, Stage, TreeTypeInv
<1>2. /\ job[p].at = "fill" /\ dirs' = dirs /\ Unlock(p) /\ dirs \subseteq Resting
      /\ size' = [size EXCEPT ![k] = n]
  BY <1>1 DEF FillFile, TreeInv, Stage
<1>3. /\ size' \in [Keys -> Nat \cup {Absent}] /\ Files' = Files
      /\ littered' = littered /\ littered \subseteq Keys
  BY <1>1, <1>2 DEF FillFile, TreeInv, TreeTypeInv, Files, Absent
<1>4. FilesReached' /\ dirs' \subseteq Resting'
  BY <1>2, <1>3 DEF TreeInv, FilesReached, Resting, ParentsOf
<1>5. QED
  BY <1>2, <1>3, <1>4, Returns

-----------------------------------------------------------------------------
LEMMA EraseKeeps ==
  ASSUME TreeInv, NEW p \in Procs, NEW k \in Keys, Erase(p, k)
  PROVE  TreeInv'
<1>1. CASE UNCHANGED treeVars
  BY <1>1 DEF treeVars, TreeInv, TreeTypeInv, MutexInv, FilesReached, Stage, Resting,
              ParentsOf, Files
<1>2. CASE k \in Files /\ ~UNCHANGED treeVars
  <2> DEFINE j == [at |-> "prune", key |-> k, bytes |-> 0, depth |-> Len(DirOf[k])]
  <2>1. /\ mu = Nobody /\ mu' = p /\ dirs' = dirs /\ k \in Files
        /\ size' = [size EXCEPT ![k] = Absent] /\ littered' = littered \ {k}
        /\ job' = [job EXCEPT ![p] = j]
    BY <1>2 DEF Erase, Lock
  <2>2. \A q \in Procs : job[q].at = "none"
    BY <2>1, OwnerAssumption DEF TreeInv, MutexInv
  <2>3. /\ j \in [at : Jobs, key : Keys \cup {<< >>}, bytes : Nat, depth : Nat]
        /\ j.at = "prune" /\ j.key = k /\ j.depth = Len(DirOf[k])
        /\ j.depth \in 0 .. Len(DirOf[k])
    BY DirOfType DEF Jobs
  <2> HIDE DEF j
  <2>4. size' \in [Keys -> Nat \cup {Absent}] /\ Files' = Files \ {k} /\ TreeTypeInv'
        /\ job'[p] = j /\ \A q \in Procs : q # p => job'[q] = job[q]
    BY <2>1, <2>3 DEF TreeInv, TreeTypeInv, Files
  <2>5. FilesReached' /\ dirs' \subseteq Resting' \cup Parents[k]
    BY <2>1, <2>4 DEF TreeInv, FilesReached, Resting, ParentsOf
  <2>6. Stage(p)'
    BY <2>3, <2>4, <2>5, ParentsAreUpTo DEF Stage
  <2>7. QED
    BY <2>1, <2>2, <2>3, <2>4, <2>5, <2>6, GoesOn
<1>3. QED
  BY <1>1, <1>2 DEF Erase

LEMMA PruneDirectoryKeeps ==
  ASSUME TreeInv, NEW p \in Procs, PruneDirectory(p)
  PROVE  TreeInv'
<1>1. PICK k \in Keys, n \in Nat :
        n \in 0 .. Len(DirOf[k]) /\ k = job[p].key /\ n = job[p].depth
  BY DirOfType DEF PruneDirectory, TreeInv, TreeTypeInv, Stage
<1>2. /\ job[p].at = "prune" /\ n > 0 /\ n \in Nat /\ mu' = mu
      /\ size' = size /\ littered' = littered
      /\ EmptyDir(Prefix(k, n)) /\ dirs' = dirs \ {Prefix(k, n)}
      /\ job' = [job EXCEPT ![p].depth = n - 1]
      /\ dirs \subseteq Resting \cup UpTo(k, n)
  BY <1>1, DirOfType DEF PruneDirectory, PrunedDir, Prefix, TreeInv, Stage
<1>3. n - 1 \in Nat /\ n - 1 \in 0 .. Len(DirOf[k]) /\ 0 .. n = 0 .. (n - 1) \cup {n}
  BY <1>1, <1>2, DirOfType
<1>4. /\ job'[p].at = "prune" /\ job'[p].key = k /\ job'[p].depth = n - 1
      /\ \A q \in Procs : q # p => job'[q] = job[q]
      /\ TreeTypeInv'
  BY <1>1, <1>2, <1>3 DEF TreeInv, TreeTypeInv
<1>5. \A f \in Files : Prefix(k, n) \notin Parents[f]
  BY <1>2, EmptyLeadsNowhere DEF TreeInv, FilesReached
<1>6. Files' = Files /\ FilesReached' /\ Resting' = Resting
  BY <1>2, <1>5 DEF TreeInv, FilesReached, Resting, ParentsOf, Files
<1>7. dirs' \subseteq Resting' \cup UpTo(k, n - 1)
  <2>1. UpTo(k, n) = UpTo(k, n - 1) \cup {Prefix(k, n)}
    BY <1>3 DEF UpTo
  <2>2. QED
    BY <1>2, <1>6, <2>1
<1>8. Stage(p)'
  BY <1>3, <1>4, <1>7 DEF Stage
<1>9. mu = p /\ \A q \in Procs : q # p => job[q].at = "none"
  BY <1>2, AloneAtWork DEF TreeInv
<1>10. QED
  BY <1>2, <1>4, <1>6, <1>8, <1>9, GoesOn

(* What keeps a directory from being pruned is another key's file, or what *)
(* is left of its directories: those further up are on its way, too.       *)
LEMMA OccupiedLeadsSomewhere ==
  ASSUME TreeInv, NEW k \in Keys, NEW n \in 0 .. Len(DirOf[k]),
         dirs \subseteq Resting \cup UpTo(k, n), ~EmptyDir(Prefix(k, n))
  PROVE  UpTo(k, n) \subseteq ParentsOf(Files \cup littered)
<1>1. SUFFICES \E f \in Files \cup littered : Prefix(k, n) \in Parents[f]
  BY FilesInv, WaysMeet DEF ParentsOf, TreeInv
<1>2. n \in Nat /\ Len(DirOf[k]) \in Nat /\ Len(Prefix(k, n)) = n /\ Prefix(k, 0) = Base
  BY DirOfType, PrefixProperties
<1>3. CASE FilesIn(Prefix(k, n)) # {}
  <2>1. PICK f \in Files : DirOf[f] = Prefix(k, n)
    BY <1>3 DEF FilesIn
  <2>2. f \in Keys /\ Len(DirOf[f]) \in 0 .. Len(DirOf[f])
    BY FilesInv, DirOfType DEF TreeInv
  <2>3. Prefix(f, Len(DirOf[f])) \in Parents[f] /\ Prefix(f, Len(DirOf[f])) = DirOf[f]
    BY <2>2, PrefixProperties, ParentsAreUpTo DEF UpTo
  <2>4. QED
    BY <2>1, <2>3
<1>4. CASE DirsIn(Prefix(k, n)) # {}
  <2>1. PICK d \in dirs : d # Base /\ SubSeq(d, 1, Len(d) - 1) = Prefix(k, n)
    BY <1>4 DEF DirsIn
  <2>2. CASE d \in UpTo(k, n)
    <3>1. PICK m \in 0 .. n : d = Prefix(k, m)
      BY <2>2 DEF UpTo
    <3>2. m # 0 /\ m \in Nat /\ m <= n /\ m \in 0 .. Len(DirOf[k])
          /\ m - 1 \in 0 .. m /\ m - 1 \in 0 .. Len(DirOf[k])
      BY <1>2, <2>1, <3>1
    <3>3. Len(d) = m
      BY <3>1, <3>2, PrefixProperties
    <3>4. SubSeq(d, 1, m - 1) = Prefix(k, m - 1)
      BY <3>1, <3>2, PrefixProperties
    <3>5. Len(Prefix(k, m - 1)) = m - 1
      BY <3>2, PrefixProperties
    <3>6. m - 1 = n
      BY <1>2, <2>1, <3>3, <3>4, <3>5
    <3>7. QED
      BY <3>2, <3>6, <1>2
  <2>3. CASE d \in ParentsOf(Files \cup littered)
    <3>1. PICK f \in Files \cup littered : d \in Parents[f]
      BY <2>3 DEF ParentsOf
    <3>2. f \in Keys /\ Len(DirOf[f]) \in Nat
      BY FilesInv, DirOfType DEF TreeInv
    <3>3. PICK m \in 0 .. Len(DirOf[f]) : d = Prefix(f, m)
      BY <3>1, <3>2, ParentsAreUpTo DEF UpTo
    <3>4. m # 0
      BY <2>1, <3>2, <3>3, PrefixProperties
    <3>5. m - 1 \in 0 .. m /\ m - 1 \in 0 .. Len(DirOf[f])
      BY <3>2, <3>4
    <3>6. Len(d) = m /\ SubSeq(d, 1, m - 1) = Prefix(f, m - 1)
      BY <3>2, <3>3, <3>5, PrefixProperties
    <3>7. Prefix(f, m - 1) \in Parents[f]
      BY <3>2, <3>5, ParentsAreUpTo DEF UpTo
    <3>8. QED
      BY <2>1, <3>1, <3>6, <3>7
  <2>4. QED
    BY <2>1, <2>2, <2>3 DEF Resting
<1>5. QED
  BY <1>3, <1>4 DEF EmptyDir

LEMMA PrunedAllKeeps ==
  ASSUME TreeInv, NEW p \in Procs, PrunedAll(p)
  PROVE  TreeInv'
<1>1. PICK k \in Keys, n \in Nat :
        n \in 0 .. Len(DirOf[k]) /\ k = job[p].key /\ n = job[p].depth
  BY DirOfType DEF PrunedAll, TreeInv, TreeTypeInv, Stage
<1>2. /\ job[p].at = "prune" /\ size' = size /\ dirs' = dirs /\ littered' = littered
      /\ Unlock(p)
      /\ n = 0 \/ ~EmptyDir(Prefix(k, n))
      /\ dirs \subseteq Resting \cup UpTo(k, n)
  BY <1>1 DEF PrunedAll, PrunedDir, Prefix, TreeInv, Stage
<1>3. UpTo(k, n) \subseteq Resting
  <2>1. CASE n = 0
    <3>1. Prefix(k, 0) = Base
      BY DirOfType, PrefixProperties
    <3>2. \A i \in 0 .. n : i = 0
      BY <2>1
    <3>3. QED
      BY <3>1, <3>2 DEF UpTo, Resting
  <2>2. CASE ~EmptyDir(Prefix(k, n))
    BY <1>1, <1>2, <2>2, OccupiedLeadsSomewhere DEF Resting
  <2>3. QED
    BY <1>2, <2>1, <2>2
<1>4. /\ size' \in [Keys -> Nat \cup {Absent}] /\ littered' \subseteq Keys
      /\ FilesReached' /\ dirs' \subseteq Resting'
  BY <1>2, <1>3 DEF TreeInv, TreeTypeInv, FilesReached, Resting, ParentsOf, Files
<1>5. QED
  BY <1>2, <1>4, Returns

LEMMA PruneStopsKeeps ==
  ASSUME TreeInv, NEW p \in Procs, PruneStops(p)
  PROVE  TreeInv'
<1>1. PICK k \in Keys, n \in Nat :
        n \in 0 .. Len(DirOf[k]) /\ k = job[p].key /\ n = job[p].depth
  BY DirOfType DEF PruneStops, TreeInv, TreeTypeInv, Stage
<1>2. /\ job[p].at = "prune" /\ size' = size /\ dirs' = dirs /\ Unlock(p)
      /\ littered' = littered \cup {k} /\ dirs \subseteq Resting \cup UpTo(k, n)
  BY <1>1 DEF PruneStops, TreeInv, Stage
<1>3. UpTo(k, n) \subseteq Parents[k]
  BY <1>1, ParentsAreUpTo, DirOfType DEF UpTo
<1>4. /\ size' \in [Keys -> Nat \cup {Absent}] /\ littered' \subseteq Keys
      /\ Files' = Files /\ FilesReached'
  BY <1>2 DEF TreeInv, TreeTypeInv, FilesReached, ParentsOf, Files
<1>5. dirs' \subseteq Resting'
  BY <1>2, <1>3, <1>4 DEF Resting, ParentsOf
<1>6. QED
  BY <1>2, <1>4, <1>5, Returns

-----------------------------------------------------------------------------
LEMMA EraseAllKeeps ==
  ASSUME TreeInv, NEW p \in Procs, EraseAll(p)
  PROVE  TreeInv'
<1>1. /\ mu = Nobody /\ mu' = p /\ dirs' = dirs /\ size' = size /\ littered' = littered
      /\ job' = [job EXCEPT ![p].at = "removeAll"]
  BY DEF EraseAll, Lock
<1>2. \A q \in Procs : job[q].at = "none"
  BY <1>1, OwnerAssumption DEF TreeInv, MutexInv
<1>3. TreeTypeInv' /\ job'[p].at = "removeAll" /\ \A q \in Procs : q # p => job'[q] = job[q]
  BY <1>1 DEF TreeInv, TreeTypeInv, Jobs
<1>4. FilesReached' /\ Stage(p)'
  BY <1>1, <1>3 DEF TreeInv, FilesReached, ParentsOf, Files, Stage
<1>5. QED
  BY <1>1, <1>2, <1>3, <1>4, GoesOn

LEMMA RemoveLeafKeeps ==
  ASSUME TreeInv, NEW p \in Procs, RemoveLeaf(p)
  PROVE  TreeInv'
<1>1. job[p].at = "removeAll" /\ job' = job /\ mu' = mu /\ littered' = littered
  BY DEF RemoveLeaf
<1>2. mu = p /\ \A q \in Procs : q # p => job[q].at = "none"
  BY <1>1, AloneAtWork DEF TreeInv
<1>3. Stage(p)'
  BY <1>1 DEF Stage
<1>4. CASE \E k \in Files : size' = [size EXCEPT ![k] = Absent] /\ UNCHANGED dirs
  <2>1. size' \in [Keys -> Nat \cup {Absent}] /\ Files' \subseteq Files
    BY <1>4 DEF TreeInv, TreeTypeInv, Files
  <2>2. TreeTypeInv' /\ FilesReached'
    BY <1>1, <1>4, <2>1 DEF TreeInv, TreeTypeInv, FilesReached, ParentsOf
  <2>3. QED
    BY <1>1, <1>2, <1>3, <2>2, GoesOn
<1>5. CASE \E d \in dirs : EmptyDir(d) /\ dirs' = dirs \ {d} /\ UNCHANGED size
  <2>1. PICK d \in dirs : EmptyDir(d) /\ dirs' = dirs \ {d} /\ UNCHANGED size
    BY <1>5
  <2>2. \A f \in Files : d \notin Parents[f]
    BY <2>1, EmptyLeadsNowhere DEF TreeInv, FilesReached
  <2>3. TreeTypeInv' /\ FilesReached'
    BY <1>1, <2>1, <2>2 DEF TreeInv, TreeTypeInv, FilesReached, ParentsOf, Files
  <2>4. QED
    BY <1>1, <1>2, <1>3, <2>3, GoesOn
<1>6. QED
  BY <1>4, <1>5 DEF RemoveLeaf

LEMMA RemovedAllKeeps ==
  ASSUME TreeInv, NEW p \in Procs, RemovedAll(p)
  PROVE  TreeInv'
<1>1. job[p].at = "removeAll" /\ dirs = {} /\ Unlock(p) /\ dirs' = dirs /\ size' = size
  BY DEF RemovedAll
<1>2. /\ size' \in [Keys -> Nat \cup {Absent}] /\ littered' \subseteq Keys
      /\ FilesReached' /\ dirs' \subseteq Resting'
  BY <1>1 DEF RemovedAll, TreeInv, TreeTypeInv, FilesReached, Resting, ParentsOf, Files
<1>3. QED
  BY <1>1, <1>2, Returns

-----------------------------------------------------------------------------
LEMMA InitTreeKeeps == InitTree => TreeInv
<1> SUFFICES ASSUME InitTree PROVE TreeInv
  OBVIOUS
<1>1. TreeTypeInv /\ \A p \in Procs : job[p].at = "none"
  BY DEF InitTree, TreeTypeInv, NoJob, Jobs, Absent
<1>2. MutexInv /\ \A p \in Procs : Stage(p)
  BY <1>1, OwnerAssumption DEF InitTree, MutexInv, Stage
<1>3. FilesReached /\ dirs \subseteq Resting
  <2>1. ParentsOf(Files) \subseteq ParentsOf(Files \cup littered)
    BY DEF ParentsOf
  <2>2. \/ dirs = ParentsOf(Files \cup littered)
        \/ dirs = ParentsOf(Files \cup littered) \cup {Base}
    BY DEF InitTree
  <2>3. QED
    BY <2>1, <2>2 DEF FilesReached, Resting
<1>4. QED
  BY <1>1, <1>2, <1>3 DEF TreeInv

LEMMA ChangeTreeKeeps ==
  ASSUME TreeInv, NEW p \in Procs, ChangeTree(p)
  PROVE  TreeInv'
BY MakeDirectoryKeeps, OpenFileKeeps, OpenFailsKeeps, FillFileKeeps, PruneDirectoryKeeps,
   PrunedAllKeeps, PruneStopsKeeps, RemoveLeafKeeps, RemovedAllKeeps DEF ChangeTree

LEMMA TreeUnchanged == TreeInv /\ UNCHANGED treeVars => TreeInv'
BY DEF treeVars, TreeInv, TreeTypeInv, MutexInv, FilesReached, Stage, Resting, ParentsOf, Files

LEMMA DirectoriesServed == TreeInv => DirectoriesServeFiles
BY DEF TreeInv, FilesReached, Resting, DirectoriesServeFiles

-----------------------------------------------------------------------------
Request == [at : Places, pointer : Pointers \cup {NoPointer},
            method : Methods \cup {"GET"}, path : Paths \cup {Root}]

(* The places of a request that the map has nothing for.                   *)
Before == {"idle", "serve", "vars"}

(* What the router finds in the path of a request.                         *)
Found(r) == [vars |-> Vars(r.method, r.path), route |-> Route(r.method, r.path)]

RequestsInv ==
  /\ req \in [Procs -> Request]
  /\ \A p \in Procs : req[p].at # "idle" => req[p].pointer \in Pointers
  /\ \A p, q \in Procs :
       p # q /\ req[p].at # "idle" /\ req[q].at # "idle" => req[p].pointer # req[q].pointer

EntriesInv ==
  /\ DOMAIN data = datat
  /\ \A r \in datat : \E p \in Procs : req[p].pointer = r /\ req[p].at \notin Before

ValuesInv ==
  \A p \in Procs :
    /\ req[p].at = "route" =>
         Stored(req[p].pointer) = [Found(req[p]) EXCEPT !.route = "none"]
    /\ req[p].at \in {"handler", "tasks"} => Stored(req[p].pointer) = Found(req[p])

ContextInv == RequestsInv /\ EntriesInv /\ ValuesInv

-----------------------------------------------------------------------------
(* A request on its way through the handler, the map left alone.           *)
Moves(p, from, to) ==
  /\ req[p].at = from
  /\ req' = [req EXCEPT ![p].at = to]
  /\ UNCHANGED <<data, datat>>

LEMMA MoveKeeps ==
  ASSUME ContextInv, NEW p \in Procs, NEW from, NEW to, Moves(p, from, to),
         <<from, to>> \in {<<"serve", "vars">>, <<"serve", "clear">>, <<"handler", "clear">>,
                           <<"handler", "tasks">>, <<"tasks", "clear">>}
  PROVE  ContextInv'
<1>1. /\ from \in {"serve", "handler", "tasks"} /\ to \in {"vars", "tasks", "clear"}
      /\ to = "vars" => from = "serve"
      /\ to = "tasks" => from = "handler"
      /\ from \in {"handler", "tasks"} => to \in {"tasks", "clear"}
  OBVIOUS
<1>2. req \in [Procs -> Request] /\ req[p].at = from
  BY DEF ContextInv, RequestsInv, Moves
<1>3. req' \in [Procs -> Request]
  BY <1>1, <1>2 DEF Moves, Request, Places
<1>4. \A q \in Procs : /\ req'[q].pointer = req[q].pointer
                       /\ Found(req'[q]) = Found(req[q])
                       /\ req'[q].at = IF q = p THEN to ELSE req[q].at
  <2>1. \A q \in Procs : q # p => req'[q] = req[q]
    BY <1>2 DEF Moves
  <2>2. req'[p] = [req[p] EXCEPT !.at = to] /\ req[p] \in Request
    BY <1>2 DEF Moves
  <2>3. /\ req'[p].pointer = req[p].pointer /\ req'[p].method = req[p].method
        /\ req'[p].path = req[p].path /\ req'[p].at = to
    BY <2>2 DEF Request
  <2>4. QED
    BY <2>1, <2>3 DEF Found
<1>5. RequestsInv'
  BY <1>1, <1>2, <1>3, <1>4 DEF ContextInv, RequestsInv
<1>6. EntriesInv'
  <2>1. DOMAIN data' = datat' /\ datat' = datat
    BY DEF ContextInv, EntriesInv, Moves
  <2>2. ASSUME NEW r \in datat
        PROVE  \E q \in Procs : req'[q].pointer = r /\ req'[q].at \notin Before
    <3>1. PICK q \in Procs : req[q].pointer = r /\ req[q].at \notin Before
      BY DEF ContextInv, EntriesInv
    <3>2. req'[q].at \notin Before
      BY <1>1, <1>2, <1>4, <3>1 DEF Before
    <3>3. QED
      BY <1>4, <3>1, <3>2
  <2>3. QED
    BY <2>1, <2>2 DEF EntriesInv
<1>7. ValuesInv'
  <2>1. \A r : Stored(r)' = Stored(r)
    BY DEF Stored, Moves
  <2>2. ASSUME NEW q \in Procs
        PROVE  /\ req'[q].at = "route" =>
                    Stored(req[q].pointer) = [Found(req[q]) EXCEPT !.route = "none"]
               /\ req'[q].at \in {"handler", "tasks"} => Stored(req[q].pointer) = Found(req[q])
    BY <1>1, <1>2, <1>4 DEF ContextInv, ValuesInv
  <2>3. QED
    BY <1>4, <2>1, <2>2 DEF ValuesInv, Stored
<1>8. QED
  BY <1>5, <1>6, <1>7 DEF ContextInv

LEMMA ReceiveKeeps ==
  ASSUME ContextInv, NEW p \in Procs, NEW r \in Pointers, NEW method \in Methods,
         NEW path \in Paths, Receive(p, r, method, path)
  PROVE  ContextInv'
<1>1. req \in [Procs -> Request] /\ req[p].at = "idle" /\ r \notin InUse
  BY DEF ContextInv, RequestsInv, Receive
<1>2. /\ req' = [req EXCEPT ![p] = [at |-> "serve", pointer |-> r,
                                    method |-> method, path |-> path]]
      /\ data' = data /\ datat' = datat
  BY DEF Receive
<1>3. \A q \in Procs : q # p => req'[q] = req[q]
  BY <1>1, <1>2
<1>4. req'[p].at = "serve" /\ req'[p].pointer = r /\ req' \in [Procs -> Request]
  BY <1>1, <1>2 DEF Request, Places
<1>5. RequestsInv'
  <2>1. \A q \in Procs : req[q].pointer # r
    BY <1>1 DEF InUse
  <2>2. QED
    BY <1>3, <1>4, <2>1 DEF ContextInv, RequestsInv
<1>6. EntriesInv'
  <2>1. ASSUME NEW s \in datat
        PROVE  \E q \in Procs : req'[q].pointer = s /\ req'[q].at \notin Before
    <3>1. PICK q \in Procs : req[q].pointer = s /\ req[q].at \notin Before
      BY DEF ContextInv, EntriesInv
    <3>2. q # p
      BY <1>1, <3>1 DEF Before
    <3>3. QED
      BY <1>3, <3>1, <3>2
  <2>2. QED
    BY <1>2, <2>1 DEF ContextInv, EntriesInv
<1>7. ValuesInv'
  <2>1. \A s : Stored(s)' = Stored(s)
    BY <1>2 DEF Stored
  <2>2. QED
    BY <1>3, <1>4, <2>1 DEF ContextInv, ValuesInv, Stored
<1>8. QED
  BY <1>5, <1>6, <1>7 DEF ContextInv

LEMMA EndKeeps ==
  ASSUME ContextInv, NEW p \in Procs, req' = [req EXCEPT ![p] = NoRequest],
         \/ req[p].at = "serve" /\ UNCHANGED <<data, datat>>
         \/ ClearContext(req[p].pointer) /\ req[p].at = "clear"
  PROVE  ContextInv'
<1>1. req \in [Procs -> Request] /\ req[p].at # "idle"
  BY DEF ContextInv, RequestsInv
<1>2. \A q \in Procs : q # p => req'[q] = req[q]
  BY <1>1
<1>3. req'[p].at = "idle" /\ req' \in [Procs -> Request]
  BY <1>1 DEF Request, Places, NoRequest
<1>4. RequestsInv'
  BY <1>2, <1>3 DEF ContextInv, RequestsInv
<1>5. /\ DOMAIN data' = datat' /\ datat' \subseteq datat
      /\ req[p].at = "clear" => req[p].pointer \notin datat'
  BY DEF ContextInv, EntriesInv, ClearContext
<1>6. ASSUME NEW q \in Procs, q # p, req[q].at # "idle"
      PROVE  Stored(req[q].pointer)' = Stored(req[q].pointer)
  <2>1. req[q].pointer # req[p].pointer
    BY <1>1, <1>6 DEF ContextInv, RequestsInv
  <2>2. req'[q].pointer = req[q].pointer
    BY <1>2, <1>6
  <2>3. QED
    BY <2>1, <2>2 DEF Stored, ClearContext
<1>7. EntriesInv'
  <2>1. ASSUME NEW r \in datat'
        PROVE  \E q \in Procs : req'[q].pointer = r /\ req'[q].at \notin Before
    <3>1. PICK q \in Procs : req[q].pointer = r /\ req[q].at \notin Before
      BY <1>5 DEF ContextInv, EntriesInv
    <3>2. q # p
      BY <1>5, <3>1 DEF Before
    <3>3. QED
      BY <1>2, <3>1, <3>2
  <2>2. QED
    BY <1>5, <2>1 DEF EntriesInv
<1>8. ValuesInv'
  <2>1. ASSUME NEW q \in Procs, req'[q].at \in {"route", "handler", "tasks"}
        PROVE  q # p /\ req'[q] = req[q] /\ Stored(req[q].pointer)' = Stored(req[q].pointer)
    BY <1>2, <1>3, <1>6, <2>1
  <2>2. QED
    BY <2>1 DEF ContextInv, ValuesInv
<1>9. QED
  BY <1>4, <1>7, <1>8 DEF ContextInv

LEMMA SetVarsKeeps ==
  ASSUME ContextInv, NEW p \in Procs, SetVars(p)
  PROVE  ContextInv'
<1> DEFINE r == req[p].pointer
<1>1. req \in [Procs -> Request] /\ req[p].at = "vars"
  BY DEF ContextInv, RequestsInv, SetVars
<1>2. r \notin DOMAIN data
  BY <1>1 DEF ContextInv, RequestsInv, EntriesInv, Before
<1>3. /\ \A q \in Procs : q # p => req'[q] = req[q]
      /\ req'[p] = [req[p] EXCEPT !.at = "route"]
      /\ req' \in [Procs -> Request]
  BY <1>1 DEF SetVars, ToPlace, Request, Places
<1>4. /\ req'[p].at = "route" /\ req'[p].pointer = req[p].pointer
      /\ Found(req'[p]) = Found(req[p])
  BY <1>1, <1>3 DEF Request, Found
<1>5. RequestsInv'
  <2>1. \A q \in Procs : /\ req'[q].pointer = req[q].pointer
                         /\ req'[q].at = "idle" <=> req[q].at = "idle"
    BY <1>1, <1>3, <1>4
  <2>2. QED
    BY <1>3, <2>1 DEF ContextInv, RequestsInv
<1>6. /\ DOMAIN data' = datat' /\ datat' = datat \cup {r}
      /\ data'[r] = [NoContext EXCEPT !.vars = Vars(req[p].method, req[p].path)]
      /\ \A s \in datat : data'[s] = data[s]
  BY <1>2 DEF SetVars, SetContext, Stored, ContextInv, EntriesInv
<1>7. EntriesInv'
  <2>1. ASSUME NEW s \in datat'
        PROVE  \E q \in Procs : req'[q].pointer = s /\ req'[q].at \notin Before
    <3>1. CASE s = r
      BY <1>4, <3>1 DEF Before
    <3>2. CASE s \in datat
      <4>1. PICK q \in Procs : req[q].pointer = s /\ req[q].at \notin Before
        BY <3>2 DEF ContextInv, EntriesInv
      <4>2. q # p
        BY <1>1, <4>1 DEF Before
      <4>3. QED
        BY <1>3, <4>1, <4>2
    <3>3. QED
      BY <1>6, <3>1, <3>2
  <2>2. QED
    BY <1>6, <2>1 DEF EntriesInv
<1>8. ValuesInv'
  <2>1. Stored(r)' = [Found(req[p]) EXCEPT !.route = "none"]
    <3>1. r' = r
      BY <1>4
    <3>2. Stored(r)' = [NoContext EXCEPT !.vars = Vars(req[p].method, req[p].path)]
      BY <1>6, <3>1 DEF Stored
    <3>3. QED
      BY <3>2 DEF NoContext, Found
  <2>2. ASSUME NEW q \in Procs, q # p, req[q].at # "idle"
        PROVE  Stored(req[q].pointer)' = Stored(req[q].pointer)
    <3>1. req[q].pointer # r
      BY <1>1, <2>2 DEF ContextInv, RequestsInv
    <3>2. req'[q].pointer = req[q].pointer
      BY <1>3, <2>2
    <3>3. QED
      BY <1>6, <3>1, <3>2 DEF Stored, ContextInv, EntriesInv
  <2>3. QED
    BY <1>3, <1>4, <2>1, <2>2 DEF ContextInv, ValuesInv
<1>9. QED
  BY <1>5, <1>7, <1>8 DEF ContextInv

LEMMA SetCurrentRouteKeeps ==
  ASSUME ContextInv, NEW p \in Procs, SetCurrentRoute(p)
  PROVE  ContextInv'
<1> DEFINE r == req[p].pointer
<1>1. req \in [Procs -> Request] /\ req[p].at = "route"
  BY DEF ContextInv, RequestsInv, SetCurrentRoute
<1>2. Stored(r) = [Found(req[p]) EXCEPT !.route = "none"]
  BY <1>1 DEF ContextInv, ValuesInv
<1>3. /\ \A q \in Procs : q # p => req'[q] = req[q]
      /\ req'[p] = [req[p] EXCEPT !.at = "handler"]
      /\ req' \in [Procs -> Request]
  BY <1>1 DEF SetCurrentRoute, ToPlace, Request, Places
<1>4. /\ req'[p].at = "handler" /\ req'[p].pointer = req[p].pointer
      /\ Found(req'[p]) = Found(req[p])
  BY <1>1, <1>3 DEF Request, Found
<1>5. RequestsInv'
  <2>1. \A q \in Procs : /\ req'[q].pointer = req[q].pointer
                         /\ req'[q].at = "idle" <=> req[q].at = "idle"
    BY <1>1, <1>3, <1>4
  <2>2. QED
    BY <1>3, <2>1 DEF ContextInv, RequestsInv
<1>6. /\ DOMAIN data' = datat' /\ datat' = datat \cup {r}
      /\ data'[r] = [Stored(r) EXCEPT !.route = Route(req[p].method, req[p].path)]
      /\ \A s \in datat : s # r => data'[s] = data[s]
  BY DEF SetCurrentRoute, SetContext, ContextInv, EntriesInv, Routed
<1>7. EntriesInv'
  <2>1. ASSUME NEW s \in datat'
        PROVE  \E q \in Procs : req'[q].pointer = s /\ req'[q].at \notin Before
    <3>1. CASE s = r
      BY <1>4, <3>1 DEF Before
    <3>2. CASE s \in datat /\ s # r
      <4>1. PICK q \in Procs : req[q].pointer = s /\ req[q].at \notin Before
        BY <3>2 DEF ContextInv, EntriesInv
      <4>2. q # p
        BY <3>2, <4>1
      <4>3. QED
        BY <1>3, <4>1, <4>2
    <3>3. QED
      BY <1>6, <3>1, <3>2
  <2>2. QED
    BY <1>6, <2>1 DEF EntriesInv
<1>8. ValuesInv'
  <2>1. Stored(r)' = Found(req[p])
    <3>1. r' = r
      BY <1>4
    <3>2. Stored(r)' = [Stored(r) EXCEPT !.route = Route(req[p].method, req[p].path)]
      BY <1>6, <3>1 DEF Stored
    <3>3. QED
      BY <1>2, <3>2 DEF Found
  <2>2. ASSUME NEW q \in Procs, q # p, req[q].at # "idle"
        PROVE  Stored(req[q].pointer)' = Stored(req[q].pointer)
    <3>1. req[q].pointer # r
      BY <1>1, <2>2 DEF ContextInv, RequestsInv
    <3>2. req'[q].pointer = req[q].pointer
      BY <1>3, <2>2
    <3>3. QED
      BY <1>6, <3>1, <3>2 DEF Stored, ContextInv, EntriesInv
  <2>3. QED
    BY <1>3, <1>4, <2>1, <2>2 DEF ContextInv, ValuesInv
<1>9. QED
  BY <1>5, <1>7, <1>8 DEF ContextInv

LEMMA ContextStep ==
  ASSUME ContextInv, [ServerNext]_allVars
  PROVE  ContextInv'
<1>1. CASE UNCHANGED serverVars
  BY <1>1 DEF serverVars, ContextInv, RequestsInv, EntriesInv, ValuesInv, Stored
<1>2. ASSUME NEW p \in Procs, Arrive(p)
      PROVE  ContextInv'
  BY <1>2, ReceiveKeeps DEF Arrive
<1>3. ASSUME NEW p \in Procs, Serve(p)
      PROVE  ContextInv'
  <2>1. CASE Redirect(p)
    BY <2>1, EndKeeps DEF Redirect
  <2>2. CASE Match(p)
    <3>1. Moves(p, "serve", "vars") \/ Moves(p, "serve", "clear")
      BY <2>2 DEF Match, Moves, ToPlace, AnswerAs
    <3>2. QED
      BY <3>1, MoveKeeps
  <2>3. CASE SetVars(p)
    BY <2>3, SetVarsKeeps
  <2>4. CASE SetCurrentRoute(p)
    BY <2>4, SetCurrentRouteKeeps
  <2>5. CASE Resizing(p) \/ OtherHandler(p)
    <3>1. Moves(p, "handler", "clear") \/ Moves(p, "handler", "tasks")
      BY <2>5 DEF Resizing, OtherHandler, Moves, ToPlace, AnswerAs
    <3>2. QED
      BY <3>1, MoveKeeps
  <2>6. CASE Answer(p)
    <3>1. Moves(p, "tasks", "clear")
      BY <2>6 DEF Answer, Moves, ToPlace
    <3>2. QED
      BY <3>1, MoveKeeps
  <2>7. CASE Clear(p)
    BY <2>7, EndKeeps DEF Clear
  <2>8. QED
    BY <1>3, <2>1, <2>2, <2>3, <2>4, <2>5, <2>6, <2>7 DEF Serve
<1>4. QED
  BY <1>1, <1>2, <1>3 DEF ServerNext, Work, allVars

(***************************************************************************)
(* The router's global map follows the requests, for any number of them    *)
(* and however seldom the memory for them is a new one.                    *)
(***************************************************************************)
THEOREM ContextAlwaysFollowsRequests == ServerSpec => []ContextFollowsRequests
<1>1. ServerInit => ContextInv
  BY DEF ServerInit, ContextInv, RequestsInv, EntriesInv, ValuesInv, NoRequest, Request, Places
<1>2. ContextInv /\ [ServerNext]_allVars => ContextInv'
  BY ContextStep
<1>3. ContextInv => ContextFollowsRequests
  <2> SUFFICES ASSUME ContextInv PROVE ContextFollowsRequests
    OBVIOUS
  <2>1. \A r \in datat : \E p \in Procs : req[p].pointer = r
    BY DEF ContextInv, EntriesInv
  <2>2. QED
    BY <2>1 DEF ContextInv, EntriesInv, ValuesInv, ContextFollowsRequests, Found, Routed
<1>4. QED
  BY <1>1, <1>2, <1>3, PTL DEF ServerSpec

-----------------------------------------------------------------------------
(* A task that counts has a counter, and one of the store has a key.       *)
AnyTask == [do : {"count", "write", "erase", "eraseAll", "dirSize"},
          counter : Counters \cup {"none"}, key : Keys \cup {<< >>}, bytes : Nat]
ValidTask ==
  {task \in AnyTask :
     /\ task.do = "count" => task.counter \in Counters
     /\ task.do \in {"write", "erase"} => task.key \in Keys}

LEMMA TasksAreValid ==
  /\ << >> \in Seq(ValidTask) /\ <<DirSize>> \in Seq(ValidTask)
  /\ Resizings \subseteq Seq(ValidTask) /\ DeleteAll \subseteq Seq(ValidTask)
<1>1. /\ \A c \in Counters : Count(c) \in ValidTask
      /\ \A k \in Keys, n \in Nat : Write(k, n) \in ValidTask
      /\ \A k \in Keys : Remove(k) \in ValidTask
      /\ RemoveAll \in ValidTask /\ DirSize \in ValidTask
  BY DEF ValidTask, AnyTask, Count, Write, Remove, RemoveAll, DirSize
<1>2. OriginalKey \in Keys /\ ThumbnailKey \in Keys /\ 0 \in Nat /\ 1 \in Nat
  BY ServerAssumption
<1>3. \A c \in {"hitLru", "missLru", "hitFileCache", "missFileCache"} : Count(c) \in ValidTask
  BY <1>1 DEF Counters
<1>4. /\ << >> \in Seq(ValidTask)
      /\ \A a \in ValidTask : <<a>> \in Seq(ValidTask)
      /\ \A a, b \in ValidTask : <<a, b>> \in Seq(ValidTask)
      /\ \A a, b, c \in ValidTask : <<a, b, c>> \in Seq(ValidTask)
  OBVIOUS
<1>5. ASSUME NEW first \in SUBSET Seq(ValidTask), NEW second \in SUBSET Seq(ValidTask)
      PROVE  Then(first, second) \subseteq Seq(ValidTask)
  <2>1. ASSUME NEW a \in first, NEW b \in second
        PROVE  a \o b \in Seq(ValidTask)
    BY ConcatProperties
  <2>2. ASSUME NEW tasks \in Then(first, second)
        PROVE  tasks \in Seq(ValidTask)
    <3>1. PICK a \in first : tasks \in {a \o b : b \in second}
      BY DEF Then
    <3>2. PICK b \in second : tasks = a \o b
      BY <3>1
    <3>3. QED
      BY <2>1, <3>2
  <2>3. QED
    BY <2>2
<1>6. /\ \A k \in Keys : Set(k, 1) \subseteq Seq(ValidTask)
      /\ \A k \in Keys : Delete(k) \subseteq Seq(ValidTask)
      /\ Hit \subseteq Seq(ValidTask) /\ DeleteAll \subseteq Seq(ValidTask)
  BY <1>1, <1>2, <1>3, <1>4 DEF Set, Delete, Hit, DeleteAll
<1>7. \A k \in Keys : Get(k) \subseteq Seq(ValidTask)
  <2>1. ASSUME NEW k \in Keys, NEW hit \in Hit
        PROVE  hit \o <<Remove(k)>> \in Seq(ValidTask)
    BY <1>1, <1>4, <1>6, ConcatProperties
  <2>2. QED
    BY <1>6, <2>1 DEF Get
<1>8. StoreThumbnail \subseteq Seq(ValidTask)
  BY <1>2, <1>4, <1>6 DEF StoreThumbnail
<1>9. /\ Undo \subseteq Seq(ValidTask) /\ StoreBoth \subseteq Seq(ValidTask)
      /\ FromOriginal \subseteq Seq(ValidTask)
  BY <1>2, <1>5, <1>6, <1>7, <1>8 DEF Undo, StoreBoth, FromOriginal
<1>10. QED
  BY <1>1, <1>2, <1>4, <1>6, <1>7, <1>9 DEF Resizings

-----------------------------------------------------------------------------
(* Who has tasks is at "tasks", who walks has come to the task of walking. *)
TasksInv ==
  /\ DOMAIN req = Procs /\ DOMAIN walk = Procs
  /\ todo \in [Procs -> Seq(ValidTask)]
  /\ \A p \in Procs : req[p].at # "tasks" => todo[p] = << >>
  /\ \A p \in Procs : walk[p].at # "none" => todo[p] # << >> /\ Head(todo[p]).do = "dirSize"

(* A goroutine is in the middle of incrementing a counter.                 *)
Increments(p, c) ==
  /\ register[p] # NotRead
  /\ todo[p] # << >> /\ Head(todo[p]).do = "count" /\ Head(todo[p]).counter = c

CountersInv ==
  /\ stats \in [Counters -> Nat] /\ counted \in [Counters -> Nat]
  /\ register \in [Procs -> Nat \cup {NotRead}]
  /\ \A c \in Counters : stats[c] <= counted[c]
  /\ \A p \in Procs : register[p] # NotRead =>
       \E c \in Counters : Increments(p, c) /\ register[p] < counted[c]
  /\ \A c \in Counters : counted[c] > 0 =>
       stats[c] > 0 \/ \E p \in Procs : Increments(p, c)

(* A step that counts nothing: the tasks of one goroutine change, one that *)
(* is not in the middle of an increment.                                   *)
CountsNothing(p) ==
  /\ UNCHANGED <<stats, counted, register>>
  /\ \/ todo' = todo
     \/ register[p] = NotRead /\ \A q \in Procs : q # p => todo'[q] = todo[q]

LEMMA CountsNothingKeeps ==
  ASSUME CountersInv, NEW p \in Procs, CountsNothing(p)
  PROVE  CountersInv'
<1>1. /\ stats' = stats /\ counted' = counted /\ register' = register
      /\ \A q \in Procs : register[q] # NotRead => todo'[q] = todo[q]
  BY DEF CountsNothing
<1>2. \A q \in Procs, c \in Counters : Increments(q, c) => Increments(q, c)'
  BY <1>1 DEF Increments
<1>3. QED
  BY <1>1, <1>2 DEF CountersInv

(* Whoever goes on to another task, or to another place, without counting. *)
LEMMA TasksChange ==
  ASSUME TasksInv, CountersInv, NEW p \in Procs, NEW tasks \in Seq(ValidTask),
         todo' = [todo EXCEPT ![p] = tasks],
         todo[p] = << >> \/ Head(todo[p]).do # "count",
         UNCHANGED <<stats, counted, register>>
  PROVE  CountersInv' /\ todo' \in [Procs -> Seq(ValidTask)]
<1>1. register[p] = NotRead
  BY DEF CountersInv, Increments
<1>2. CountsNothing(p)
  BY <1>1 DEF CountsNothing, TasksInv
<1>3. QED
  BY <1>2, CountsNothingKeeps DEF TasksInv

(* The tasks of p have changed, and so may have its place and its walk.    *)
LEMMA TasksInvAfter ==
  ASSUME TasksInv, NEW p \in Procs,
         DOMAIN req' = Procs, DOMAIN walk' = Procs, todo' \in [Procs -> Seq(ValidTask)],
         \A q \in Procs : q # p => req'[q] = req[q] /\ walk'[q] = walk[q] /\ todo'[q] = todo[q],
         req'[p].at # "tasks" => todo'[p] = << >>,
         walk'[p].at # "none" => todo'[p] # << >> /\ Head(todo'[p]).do = "dirSize"
  PROVE  TasksInv'
BY DEF TasksInv

LEMMA ReadCounterKeeps ==
  ASSUME TasksInv, CountersInv, NEW p \in Procs, ReadCounter(p)
  PROVE  CountersInv'
<1>1. /\ todo[p] # << >> /\ Head(todo[p]).do = "count" /\ register[p] = NotRead
      /\ todo' = todo /\ stats' = stats
  BY DEF ReadCounter, Begins
<1>2. PICK c \in Counters :
        /\ Head(todo[p]).counter = c
        /\ register' = [register EXCEPT ![p] = stats[c]]
        /\ counted' = [counted EXCEPT ![c] = @ + 1]
  <2>1. Head(todo[p]) \in ValidTask
    BY <1>1, HeadTailProperties DEF TasksInv
  <2>2. Head(todo[p]).counter \in Counters
    BY <1>1, <2>1 DEF ValidTask
  <2>3. QED
    BY <2>2 DEF ReadCounter
<1>3. /\ stats \in [Counters -> Nat] /\ counted \in [Counters -> Nat]
      /\ register \in [Procs -> Nat \cup {NotRead}]
      /\ \A d \in Counters : stats[d] <= counted[d]
  BY DEF CountersInv
<1>4. /\ counted' \in [Counters -> Nat]
      /\ \A d \in Counters : counted'[d] = IF d = c THEN counted[d] + 1 ELSE counted[d]
  BY <1>1, <1>2, <1>3
<1>5. /\ register' \in [Procs -> Nat \cup {NotRead}]
      /\ register'[p] = stats[c] /\ stats[c] # NotRead
      /\ \A q \in Procs : q # p => register'[q] = register[q]
  BY <1>1, <1>2, <1>3 DEF NotRead
<1>6. Increments(p, c)'
  BY <1>1, <1>2, <1>5 DEF Increments
<1>7. \A q \in Procs, d \in Counters : Increments(q, d) => q # p /\ Increments(q, d)'
  BY <1>1, <1>5 DEF Increments
<1>8. \A d \in Counters : stats'[d] <= counted'[d]
  BY <1>1, <1>3, <1>4
<1>9. ASSUME NEW q \in Procs, register'[q] # NotRead
      PROVE  \E d \in Counters : Increments(q, d)' /\ register'[q] < counted'[d]
  <2>1. CASE q = p
    <3>1. stats[c] < counted[c] + 1
      BY <1>2, <1>3
    <3>2. QED
      BY <1>2, <1>4, <1>5, <1>6, <2>1, <3>1
  <2>2. CASE q # p
    <3>1. PICK d \in Counters : Increments(q, d) /\ register[q] < counted[d]
      BY <1>5, <1>9, <2>2 DEF CountersInv
    <3>2. register[q] \in Nat
      BY <1>3, <1>5, <1>9, <2>2 DEF NotRead
    <3>3. register[q] < counted'[d]
      BY <1>3, <1>4, <3>1, <3>2
    <3>4. QED
      BY <1>5, <1>7, <2>2, <3>1, <3>3
  <2>3. QED
    BY <2>1, <2>2
<1>10. ASSUME NEW d \in Counters, counted'[d] > 0
       PROVE  stats'[d] > 0 \/ \E q \in Procs : Increments(q, d)'
  <2>1. CASE d = c
    BY <1>6, <2>1
  <2>2. CASE d # c
    BY <1>1, <1>4, <1>7, <1>10, <2>2 DEF CountersInv
  <2>3. QED
    BY <2>1, <2>2
<1>11. QED
  BY <1>1, <1>3, <1>4, <1>5, <1>8, <1>9, <1>10 DEF CountersInv

LEMMA WriteCounterKeeps ==
  ASSUME TasksInv, CountersInv, NEW p \in Procs, WriteCounter(p)
  PROVE  CountersInv'
<1>1. /\ register[p] # NotRead
      /\ register' = [register EXCEPT ![p] = NotRead]
      /\ todo' = [todo EXCEPT ![p] = Tail(@)]
      /\ counted' = counted
  BY DEF WriteCounter, Finished
<1>2. PICK c \in Counters :
        /\ Increments(p, c) /\ register[p] < counted[c]
        /\ stats' = [stats EXCEPT ![c] = register[p] + 1]
  BY <1>1 DEF CountersInv, Increments, WriteCounter
<1>3. /\ stats \in [Counters -> Nat] /\ counted \in [Counters -> Nat]
      /\ register \in [Procs -> Nat \cup {NotRead}] /\ register[p] \in Nat
      /\ todo \in [Procs -> Seq(ValidTask)]
  BY <1>1 DEF CountersInv, TasksInv
<1>4. \A q \in Procs, d \in Counters : Increments(q, d) => d = c \/ q # p
  BY <1>2 DEF Increments
<1>5. /\ stats' \in [Counters -> Nat]
      /\ \A d \in Counters : stats'[d] = IF d = c THEN register[p] + 1 ELSE stats[d]
  BY <1>1, <1>2, <1>3
<1>6. /\ register' \in [Procs -> Nat \cup {NotRead}] /\ register'[p] = NotRead
      /\ \A q \in Procs : q # p => register'[q] = register[q] /\ todo'[q] = todo[q]
  BY <1>1, <1>3
<1>7. \A q \in Procs, d \in Counters : Increments(q, d) /\ q # p => Increments(q, d)'
  BY <1>6 DEF Increments
<1>8. \A d \in Counters : stats'[d] <= counted'[d]
  <2>1. register[p] + 1 <= counted[c]
    BY <1>2, <1>3
  <2>2. QED
    BY <1>1, <1>5, <2>1 DEF CountersInv
<1>9. ASSUME NEW q \in Procs, register'[q] # NotRead
      PROVE  \E d \in Counters : Increments(q, d)' /\ register'[q] < counted'[d]
  <2>1. q # p
    BY <1>6, <1>9
  <2>2. QED
    BY <1>1, <1>6, <1>7, <1>9, <2>1 DEF CountersInv
<1>10. ASSUME NEW d \in Counters, counted'[d] > 0
       PROVE  stats'[d] > 0 \/ \E q \in Procs : Increments(q, d)'
  <2>1. CASE d = c
    BY <1>3, <1>5, <2>1
  <2>2. CASE d # c
    BY <1>1, <1>4, <1>5, <1>7, <1>10, <2>2 DEF CountersInv
  <2>3. QED
    BY <2>1, <2>2
<1>11. QED
  BY <1>1, <1>3, <1>5, <1>6, <1>8, <1>9, <1>10 DEF CountersInv

-----------------------------------------------------------------------------
(* The steps of the server's own: those that leave a goroutine without     *)
(* tasks as it is, and those that give it some.                            *)
LEMMA ServeKeepsTasks ==
  ASSUME RequestsInv, TasksInv, CountersInv, NEW p \in Procs, Serve(p)
  PROVE  TasksInv' /\ CountersInv'
<1>1. ASSUME todo[p] = << >>, DOMAIN req' = Procs, walk' = walk, todo' = todo,
             \A q \in Procs : q # p => req'[q] = req[q],
             UNCHANGED <<stats, counted, register>>
      PROVE  TasksInv' /\ CountersInv'
  BY <1>1, CountsNothingKeeps DEF TasksInv, CountsNothing
<1>2. ASSUME NEW tasks \in Seq(ValidTask), todo[p] = << >>,
             todo' = [todo EXCEPT ![p] = tasks], walk' = walk, ToPlace(p, "tasks"),
             UNCHANGED <<stats, counted, register>>
      PROVE  TasksInv' /\ CountersInv'
  <2>1. CountersInv' /\ todo' \in [Procs -> Seq(ValidTask)]
    BY <1>2, TasksChange
  <2>2. /\ DOMAIN req' = Procs /\ DOMAIN walk' = Procs
        /\ \A q \in Procs : q # p => req'[q] = req[q] /\ todo'[q] = todo[q]
        /\ walk'[p].at = "none"
    BY <1>2 DEF TasksInv, ToPlace
  <2>3. req'[p].at = "tasks"
    <3>1. req[p] \in Request /\ req'[p] = [req[p] EXCEPT !.at = "tasks"]
      BY <1>2 DEF RequestsInv, ToPlace
    <3>2. QED
      BY <3>1 DEF Request
  <2>4. QED
    BY <1>2, <2>1, <2>2, <2>3, TasksInvAfter
<1>3. /\ DOMAIN req = Procs
      /\ \A place : ToPlace(p, place) =>
           DOMAIN req' = Procs /\ \A q \in Procs : q # p => req'[q] = req[q]
      /\ req' = [req EXCEPT ![p] = NoRequest] =>
           DOMAIN req' = Procs /\ \A q \in Procs : q # p => req'[q] = req[q]
  BY DEF TasksInv, ToPlace
<1>4. CASE Redirect(p)
  <2>1. todo[p] = << >> /\ req' = [req EXCEPT ![p] = NoRequest] /\ UNCHANGED healthVars
    BY <1>4 DEF Redirect, TasksInv
  <2>2. QED
    BY <1>1, <1>3, <2>1 DEF healthVars
<1>5. CASE Match(p)
  <2>1. /\ todo[p] = << >> /\ UNCHANGED healthVars
        /\ ToPlace(p, "vars") \/ ToPlace(p, "clear")
    BY <1>5 DEF Match, AnswerAs, TasksInv
  <2>2. QED
    BY <1>1, <1>3, <2>1 DEF healthVars
<1>6. CASE SetVars(p) \/ SetCurrentRoute(p)
  <2>1. /\ todo[p] = << >> /\ UNCHANGED healthVars
        /\ ToPlace(p, "route") \/ ToPlace(p, "handler")
    BY <1>6 DEF SetVars, SetCurrentRoute, TasksInv
  <2>2. QED
    BY <1>1, <1>3, <2>1 DEF healthVars
<1>7. CASE Resizing(p)
  <2>1. todo[p] = << >>
    BY <1>7 DEF Resizing, TasksInv
  <2>2. CASE ToPlace(p, "clear") /\ UNCHANGED healthVars
    BY <1>1, <1>3, <2>1, <2>2 DEF healthVars
  <2>3. CASE /\ \E tasks \in Resizings : todo' = [todo EXCEPT ![p] = tasks]
             /\ ToPlace(p, "tasks") /\ UNCHANGED <<stats, register, walk, counted>>
    BY <1>2, <2>1, <2>3, TasksAreValid
  <2>4. QED
    BY <1>7, <2>2, <2>3 DEF Resizing, AnswerAs
<1>8. CASE OtherHandler(p)
  <2>1. PICK tasks \in Seq(ValidTask) : Begin(p, tasks)
    BY <1>8, TasksAreValid DEF OtherHandler
  <2>2. /\ todo[p] = << >> /\ todo' = [todo EXCEPT ![p] = tasks] /\ walk' = walk
        /\ UNCHANGED <<stats, counted, register>> /\ ToPlace(p, "tasks")
    BY <1>8, <2>1 DEF Begin, Idle, OtherHandler
  <2>3. QED
    BY <1>2, <2>2
<1>9. CASE Answer(p)
  <2>1. todo[p] = << >> /\ ToPlace(p, "clear") /\ UNCHANGED healthVars
    BY <1>9 DEF Answer, Idle
  <2>2. QED
    BY <1>1, <1>3, <2>1 DEF healthVars
<1>10. CASE Clear(p)
  <2>1. /\ todo[p] = << >> /\ req' = [req EXCEPT ![p] = NoRequest]
        /\ UNCHANGED <<todo, walk, stats, counted, register>>
    BY <1>10 DEF Clear, TasksInv
  <2>2. QED
    BY <1>1, <1>3, <2>1
<1>11. QED
  BY <1>4, <1>5, <1>6, <1>7, <1>8, <1>9, <1>10 DEF Serve

(* The steps of the tasks: those that take a goroutine on to its next task *)
(* and those of a walk.                                                    *)
LEMMA TaskKeepsTasks ==
  ASSUME TasksInv, CountersInv, NEW p \in Procs, Task(p), req' = req
  PROVE  TasksInv' /\ CountersInv'
<1> DEFINE NextTask == todo' = [todo EXCEPT ![p] = Tail(@)]
<1>1. /\ Tail(todo[p]) \in Seq(ValidTask) \/ todo[p] = << >>
      /\ DOMAIN todo = Procs
  BY HeadTailProperties DEF TasksInv
<1>2. ASSUME todo[p] # << >>, walk[p].at = "none", NextTask, walk' = walk
      PROVE  TasksInv'
  BY <1>1, <1>2, TasksInvAfter DEF TasksInv
<1>3. CASE ReadCounter(p)
  <2>1. TasksInv'
    BY <1>3 DEF ReadCounter, TasksInv
  <2>2. QED
    BY <1>3, <2>1, ReadCounterKeeps
<1>4. CASE WriteCounter(p)
  <2>1. TasksInv'
    BY <1>2, <1>4 DEF WriteCounter, Begins, Finished
  <2>2. QED
    BY <1>4, <2>1, WriteCounterKeeps
<1>5. CASE BeginStoreTask(p)
  <2>1. /\ todo[p] # << >> /\ walk[p].at = "none" /\ NextTask
        /\ Head(todo[p]).do # "count" /\ UNCHANGED <<stats, register, walk, counted>>
    BY <1>5 DEF BeginStoreTask, Begins, Finished
  <2>2. TasksInv'
    BY <1>2, <2>1
  <2>3. CountersInv'
    BY <1>1, <2>1, TasksChange
  <2>4. QED
    BY <2>2, <2>3
<1>6. CASE ContinueJob(p)
  BY <1>6, CountsNothingKeeps DEF ContinueJob, healthVars, TasksInv, CountsNothing
<1>7. CASE Walk(p)
  <2>1. /\ todo[p] # << >> /\ Head(todo[p]).do = "dirSize"
    BY <1>7 DEF Walk, StatRoot, Begins, LstatRoot, ReadDirNames, LstatFile, LstatDirectory,
                LeaveDirectory, TasksInv
  <2>2. \/ \E place, path, sum : Goto(p, place, path, sum)
        \/ \E kind : Reported(p, kind)
    BY <1>7, Zenon DEF Walk, StatRoot, LstatRoot, ReadDirNames, LstatFile, LstatDirectory,
                LeaveDirectory
  <2>3. CASE \E place, path, sum : Goto(p, place, path, sum)
    <3>1. /\ todo' = todo /\ UNCHANGED <<stats, register, counted>>
          /\ DOMAIN walk' = Procs /\ \A q \in Procs : q # p => walk'[q] = walk[q]
      BY <2>3 DEF Goto, TasksInv
    <3>2. TasksInv'
      BY <2>1, <3>1 DEF TasksInv
    <3>3. QED
      BY <3>1, <3>2, CountsNothingKeeps DEF CountsNothing
  <2>4. CASE \E kind : Reported(p, kind)
    <3>1. PICK kind : Reported(p, kind)
      BY <2>4
    <3>2. PICK tasks \in Seq(ValidTask) : todo' = [todo EXCEPT ![p] = tasks]
      BY <1>1, <2>1, <3>1, TasksAreValid DEF Reported
    <3>3. /\ UNCHANGED <<stats, register, counted>>
          /\ walk' = [walk EXCEPT ![p] = Nowhere]
      BY <3>1 DEF Reported
    <3>4. CountersInv' /\ todo' \in [Procs -> Seq(ValidTask)]
      BY <2>1, <3>2, <3>3, TasksChange
    <3>5. TasksInv'
      BY <2>1, <3>2, <3>3, <3>4, TasksInvAfter DEF TasksInv, Nowhere
    <3>6. QED
      BY <3>4, <3>5
  <2>5. QED
    BY <2>2, <2>3, <2>4
<1>8. QED
  BY <1>3, <1>4, <1>5, <1>6, <1>7 DEF Task

LEMMA CountersStep ==
  ASSUME RequestsInv, TasksInv, CountersInv, [ServerNext]_allVars
  PROVE  TasksInv' /\ CountersInv'
<1>1. CASE UNCHANGED allVars
  BY <1>1 DEF allVars, vars, healthVars, serverVars, TasksInv, CountersInv, Increments
<1>2. ASSUME NEW p \in Procs, Arrive(p)
      PROVE  TasksInv' /\ CountersInv'
  <2>1. PICK r \in Pointers, method \in Methods, path \in Paths : Receive(p, r, method, path)
    BY <1>2 DEF Arrive
  <2>2. /\ todo[p] = << >> /\ UNCHANGED healthVars
        /\ DOMAIN req' = Procs /\ \A q \in Procs : q # p => req'[q] = req[q]
    BY <2>1 DEF Receive, Idle, TasksInv
  <2>3. QED
    BY <2>2, CountsNothingKeeps DEF TasksInv, CountsNothing, healthVars
<1>3. ASSUME NEW p \in Procs, Work(p)
      PROVE  TasksInv' /\ CountersInv'
  BY <1>3, ServeKeepsTasks, TaskKeepsTasks DEF Work, serverVars
<1>4. QED
  BY <1>1, <1>2, <1>3 DEF ServerNext

LEMMA InvariantsHoldAtFirst == ServerInit => ContextInv /\ TasksInv /\ CountersInv
<1> SUFFICES ASSUME ServerInit PROVE ContextInv /\ TasksInv /\ CountersInv
  OBVIOUS
<1>1. ContextInv
  BY DEF ServerInit, ContextInv, RequestsInv, EntriesInv, ValuesInv, NoRequest, Request, Places
<1>2. TasksInv
  BY TasksAreValid DEF ServerInit, Init, TasksInv, NoRequest, Nowhere
<1>3. CountersInv
  BY DEF ServerInit, Init, CountersInv
<1>4. QED
  BY <1>1, <1>2, <1>3

(***************************************************************************)
(* Whatever increments are lost, however many goroutines lose them, no     *)
(* counter counts what did not happen, and none that counted anything is   *)
(* zero when no increment is under way.                                    *)
(***************************************************************************)
THEOREM CountersAlwaysBelow == ServerSpec => []CountersNeverOvercount
<1> DEFINE CInv == ContextInv /\ TasksInv /\ CountersInv
<1>1. ServerInit => CInv
  BY InvariantsHoldAtFirst
<1>2. CInv /\ [ServerNext]_allVars => CInv'
  BY ContextStep, CountersStep DEF ContextInv
<1>3. CInv => CountersNeverOvercount
  BY DEF CountersInv, CountersNeverOvercount, Increments
<1>4. QED
  BY <1>1, <1>2, <1>3, PTL DEF ServerSpec

-----------------------------------------------------------------------------
LEMMA ServeKeepsTree == ASSUME NEW p \in Procs, Serve(p) PROVE UNCHANGED treeVars
<1>1. CASE Redirect(p) \/ Match(p) \/ SetVars(p) \/ SetCurrentRoute(p)
  BY <1>1 DEF Redirect, Match, SetVars, SetCurrentRoute
<1>2. CASE Resizing(p)
  BY <1>2 DEF Resizing
<1>3. CASE OtherHandler(p)
  BY <1>3 DEF OtherHandler, Begin
<1>4. CASE Answer(p) \/ Clear(p)
  BY <1>4 DEF Answer, Clear
<1>5. QED
  BY <1>1, <1>2, <1>3, <1>4 DEF Serve

LEMMA WalkKeepsTree == ASSUME NEW p \in Procs, Walk(p) PROVE UNCHANGED treeVars
<1>1. /\ \A place, path, sum : Goto(p, place, path, sum) => UNCHANGED treeVars
      /\ \A kind : Reported(p, kind) => UNCHANGED treeVars
  BY DEF Goto, Reported
<1>2. \/ \E place, path, sum : Goto(p, place, path, sum)
      \/ \E kind : Reported(p, kind)
  BY Zenon DEF Walk, StatRoot, LstatRoot, ReadDirNames, LstatFile, LstatDirectory,
              LeaveDirectory
<1>3. QED
  BY <1>1, <1>2

LEMMA TreeStep ==
  ASSUME TasksInv, TreeInv, [ServerNext]_allVars
  PROVE  TreeInv'
<1>1. CASE UNCHANGED treeVars
  BY <1>1, TreeUnchanged
<1>2. ASSUME NEW p \in Procs, BeginStoreTask(p)
      PROVE  TreeInv'
  <2>1. todo[p] # << >> => Head(todo[p]) \in ValidTask
    BY HeadTailProperties DEF TasksInv
  <2>2. CASE Begins(p, "write") /\ WriteStream(p, Head(todo[p]).key, Head(todo[p]).bytes)
    <3>1. Head(todo[p]).key \in Keys /\ Head(todo[p]).bytes \in Nat
      BY <2>1, <2>2 DEF Begins, ValidTask, AnyTask
    <3>2. QED
      BY <2>2, <3>1, WriteStreamKeeps
  <2>3. CASE Begins(p, "erase") /\ Erase(p, Head(todo[p]).key)
    <3>1. Head(todo[p]).key \in Keys
      BY <2>1, <2>3 DEF Begins, ValidTask, AnyTask
    <3>2. QED
      BY <2>3, <3>1, EraseKeeps
  <2>4. CASE EraseAll(p)
    BY <2>4, EraseAllKeeps
  <2>5. QED
    BY <1>2, <2>2, <2>3, <2>4 DEF BeginStoreTask
<1>3. ASSUME NEW p \in Procs, Task(p)
      PROVE  TreeInv'
  <2>1. CASE ReadCounter(p) \/ WriteCounter(p)
    BY <1>1, <2>1 DEF ReadCounter, WriteCounter
  <2>2. CASE ContinueJob(p)
    BY <2>2, ChangeTreeKeeps DEF ContinueJob
  <2>3. QED
    BY <1>1, <1>2, <1>3, <2>1, <2>2, WalkKeepsTree DEF Task
<1>4. ASSUME NEW p \in Procs, Arrive(p)
      PROVE  UNCHANGED treeVars
  BY <1>4 DEF Arrive, Receive
<1>5. CASE UNCHANGED allVars
  BY <1>1, <1>5 DEF allVars, vars
<1>6. QED
  BY <1>1, <1>3, <1>4, <1>5, ServeKeepsTree DEF ServerNext, Work

(***************************************************************************)
(* Whatever requests, purges and erasures follow each other, every file    *)
(* can be reached at every moment, and no directory is left behind.        *)
(***************************************************************************)
THEOREM DirectoriesAlwaysServeFiles == ServerSpec => []DirectoriesServeFiles
<1> DEFINE DInv == ContextInv /\ TasksInv /\ CountersInv /\ TreeInv
<1>1. ServerInit => DInv
  <2>1. ServerInit => InitTree
    BY DEF ServerInit, Init
  <2>2. QED
    BY <2>1, InvariantsHoldAtFirst, InitTreeKeeps
<1>2. DInv /\ [ServerNext]_allVars => DInv'
  BY ContextStep, CountersStep, TreeStep DEF ContextInv
<1>3. DInv => DirectoriesServeFiles
  BY DirectoriesServed
<1>4. QED
  BY <1>1, <1>2, <1>3, PTL DEF ServerSpec

-----------------------------------------------------------------------------
(***************************************************************************)
(* What the handler makes of the names in a path is what the path says.    *)
(* The id and the extension are taken from what the global map has for the *)
(* request, and are still those of its path when it is answered: that      *)
(* needs the map to follow the requests (ContextInv).                      *)
(***************************************************************************)
NamesOfPath(id, ext, path) ==
  LET picture == Vars("GET", path).path IN
  id = ExtractIdFromUrl(picture) /\ ext = GetExtension(picture)

AnswersInv ==
  /\ DOMAIN answer = Procs
  /\ \A p \in Procs :
       /\ DOMAIN answer[p] = {"kind", "path", "id", "ext"} /\ answer[p].kind \in Answers
       /\ answer[p].ext # "none" =>
            /\ req[p].at \in {"tasks", "clear"} /\ answer[p].path = req[p].path
            /\ NamesOfPath(answer[p].id, answer[p].ext, answer[p].path)

(* An answer to the request of p, the other goroutines left alone.         *)
LEMMA AnswerKeeps ==
  ASSUME RequestsInv, AnswersInv, NEW p \in Procs, NEW new, NEW old,
         answer' = [answer EXCEPT ![p] = new], req' = [req EXCEPT ![p] = old],
         DOMAIN new = {"kind", "path", "id", "ext"}, new.kind \in Answers,
         new.ext # "none" =>
           /\ old.at \in {"tasks", "clear"} /\ new.path = old.path
           /\ NamesOfPath(new.id, new.ext, new.path)
  PROVE  AnswersInv'
<1>1. /\ DOMAIN answer' = Procs /\ answer'[p] = new /\ req'[p] = old
      /\ \A q \in Procs : q # p => answer'[q] = answer[q] /\ req'[q] = req[q]
  BY DEF AnswersInv, RequestsInv
<1>2. \A q \in Procs :
        q # p => /\ DOMAIN answer'[q] = {"kind", "path", "id", "ext"}
                 /\ answer'[q].kind \in Answers
                 /\ answer'[q].ext # "none" =>
                      /\ req'[q].at \in {"tasks", "clear"} /\ answer'[q].path = req'[q].path
                      /\ NamesOfPath(answer'[q].id, answer'[q].ext, answer'[q].path)
  BY <1>1 DEF AnswersInv
<1>3. QED
  BY <1>1, <1>2 DEF AnswersInv, NamesOfPath

(* A step of the request of p that answers nothing yet.                    *)
LEMMA NoAnswerKeeps ==
  ASSUME RequestsInv, AnswersInv, NEW p \in Procs, NEW old,
         answer' = answer, req' = [req EXCEPT ![p] = old],
         req[p].at \notin {"tasks", "clear"}
  PROVE  AnswersInv'
<1>1. /\ \A q \in Procs : q # p => req'[q] = req[q]
      /\ answer[p].ext = "none"
  BY DEF AnswersInv, RequestsInv
<1>2. QED
  BY <1>1 DEF AnswersInv, NamesOfPath

LEMMA AnswerAsKeeps ==
  ASSUME RequestsInv, AnswersInv, NEW p \in Procs, NEW kind \in Answers, AnswerAs(p, kind)
  PROVE  AnswersInv'
<1> DEFINE new == [kind |-> kind, path |-> req[p].path, id |-> Empty, ext |-> "none"]
           old == [req[p] EXCEPT !.at = "clear"]
<1>1. /\ answer' = [answer EXCEPT ![p] = new] /\ req' = [req EXCEPT ![p] = old]
      /\ DOMAIN new = {"kind", "path", "id", "ext"} /\ new.kind \in Answers /\ new.ext = "none"
  BY DEF AnswerAs, ToPlace
<1> HIDE DEF new, old
<1>2. QED
  BY <1>1, AnswerKeeps

LEMMA ResizingAnswers ==
  ASSUME ContextInv, AnswersInv, NEW p \in Procs, Resizing(p)
  PROVE  AnswersInv'
<1> DEFINE vars_ == Stored(req[p].pointer).vars
           picture == Vars("GET", req[p].path).path
           old == [req[p] EXCEPT !.at = "tasks"]
           new == [kind |-> "none", path |-> req[p].path,
                   id |-> ExtractIdFromUrl(vars_.path), ext |-> GetExtension(vars_.path)]
<1>1. RequestsInv /\ req[p] \in Request /\ req[p].at = "handler" /\ Routed(p) = "resizing"
  BY DEF ContextInv, RequestsInv, Resizing
<1>2. CASE AnswerAs(p, "panic") \/ AnswerAs(p, "bad request")
  BY <1>1, <1>2, AnswerAsKeeps DEF Answers
<1>3. CASE /\ ToPlace(p, "tasks")
           /\ answer' = [answer EXCEPT ![p] = new]
  <2>1. vars_ = Vars(req[p].method, req[p].path)
    <3>1. Stored(req[p].pointer) = Found(req[p])
      BY <1>1 DEF ContextInv, ValuesInv
    <3>2. Found(req[p]).vars = Vars(req[p].method, req[p].path)
      BY DEF Found
    <3>3. QED
      BY <3>1, <3>2
  <2>2. req[p].method = "GET"
    BY <1>1 DEF Routed, Route
  <2>3. vars_.path = picture
    BY <2>1, <2>2
  <2>4. /\ old.at = "tasks" /\ old.path = req[p].path
    BY <1>1 DEF Request
  <2>5. /\ DOMAIN new = {"kind", "path", "id", "ext"} /\ new.kind \in Answers
        /\ new.path = req[p].path
        /\ new.id = ExtractIdFromUrl(vars_.path) /\ new.ext = GetExtension(vars_.path)
    BY DEF Answers
  <2>6. req' = [req EXCEPT ![p] = old]
    BY <1>3 DEF ToPlace
  <2>7. answer' = [answer EXCEPT ![p] = new]
    BY <1>3
  <2> HIDE DEF vars_, new, old
  <2>8. NamesOfPath(new.id, new.ext, new.path)
    BY <2>3, <2>5 DEF NamesOfPath
  <2>9. QED
    BY <1>1, <2>4, <2>5, <2>6, <2>7, <2>8, AnswerKeeps
<1>4. QED
  BY <1>2, <1>3 DEF Resizing

LEMMA AnswersStep ==
  ASSUME ContextInv, AnswersInv, [ServerNext]_allVars
  PROVE  AnswersInv'
<1>1. CASE req' = req /\ answer' = answer
  BY <1>1 DEF AnswersInv, NamesOfPath
<1>2. RequestsInv
  BY DEF ContextInv
<1>3. ASSUME NEW p \in Procs, Redirect(p)
      PROVE  AnswersInv'
  <2> DEFINE new == [kind |-> "redirect", path |-> cleanPath(req[p].path),
                     id |-> Empty, ext |-> "none"]
  <2>1. /\ answer' = [answer EXCEPT ![p] = new] /\ req' = [req EXCEPT ![p] = NoRequest]
        /\ DOMAIN new = {"kind", "path", "id", "ext"} /\ new.kind \in Answers
        /\ new.ext = "none"
    BY <1>3 DEF Redirect, Answers
  <2> HIDE DEF new
  <2>2. QED
    BY <1>2, <2>1, AnswerKeeps
<1>4. ASSUME NEW p \in Procs, Match(p)
      PROVE  AnswersInv'
  <2>1. CASE AnswerAs(p, "not found")
    BY <1>2, <2>1, AnswerAsKeeps DEF Answers
  <2>2. CASE ToPlace(p, "vars") /\ UNCHANGED answer
    BY <1>2, <1>4, <2>2, NoAnswerKeeps DEF ToPlace, Match
  <2>3. QED
    BY <1>4, <2>1, <2>2 DEF Match
<1>5. ASSUME NEW p \in Procs, SetVars(p) \/ SetCurrentRoute(p) \/ OtherHandler(p)
      PROVE  AnswersInv'
  <2>1. /\ ToPlace(p, "route") \/ ToPlace(p, "handler") \/ ToPlace(p, "tasks")
        /\ answer' = answer /\ req[p].at \notin {"tasks", "clear"}
    BY <1>5 DEF SetVars, SetCurrentRoute, OtherHandler
  <2>2. PICK old : req' = [req EXCEPT ![p] = old]
    BY <2>1 DEF ToPlace
  <2>3. QED
    BY <1>2, <2>1, <2>2, NoAnswerKeeps
<1>6. ASSUME NEW p \in Procs, Answer(p)
      PROVE  AnswersInv'
  <2>1. PICK kind \in Ends(p) :
          answer' = [answer EXCEPT ![p].kind = kind, ![p].path = req[p].path]
    BY <1>6 DEF Answer
  <2> DEFINE new == [answer[p] EXCEPT !.kind = kind, !.path = req[p].path]
             old == [req[p] EXCEPT !.at = "clear"]
  <2>2. answer' = [answer EXCEPT ![p] = new] /\ req' = [req EXCEPT ![p] = old]
    BY <1>6, <2>1 DEF Answer, ToPlace, AnswersInv
  <2>3. kind \in Answers
    BY DEF Ends, Answers
  <2>4. old.at = "clear" /\ old.path = req[p].path
    BY <1>2 DEF RequestsInv, Request
  <2>5. /\ DOMAIN new = {"kind", "path", "id", "ext"} /\ new.kind = kind
        /\ new.path = req[p].path /\ new.id = answer[p].id /\ new.ext = answer[p].ext
    BY DEF AnswersInv
  <2>6. answer[p].ext # "none" =>
          /\ answer[p].path = req[p].path
          /\ NamesOfPath(answer[p].id, answer[p].ext, answer[p].path)
    BY DEF AnswersInv
  <2> HIDE DEF new, old
  <2>7. QED
    BY <1>2, <2>2, <2>3, <2>4, <2>5, <2>6, AnswerKeeps
<1>7. ASSUME NEW p \in Procs, Clear(p)
      PROVE  AnswersInv'
  <2>1. /\ answer' = [answer EXCEPT ![p] = NoAnswer] /\ req' = [req EXCEPT ![p] = NoRequest]
        /\ DOMAIN NoAnswer = {"kind", "path", "id", "ext"} /\ NoAnswer.kind \in Answers
        /\ NoAnswer.ext = "none"
    BY <1>7 DEF Clear, NoAnswer, Answers
  <2>2. QED
    BY <1>2, <2>1, AnswerKeeps
<1>8. ASSUME NEW p \in Procs, Arrive(p)
      PROVE  AnswersInv'
  <2>1. PICK r \in Pointers, method \in Methods, path \in Paths : Receive(p, r, method, path)
    BY <1>8 DEF Arrive
  <2>2. PICK old : req' = [req EXCEPT ![p] = old]
    BY <2>1 DEF Receive
  <2>3. QED
    BY <1>2, <2>1, <2>2, NoAnswerKeeps DEF Receive
<1>9. QED
  BY <1>1, <1>3, <1>4, <1>5, <1>6, <1>7, <1>8, ResizingAnswers
     DEF ServerNext, Work, Serve, allVars, serverVars

-----------------------------------------------------------------------------
(* Vars takes the path of a picture from the fourth segment on.            *)
LEMMA PictureType ==
  ASSUME NEW path \in Paths \cup {Root}
  PROVE  Vars("GET", path).path \in Seq(Seq(STRING))
<1>1. Len(path) >= 4 => path \in Seq(Seq(STRING))
  <2>1. Len(Root) = 2 /\ ~(2 >= 4)
    BY DEF Root
  <2>2. Paths \subseteq Seq(Seq(STRING))
    BY Zenon, ServerAssumption
  <2>3. QED
    BY <2>1, <2>2, Zenon
<1>2. CASE Route("GET", path) = "resizing"
  <2>1. path \in Seq(Seq(STRING))
    BY <1>1, <1>2 DEF Route
  <2>2. Len(path) \in Nat /\ \A i \in 4 .. Len(path) : path[i] \in Seq(STRING)
    BY <2>1, LenProperties, ElementOfSeq
  <2>3. SubSeq(path, 4, Len(path)) \in Seq(Seq(STRING))
    BY <2>1, <2>2, SubSeqProperties
  <2>4. Vars("GET", path).path = SubSeq(path, 4, Len(path))
    BY <1>2 DEF Vars
  <2>5. QED
    BY <2>3, <2>4
<1>3. CASE Route("GET", path) # "resizing"
  BY <1>3, EmptySeq DEF Vars, NoVars
<1>4. QED
  BY <1>2, <1>3

(***************************************************************************)
(* For a path with one dot, before an extension in its last segment, the   *)
(* id and the extension put together are that segment.                     *)
(***************************************************************************)
LEMMA NameIsIdAndExtension ==
  ASSUME NEW path \in Seq(Seq(STRING)), OneDot(path)
  PROVE  Append(ExtractIdFromUrl(path), GetExtension(path)) = path[Len(path)]
<1> DEFINE name == path[Len(path)]
<1>1. Dotted(path) = {Len(path)} /\ Len(name) = 2
  BY Zenon DEF OneDot
<1>2. Len(path) \in DOMAIN path /\ name \in Seq(STRING)
  <2>1. Len(path) \in DOMAIN path
    BY <1>1 DEF Dotted
  <2>2. QED
    BY <2>1, LenProperties, ElementOfSeq
<1>3. Len(path) \in Nat /\ FirstDotted(path) = Len(path)
  <2> DEFINE n == Len(path)
  <2>1. n \in Nat /\ Dotted(path) = {n}
    BY <1>1, LenProperties
  <2> HIDE DEF n
  <2>2. FirstDotted(path) = CHOOSE i \in {n} : \A j \in {n} : i <= j
    BY <2>1 DEF FirstDotted
  <2>3. QED
    BY <2>1, <2>2 DEF n
<1> HIDE DEF name
<1>4. GetExtension(path) = name[2]
  <2>1. Dotted(path) # {} /\ ~(Len(path) < Len(path))
    BY <1>1, <1>3
  <2>2. path[Len(path)] = name /\ name[2] # ""
    BY Zenon DEF OneDot, name
  <2>3. QED
    BY <1>3, <2>1, <2>2, Zenon DEF GetExtension
<1>5. ExtractIdFromUrl(path) = SubSeq(name, 1, 1)
  <2>1. SE!Last(path) = name /\ Len(name) # 1 /\ Len(name) - 1 = 1
    BY <1>1 DEF SE!Last, name
  <2>2. ExtractIdFromUrl(path) = SE!Front(name)
    BY <2>1 DEF ExtractIdFromUrl
  <2>3. SE!Front(name) = SubSeq(name, 1, Len(name) - 1)
    BY DEF SE!Front
  <2>4. QED
    BY <2>1, <2>2, <2>3
<1>6. Append(SubSeq(name, 1, 1), name[2]) = name
  <2>1. 1 \in 1 .. Len(name) /\ 2 \in 1 .. Len(name) /\ 2 - 1 = 1
    BY <1>1
  <2>2. SubSeq(name, 1, 2) = SubSeq(name, 1, 1) \o <<name[2]>> /\ SubSeq(name, 1, 2) = name
    BY <1>1, <1>2, <2>1, SubSeqRecursiveSecond, SubSeqFull
  <2>3. \A i \in 1 .. 1 : name[i] \in STRING
    BY <1>2, <2>1, ElementOfSeq
  <2>4. SubSeq(name, 1, 1) \in Seq(STRING) /\ name[2] \in STRING
    BY <1>2, <2>1, <2>3, SubSeqProperties, ElementOfSeq
  <2>5. QED
    BY <2>2, <2>4, AppendIsConcat
<1>7. QED
  BY <1>4, <1>5, <1>6 DEF name

LEMMA AnswersHoldAtFirst == ServerInit => AnswersInv
<1>1. /\ DOMAIN NoAnswer = {"kind", "path", "id", "ext"} /\ NoAnswer.kind \in Answers
      /\ NoAnswer.ext = "none"
  BY DEF NoAnswer, Answers
<1>2. QED
  BY <1>1 DEF ServerInit, AnswersInv

(***************************************************************************)
(* Whatever paths the requests have, and whoever else is served: where the *)
(* path of a picture has one dot, the id and the extension it is answered  *)
(* with make up its file name.                                             *)
(***************************************************************************)
THEOREM NamesAlwaysAgree == ServerSpec => []NamesAgree
<1>1. ServerInit => ContextInv /\ AnswersInv
  BY InvariantsHoldAtFirst, AnswersHoldAtFirst
<1>2. ContextInv /\ AnswersInv /\ [ServerNext]_allVars => (ContextInv /\ AnswersInv)'
  BY ContextStep, AnswersStep
<1>3. ContextInv /\ AnswersInv => NamesAgree
  <2> SUFFICES ASSUME ContextInv, AnswersInv, NEW p \in Procs, answer[p].ext # "none",
                      NEW path, path = Vars("GET", answer[p].path).path, OneDot(path)
               PROVE  Append(answer[p].id, answer[p].ext) = path[Len(path)]
    BY DEF NamesAgree
  <2>1. answer[p].path \in Paths \cup {Root}
    BY DEF ContextInv, RequestsInv, Request, AnswersInv
  <2>2. path \in Seq(Seq(STRING))
    BY <2>1, PictureType
  <2>3. answer[p].id = ExtractIdFromUrl(path) /\ answer[p].ext = GetExtension(path)
    BY DEF AnswersInv, NamesOfPath
  <2>4. QED
    BY <2>2, <2>3, NameIsIdAndExtension
<1>4. QED
  BY <1>1, <1>2, <1>3, PTL DEF ServerSpec

-----------------------------------------------------------------------------
(***************************************************************************)
(* The types of the rest: who may hold the mutex, the directories that the *)
(* keys can have, and how far a walk is and what it has added up, to which *)
(* only files contribute that are there.                                   *)
(***************************************************************************)
TreeTypes == mu \in Procs \cup {Nobody} /\ dirs \subseteq ParentsOf(Keys)

LEMMA ChangeTreeTypes ==
  ASSUME TreeInv, TreeTypes, NEW p \in Procs, ChangeTree(p)
  PROVE  TreeTypes'
<1>1. CASE MakeDirectory(p)
  <2>1. job[p].key \in Keys /\ mu' = mu
    BY <1>1 DEF MakeDirectory, TreeInv, Stage
  <2>2. dirs' \subseteq dirs \cup Parents[job[p].key]
    BY <1>1 DEF MakeDirectory
  <2>3. Parents[job[p].key] \subseteq ParentsOf(Keys)
    BY <2>1 DEF ParentsOf
  <2>4. QED
    BY <2>1, <2>2, <2>3 DEF TreeTypes
<1>2. CASE \/ OpenFile(p) \/ OpenFails(p) \/ FillFile(p)
           \/ PruneDirectory(p) \/ PrunedAll(p) \/ PruneStops(p)
           \/ RemoveLeaf(p) \/ RemovedAll(p)
  <2>1. dirs' \subseteq dirs /\ (mu' = mu \/ mu' = Nobody)
    BY <1>2 DEF OpenFile, OpenFails, FillFile, PruneDirectory, PrunedAll, PruneStops,
                RemoveLeaf, RemovedAll, Unlock
  <2>2. QED
    BY <2>1 DEF TreeTypes
<1>3. QED
  BY <1>1, <1>2 DEF ChangeTree

LEMMA TreeTypesStep ==
  ASSUME TreeInv, TreeTypes, [ServerNext]_allVars
  PROVE  TreeTypes'
<1>1. CASE UNCHANGED treeVars
  BY <1>1 DEF TreeTypes, treeVars
<1>2. ASSUME NEW p \in Procs, BeginStoreTask(p)
      PROVE  TreeTypes'
  <2>1. dirs' = dirs /\ (mu' = mu \/ mu' = p)
    BY <1>2 DEF BeginStoreTask, WriteStream, Erase, EraseAll, Lock, treeVars
  <2>2. QED
    BY <2>1 DEF TreeTypes
<1>3. ASSUME NEW p \in Procs, Task(p)
      PROVE  TreeTypes'
  <2>1. CASE ReadCounter(p) \/ WriteCounter(p)
    BY <1>1, <2>1 DEF ReadCounter, WriteCounter
  <2>2. CASE ContinueJob(p)
    BY <2>2, ChangeTreeTypes DEF ContinueJob
  <2>3. QED
    BY <1>1, <1>2, <1>3, <2>1, <2>2, WalkKeepsTree DEF Task
<1>4. ASSUME NEW p \in Procs, Arrive(p)
      PROVE  UNCHANGED treeVars
  BY <1>4 DEF Arrive, Receive
<1>5. CASE UNCHANGED allVars
  BY <1>1, <1>5 DEF allVars, vars
<1>6. QED
  BY <1>1, <1>3, <1>4, <1>5, ServeKeepsTree DEF ServerNext, Work

WalkTypes ==
  /\ DOMAIN reported = Procs
  /\ \A p \in Procs :
       /\ walk[p].at \in {"none", "root", "read", "next"} /\ walk[p].sum \in Nat
       /\ reported[p].kind \in {"none", "size", "error", "panic"}

LEMMA GotoKeepsTypes ==
  ASSUME TasksInv, WalkTypes, NEW p \in Procs, NEW place \in {"root", "read", "next"},
         NEW path, NEW sum \in Nat, Goto(p, place, path, sum)
  PROVE  WalkTypes'
<1> DEFINE new == [at |-> place, path |-> path, sum |-> sum]
<1>1. walk' = [walk EXCEPT ![p] = new] /\ reported' = reported /\ DOMAIN walk = Procs
      /\ new.at = place /\ new.sum = sum
  BY DEF Goto, TasksInv
<1> HIDE DEF new
<1>2. \A q \in Procs : walk'[q] = IF q = p THEN new ELSE walk[q]
  BY <1>1
<1>3. QED
  BY <1>1, <1>2 DEF WalkTypes

LEMMA ReportedKeepsTypes ==
  ASSUME TasksInv, WalkTypes, NEW p \in Procs, NEW kind \in {"size", "error", "panic"},
         Reported(p, kind)
  PROVE  WalkTypes'
<1> DEFINE report == [kind |-> kind, size |-> IF kind = "size" THEN walk[p].sum ELSE 0,
                      low |-> Sum(low[p]), high |-> Sum(high[p]), quiet |-> quiet[p]]
<1>1. reported' = [reported EXCEPT ![p] = report] /\ report.kind = kind
  BY DEF Reported
<1> HIDE DEF report
<1>2. walk' = [walk EXCEPT ![p] = Nowhere] /\ DOMAIN walk = Procs
      /\ Nowhere.at = "none" /\ Nowhere.sum = 0
  BY DEF Reported, TasksInv, Nowhere
<1>3. \A q \in Procs : /\ walk'[q] = IF q = p THEN Nowhere ELSE walk[q]
                       /\ reported'[q] = IF q = p THEN report ELSE reported[q]
  BY <1>1, <1>2 DEF WalkTypes
<1>4. QED
  BY <1>1, <1>2, <1>3 DEF WalkTypes

LEMMA WalkKeepsTypes ==
  ASSUME TreeInv, TasksInv, WalkTypes, NEW p \in Procs, Walk(p)
  PROVE  WalkTypes'
<1>1. walk[p].sum \in Nat
  BY DEF WalkTypes
<1>2. \A k \in Files : size[k] \in Nat
  BY DEF TreeInv, TreeTypeInv, Files
<1> DEFINE Reports == Reported(p, "size") \/ Reported(p, "error") \/ Reported(p, "panic")
           Goes(place) == \E path, sum : sum \in Nat /\ Goto(p, place, path, sum)
<1>3. CASE StatRoot(p) \/ LstatRoot(p)
  <2>1. 0 \in Nat
    OBVIOUS
  <2>2. Reports \/ Goes("root") \/ Goes("read")
    BY <1>3, <2>1, Zenon DEF StatRoot, LstatRoot
  <2>3. QED
    BY <2>2, GotoKeepsTypes, ReportedKeepsTypes
<1>4. CASE ReadDirNames(p)
  <2>1. Reports \/ Goes("next")
    BY <1>1, <1>4, Zenon DEF ReadDirNames
  <2>2. QED
    BY <2>1, GotoKeepsTypes, ReportedKeepsTypes
<1>5. CASE LstatFile(p)
  <2>1. \A k \in Files : walk[p].sum + size[k] \in Nat
    BY <1>1, <1>2
  <2>2. Reports \/ Goes("next")
    BY <1>5, <2>1, Zenon DEF LstatFile
  <2>3. QED
    BY <2>2, GotoKeepsTypes, ReportedKeepsTypes
<1>6. CASE LstatDirectory(p)
  <2>1. Reports \/ Goes("read")
    BY <1>1, <1>6, Zenon DEF LstatDirectory
  <2>2. QED
    BY <2>1, GotoKeepsTypes, ReportedKeepsTypes
<1>7. CASE LeaveDirectory(p)
  <2>1. Reports \/ Goes("next")
    BY <1>1, <1>7, Zenon DEF LeaveDirectory
  <2>2. QED
    BY <2>1, GotoKeepsTypes, ReportedKeepsTypes
<1>8. QED
  BY <1>3, <1>4, <1>5, <1>6, <1>7 DEF Walk

LEMMA WalkTypesStep ==
  ASSUME TreeInv, TasksInv, WalkTypes, [ServerNext]_allVars
  PROVE  WalkTypes'
<1>1. CASE walk' = walk /\ reported' = reported
  BY <1>1 DEF WalkTypes
<1>2. ASSUME NEW p \in Procs, Task(p)
      PROVE  WalkTypes'
  <2>1. CASE Walk(p)
    BY <2>1, WalkKeepsTypes
  <2>2. CASE ReadCounter(p) \/ WriteCounter(p) \/ BeginStoreTask(p) \/ ContinueJob(p)
    BY <1>1, <2>2 DEF ReadCounter, WriteCounter, BeginStoreTask, ContinueJob, healthVars
  <2>3. QED
    BY <1>2, <2>1, <2>2 DEF Task
<1>3. ASSUME NEW p \in Procs, Clear(p)
      PROVE  WalkTypes'
  <2>1. /\ walk' = walk /\ reported' = [reported EXCEPT ![p] = NoReport]
        /\ NoReport.kind = "none"
    BY <1>3 DEF Clear, NoReport
  <2>2. QED
    BY <2>1 DEF WalkTypes
<1>4. ASSUME NEW p \in Procs, Serve(p), ~Clear(p)
      PROVE  walk' = walk /\ reported' = reported
  <2>1. CASE Redirect(p) \/ Match(p) \/ SetVars(p) \/ SetCurrentRoute(p) \/ Answer(p)
    BY <2>1 DEF Redirect, Match, SetVars, SetCurrentRoute, Answer, healthVars
  <2>2. CASE Resizing(p)
    BY <2>2 DEF Resizing, healthVars
  <2>3. CASE OtherHandler(p)
    BY <2>3 DEF OtherHandler, Begin
  <2>4. QED
    BY <1>4, <2>1, <2>2, <2>3 DEF Serve
<1>5. ASSUME NEW p \in Procs, Arrive(p)
      PROVE  walk' = walk /\ reported' = reported
  BY <1>5 DEF Arrive, Receive, healthVars
<1>6. CASE UNCHANGED allVars
  BY <1>1, <1>6 DEF allVars, vars, healthVars
<1>7. QED
  BY <1>1, <1>2, <1>3, <1>4, <1>5, <1>6 DEF ServerNext, Work

(* At first everything has its type and stands as it should.               *)
LEMMA TypesHoldAtFirst ==
  ASSUME ServerInit
  PROVE  ContextInv /\ TasksInv /\ CountersInv /\ TreeInv /\ AnswersInv /\ TreeTypes /\ WalkTypes
<1>1. ContextInv /\ TasksInv /\ CountersInv /\ InitTree
  BY InvariantsHoldAtFirst DEF ServerInit, Init
<1>2. AnswersInv
  BY AnswersHoldAtFirst
<1>3. TreeTypes
  <2>1. Base \in ParentsOf(Keys)
    <3>1. OriginalKey \in Keys /\ 0 \in 0 .. Len(DirOf[OriginalKey])
      BY ServerAssumption, DirOfType
    <3>2. Prefix(OriginalKey, 0) \in Parents[OriginalKey]
      BY <3>1, ParentsAreUpTo DEF UpTo
    <3>3. QED
      BY <3>1, <3>2, PrefixProperties DEF ParentsOf
  <2>2. ParentsOf(Files \cup littered) \subseteq ParentsOf(Keys)
    BY <1>1 DEF InitTree, ParentsOf, Files
  <2>3. \/ dirs = ParentsOf(Files \cup littered)
        \/ dirs = ParentsOf(Files \cup littered) \cup {Base}
    BY <1>1 DEF InitTree
  <2>4. mu = Nobody
    BY <1>1 DEF InitTree
  <2>5. QED
    BY <2>1, <2>2, <2>3, <2>4 DEF TreeTypes
<1>4. WalkTypes
  BY DEF ServerInit, Init, WalkTypes, Nowhere, NoReport
<1>5. QED
  BY <1>1, <1>2, <1>3, <1>4, InitTreeKeeps

(* Everything has its type, for any number of goroutines and requests.     *)
THEOREM ServerTypeCorrect == ServerSpec => []ServerTypeOK
<1> DEFINE SInv == ContextInv /\ TasksInv /\ CountersInv /\ TreeInv /\ AnswersInv
                     /\ TreeTypes /\ WalkTypes
<1>1. ServerInit => SInv
  BY TypesHoldAtFirst
<1>2. SInv /\ [ServerNext]_allVars => SInv'
  BY ContextStep, CountersStep, TreeStep, AnswersStep, TreeTypesStep, WalkTypesStep
     DEF ContextInv
<1>3. SInv => ServerTypeOK
  <2> SUFFICES ASSUME SInv
               PROVE  ServerTypeOK
    OBVIOUS
  <2>1. TypeOKTree
    BY DEF TreeTypes, TreeInv, TreeTypeInv, TypeOKTree
  <2>2. TypeOK
    BY <2>1 DEF CountersInv, WalkTypes, TypeOK
  <2>3. \A p \in Procs : req[p].at \in Places /\ req[p].pointer \in Pointers \cup {NoPointer}
    BY DEF ContextInv, RequestsInv, Request
  <2>4. datat \subseteq Pointers /\ DOMAIN data = datat
    <3>1. ASSUME NEW r \in datat
          PROVE  r \in Pointers
      <4>1. PICK p \in Procs : req[p].pointer = r /\ req[p].at \notin Before
        BY DEF ContextInv, EntriesInv
      <4>2. QED
        BY <4>1 DEF ContextInv, RequestsInv, Before
    <3>2. QED
      BY <3>1 DEF ContextInv, EntriesInv
  <2>5. QED
    BY <2>2, <2>3, <2>4 DEF AnswersInv, ServerTypeOK
<1>4. QED
  BY <1>1, <1>2, <1>3, PTL DEF ServerSpec

-----------------------------------------------------------------------------
(***************************************************************************)
(* What the server computes by folds: the canonical path that the router   *)
(* redirects to, and the size of the files that a health check walks over. *)
(*                                                                         *)
(* A fold of the community modules is a CHOOSE of a function that          *)
(* satisfies its equations.  That there is one is proved once (FoldExists) *)
(* from the least-number principle; what a fold computes then follows for  *)
(* the subset 1..n of the indices of a path from 1..n - 1, and for any set *)
(* of keys from the one without the key that CHOOSE picks from it.         *)
(***************************************************************************)
(* Every set of numbers has a least one; so what holds of 0, and of n + 1 if *)
(* of n, holds of all.                                                     *)
LEMMA LeastNumber ==
  ASSUME NEW T \in SUBSET Nat, T # {}
  PROVE  \E n \in T : \A m \in T : n <= m
<1>1. PICK n \in T : \A m \in T : ~(<<m, n>> \in OpToRel(<, Nat))
  BY WFMin, NatLessThanWellFounded
<1>2. \A m \in T : ~(m < n)
  BY <1>1 DEF OpToRel
<1>3. QED
  BY <1>2

LEMMA NaturalsBySteps ==
  ASSUME NEW T, 0 \in T, \A n \in Nat : n \in T => n + 1 \in T
  PROVE  Nat \subseteq T
<1> SUFFICES ASSUME Nat \ T # {} PROVE FALSE
  OBVIOUS
<1>1. PICK n \in Nat \ T : \A m \in Nat \ T : n <= m
  BY LeastNumber
<1>2. n - 1 \in Nat /\ n - 1 \in T
  BY <1>1
<1>3. QED
  BY <1>2

(* The subsets of a finite set are well-founded; so what holds of {}, and of *)
(* s if of s without pick[s], holds of all.                                *)
LEMMA SmallestSubset ==
  ASSUME NEW S, IsFiniteSet(S), NEW C \in SUBSET SUBSET S, C # {}
  PROVE  \E s \in C : \A t \in C : t \subseteq s => t = s
<1>1. IsWellFoundedOn(StrictSubsetOrdering(S), SUBSET S)
  BY FS_StrictSubsetOrderingWellFounded, FS_FiniteSubsetsOfFinite
<1>2. PICK s \in C : \A t \in C : ~(<<t, s>> \in StrictSubsetOrdering(S))
  BY <1>1, WFMin, Zenon
<1>3. QED
  BY <1>2 DEF StrictSubsetOrdering

LEMMA BySubsets ==
  ASSUME NEW S, IsFiniteSet(S), NEW pick, \A s \in SUBSET S : s # {} => pick[s] \in s,
         NEW T, {} \in T, \A s \in SUBSET S : s # {} /\ s \ {pick[s]} \in T => s \in T
  PROVE  SUBSET S \subseteq T
<1> DEFINE C == {s \in SUBSET S : s \notin T}
<1> SUFFICES ASSUME C # {} PROVE FALSE
  OBVIOUS
<1>1. PICK s \in C : \A t \in C : t \subseteq s => t = s
  <2>1. C \in SUBSET SUBSET S
    OBVIOUS
  <2> HIDE DEF C
  <2>2. QED
    BY <2>1, SmallestSubset
<1>2. s \in SUBSET S /\ s \notin T /\ s # {}
  BY <1>1
<1>3. pick[s] \in s /\ s \ {pick[s]} \in SUBSET S
  BY <1>2
<1>4. s \ {pick[s]} \in T
  BY <1>1, <1>3
<1>5. QED
  BY <1>2, <1>4

(* g is the fold of op over the subsets of S, in the order of pick.       *)
IsFold(g, S, base, pick, op) ==
  \A s \in SUBSET S : g[s] = IF s = {} THEN base ELSE op[pick[s]][g[s \ {pick[s]}]]

(* The equations of a fold have a solution: one for the subsets with up to n *)
(* elements, for each n.                                                   *)
LEMMA FoldExists ==
  ASSUME NEW S, IsFiniteSet(S), NEW B, NEW base \in B,
         NEW pick, \A s \in SUBSET S : s # {} => pick[s] \in s,
         NEW op, \A x \in S, b \in B : op[x][b] \in B
  PROVE  \E g \in [SUBSET S -> B] : IsFold(g, S, base, pick, op)
<1> DEFINE UpTo_(n) == {s \in SUBSET S : Cardinality(s) <= n}
           Folds(g, n) == \A s \in UpTo_(n) :
                            g[s] = IF s = {} THEN base ELSE op[pick[s]][g[s \ {pick[s]}]]
           T == {n \in Nat : \E g \in [UpTo_(n) -> B] : Folds(g, n)}
<1>1. \A s \in SUBSET S : /\ IsFiniteSet(s) /\ Cardinality(s) \in Nat
                          /\ Cardinality(s) <= Cardinality(S) /\ (Cardinality(s) = 0 <=> s = {})
  BY FS_Subset, FS_CardinalityType, FS_EmptySet
<1>2. \A n \in Nat : \A s \in UpTo_(n + 1) : s # {} =>
         pick[s] \in S /\ s \ {pick[s]} \in UpTo_(n)
  <2> TAKE n \in Nat
  <2> TAKE s \in UpTo_(n + 1)
  <2> HAVE s # {}
  <2>1. pick[s] \in s /\ pick[s] \in S
    OBVIOUS
  <2>2. Cardinality(s \ {pick[s]}) = Cardinality(s) - 1
    BY <1>1, <2>1, FS_RemoveElement
  <2>3. QED
    BY <1>1, <2>1, <2>2
<1>3. 0 \in T
  <2> DEFINE g == [s \in UpTo_(0) |-> base]
  <2>1. \A s \in UpTo_(0) : s = {}
    BY <1>1
  <2>2. g \in [UpTo_(0) -> B] /\ Folds(g, 0)
    BY <2>1
  <2>3. QED
    BY <2>2
<1>4. ASSUME NEW n \in Nat, n \in T PROVE n + 1 \in T
  <2>1. PICK g \in [UpTo_(n) -> B] : Folds(g, n)
    BY <1>4
  <2> DEFINE h == [s \in UpTo_(n + 1) |->
                     IF s = {} THEN base ELSE op[pick[s]][g[s \ {pick[s]}]]]
  <2>2. h \in [UpTo_(n + 1) -> B]
    <3>1. \A s \in UpTo_(n + 1) : s # {} => op[pick[s]][g[s \ {pick[s]}]] \in B
      BY <1>2, <2>1
    <3>2. QED
      BY <3>1
  <2>3. \A s \in UpTo_(n) : s \in UpTo_(n + 1) /\ h[s] = g[s]
    <3>1. \A s \in UpTo_(n) : s \in UpTo_(n + 1)
      BY <1>1
    <3>2. \A s \in UpTo_(n) :
             g[s] = IF s = {} THEN base ELSE op[pick[s]][g[s \ {pick[s]}]]
      BY <2>1
    <3>3. \A s \in UpTo_(n + 1) :
             h[s] = IF s = {} THEN base ELSE op[pick[s]][g[s \ {pick[s]}]]
      OBVIOUS
    <3>4. QED
      BY <3>1, <3>2, <3>3, Zenon
  <2>4. Folds(h, n + 1)
    BY <1>2, <2>3
  <2>5. \E g_ \in [UpTo_(n + 1) -> B] : Folds(g_, n + 1)
    BY <2>2, <2>4, Zenon
  <2> HIDE DEF UpTo_, Folds
  <2>6. QED
    BY <2>5
<1>5. Cardinality(S) \in T
  <2> HIDE DEF T
  <2>1. QED
    BY <1>1, <1>3, <1>4, NaturalsBySteps
<1>6. UpTo_(Cardinality(S)) = SUBSET S
  BY <1>1
<1>7. QED
  BY <1>5, <1>6 DEF IsFold

(* A bounded set of numbers has a largest one, and Max is it.              *)
LEMMA LargestNumber ==
  ASSUME NEW T \in SUBSET Nat, T # {}, NEW n \in Nat, \A m \in T : m <= n
  PROVE  SE!Max(T) \in T
<1> DEFINE U == {u \in Nat : n - u \in T}
<1>1. PICK u \in U : \A w \in U : u <= w
  <2>1. U \in SUBSET Nat
    OBVIOUS
  <2>2. PICK m \in T : TRUE
    OBVIOUS
  <2>3. n - m \in Nat /\ n - (n - m) = m
    BY <2>2
  <2>4. n - m \in U
    BY <2>3
  <2>5. QED
    BY <2>1, <2>4, LeastNumber
<1>2. \A l \in T : n - u >= l
  <2> TAKE l \in T
  <2>1. n - l \in Nat /\ n - (n - l) = l
    OBVIOUS
  <2>2. n - l \in U
    BY <2>1
  <2>3. QED
    <3>1. u <= n - l /\ u \in Nat /\ l \in Nat
      BY <1>1, <2>2
    <3>2. QED
      BY <3>1
<1>3. n - u \in T
  BY <1>1
<1>4. QED
  BY <1>2, <1>3 DEF SE!Max

-----------------------------------------------------------------------------
(* The segments that path.Clean keeps, and what it does with one segment.  *)
Good(D) == D \ {Empty, Dot, DotDot}

CleanStep(done, segment) ==
  IF segment \in {Empty, Dot} THEN done
  ELSE IF segment # DotDot THEN Append(done, segment)
  ELSE IF done = << >> THEN done ELSE SE!Front(done)

(* No segment that Clean drops is ever among those that it has kept.       *)
LEMMA CleanStepType ==
  ASSUME NEW D, NEW done \in Seq(Good(D)), NEW segment \in D
  PROVE  CleanStep(done, segment) \in Seq(Good(D))
<1>1. CASE segment \in {Empty, Dot}
  BY <1>1 DEF CleanStep
<1>2. CASE segment \notin {Empty, Dot, DotDot}
  <2>1. segment \in Good(D)
    BY <1>2 DEF Good
  <2>2. QED
    BY <1>2, <2>1 DEF CleanStep
<1>3. CASE segment = DotDot /\ segment \notin {Empty, Dot}
  <2>1. done # << >> => SE!Front(done) \in Seq(Good(D))
    BY DEF SE!Front
  <2>2. QED
    BY <1>3, <2>1 DEF CleanStep
<1>4. QED
  BY <1>1, <1>2, <1>3

(* CleanSegments takes the segments one by one.                            *)
LEMMA CleanSegmentsIsFold ==
  ASSUME NEW D, NEW path \in Seq(D)
  PROVE  \E g : /\ CleanSegments(path) = g[DOMAIN path]
               /\ \A s \in SUBSET DOMAIN path :
                    g[s] = IF s = {} THEN << >>
                           ELSE CleanStep(g[s \ {SE!Max(s)}], path[SE!Max(s)])
<1> DEFINE S == DOMAIN path
           iter == CHOOSE g : g = [s \in SUBSET S |->
                     IF s = {} THEN << >> ELSE CleanStep(g[s \ {SE!Max(s)}], path[SE!Max(s)])]
<1>1. CleanSegments(path) = iter[S]
  BY DEF CleanSegments, SE!FoldLeft, SE!MapThenFoldSet, CleanStep
<1>2. /\ DOMAIN path = 1 .. Len(path) /\ Len(path) \in Nat /\ IsFiniteSet(S)
      /\ \A i \in S : path[i] \in D
  <2>1. DOMAIN path = 1 .. Len(path) /\ Len(path) \in Nat
    BY LenProperties
  <2>2. QED
    BY <2>1, FS_Interval, ElementOfSeq
<1>3. \A s \in SUBSET S : s # {} => SE!Max(s) \in s
  <2> TAKE s \in SUBSET S
  <2> HAVE s # {}
  <2>1. s \in SUBSET Nat /\ \A m \in s : m <= Len(path)
    BY <1>2
  <2>2. QED
    BY <1>2, <2>1, LargestNumber
<1>4. iter = [s \in SUBSET S |->
                IF s = {} THEN << >> ELSE CleanStep(iter[s \ {SE!Max(s)}], path[SE!Max(s)])]
  <2> DEFINE pick == [s \in SUBSET S |-> SE!Max(s)]
             op == [i \in S |-> [done \in Seq(Good(D)) |-> CleanStep(done, path[i])]]
  <2>1. \A s \in SUBSET S : s # {} => pick[s] \in s /\ pick[s] = SE!Max(s)
    BY <1>3
  <2>2. \A i \in S, done \in Seq(Good(D)) :
           op[i][done] = CleanStep(done, path[i]) /\ op[i][done] \in Seq(Good(D))
    BY <1>2, CleanStepType
  <2>3. << >> \in Seq(Good(D))
    OBVIOUS
  <2> HIDE DEF pick, op, S
  <2>4. PICK g \in [SUBSET S -> Seq(Good(D))] : IsFold(g, S, << >>, pick, op)
    <3>1. \A s \in SUBSET S : s # {} => pick[s] \in s
      BY <2>1
    <3>2. \A i \in S, done \in Seq(Good(D)) : op[i][done] \in Seq(Good(D))
      BY <2>2
    <3>3. IsFiniteSet(S)
      BY <1>2
    <3>4. QED
      BY <2>3, <3>1, <3>2, <3>3, FoldExists
  <2>5. \A s \in SUBSET S :
           g[s] = IF s = {} THEN << >> ELSE CleanStep(g[s \ {SE!Max(s)}], path[SE!Max(s)])
    <3> TAKE s \in SUBSET S
    <3>1. CASE s = {}
      BY <2>4, <3>1 DEF IsFold
    <3>2. CASE s # {}
      <4>1. pick[s] = SE!Max(s) /\ SE!Max(s) \in S /\ s \ {SE!Max(s)} \in SUBSET S
        BY <2>1, <3>2
      <4>2. g[s \ {SE!Max(s)}] \in Seq(Good(D))
        BY <4>1
      <4>3. g[s] = op[SE!Max(s)][g[s \ {SE!Max(s)}]]
        BY <2>4, <3>2, <4>1 DEF IsFold
      <4>4. QED
        BY <2>2, <3>2, <4>1, <4>2, <4>3
    <3>3. QED
      BY <3>1, <3>2
  <2>6. g = [s \in SUBSET S |->
               IF s = {} THEN << >> ELSE CleanStep(g[s \ {SE!Max(s)}], path[SE!Max(s)])]
    BY <2>5
  <2>7. QED
    BY <2>6, Zenon
<1>5. \A s \in SUBSET S :
         iter[s] = IF s = {} THEN << >> ELSE CleanStep(iter[s \ {SE!Max(s)}], path[SE!Max(s)])
  <2> HIDE DEF iter
  <2>1. QED
    BY <1>4
<1>6. QED
  BY <1>1, <1>5, Zenon DEF S

(* So what is left of a path is segments that Clean keeps.                 *)
LEMMA CleanSegmentsType ==
  ASSUME NEW D, NEW path \in Seq(D)
  PROVE  CleanSegments(path) \in Seq(Good(D))
<1>1. PICK g : /\ CleanSegments(path) = g[DOMAIN path]
               /\ \A s \in SUBSET DOMAIN path :
                    g[s] = IF s = {} THEN << >>
                           ELSE CleanStep(g[s \ {SE!Max(s)}], path[SE!Max(s)])
  BY CleanSegmentsIsFold, Zenon
<1>2. DOMAIN path = 1 .. Len(path) /\ Len(path) \in Nat /\ \A i \in 1 .. Len(path) : path[i] \in D
  BY LenProperties, ElementOfSeq
<1> DEFINE T == {n \in Nat : n <= Len(path) => g[1 .. n] \in Seq(Good(D))}
<1>3. 0 \in T
  <2>1. 1 .. 0 = {} /\ {} \in SUBSET DOMAIN path
    OBVIOUS
  <2>2. g[1 .. 0] = << >>
    BY <1>1, <2>1
  <2>3. g[1 .. 0] \in Seq(Good(D))
    BY <2>2
  <2>4. QED
    BY <2>3
<1>4. ASSUME NEW n \in Nat, n \in T
      PROVE  n + 1 \in T
  <2> SUFFICES ASSUME n + 1 <= Len(path)
               PROVE  g[1 .. n + 1] \in Seq(Good(D))
    OBVIOUS
  <2>1. /\ 1 .. n + 1 \in SUBSET DOMAIN path /\ 1 .. n + 1 # {}
        /\ (1 .. n + 1) \ {n + 1} = 1 .. n
        /\ n + 1 \in 1 .. Len(path)
    BY <1>2
  <2>2. SE!Max(1 .. n + 1) = n + 1
    BY DEF SE!Max
  <2>3. g[1 .. n + 1] = CleanStep(g[1 .. n], path[n + 1])
    BY <1>1, <2>1, <2>2
  <2>4. path[n + 1] \in D
    BY <1>2, <2>1
  <2>5. g[1 .. n] \in Seq(Good(D))
    BY <1>2, <1>4
  <2>6. QED
    BY <2>3, <2>4, <2>5, CleanStepType
<1>5. Len(path) \in T
  <2> HIDE DEF T
  <2>1. QED
    BY <1>2, <1>3, <1>4, NaturalsBySteps
<1>6. QED
  BY <1>1, <1>2, <1>5

(* The path that a request is redirected to is canonical.                  *)
LEMMA CleanIsCanonical ==
  ASSUME NEW D, NEW path \in Seq(D)
  PROVE  Canonical(cleanPath(path)) /\ cleanPath(path) \in Seq(D \cup {Empty})
<1> DEFINE clean == CleanSegments(path)
<1>1. /\ clean \in Seq(Good(D)) /\ Len(clean) \in Nat
      /\ \A i \in 1 .. Len(clean) : clean[i] \in Good(D)
  BY CleanSegmentsType, LenProperties, ElementOfSeq
<1>2. Empty # Dot /\ Empty # DotDot /\ \A name \in Good(D) : name \notin {Empty, Dot, DotDot}
  BY DEF Empty, Dot, DotDot, Good
<1>3. Canonical(Root)
  BY <1>2 DEF Canonical, Root
<1> DEFINE whole == <<Empty>> \o clean
           slashed == Append(whole, Empty)
           Segments == Good(D) \cup {Empty}
<1>4. whole \in Seq(Segments) /\ Len(whole) = Len(clean) + 1 /\ whole[1] = Empty
      /\ \A i \in 2 .. Len(whole) : whole[i] = clean[i - 1]
  <2>1. clean \in Seq(Segments) /\ <<Empty>> \in Seq(Segments)
    BY <1>1, SeqMonotonic
  <2>2. Len(<<Empty>>) = 1 /\ <<Empty>>[1] = Empty
    OBVIOUS
  <2> HIDE DEF clean, Segments
  <2>3. /\ whole \in Seq(Segments) /\ Len(whole) = 1 + Len(clean)
        /\ \A i \in 1 .. 1 + Len(clean) : whole[i] = IF i <= 1 THEN <<Empty>>[i] ELSE clean[i - 1]
    BY <2>1, <2>2, ConcatProperties
  <2>4. QED
    BY <1>1, <2>2, <2>3
<1>5. \A i \in 2 .. Len(whole) : whole[i] \in Good(D)
  BY <1>1, <1>4
<1>6. clean # << >> => Len(whole) >= 2
  BY <1>1, <1>4
<1>7. /\ Len(slashed) = Len(whole) + 1 /\ slashed[1] = Empty
      /\ \A i \in 2 .. Len(whole) : slashed[i] = whole[i]
      /\ slashed[Len(whole) + 1] = Empty
  <2> HIDE DEF whole
  <2>1. QED
    BY <1>4
<1> HIDE DEF clean, whole, slashed
<1>8. clean # << >> => Canonical(whole)
  <2> SUFFICES ASSUME clean # << >> PROVE Canonical(whole)
    OBVIOUS
  <2>1. \A i \in DOMAIN whole : i = 1 \/ i \in 2 .. Len(whole)
    BY <1>4
  <2>2. \A i \in DOMAIN whole : whole[i] \notin {Dot, DotDot}
    BY <1>2, <1>4, <1>5, <2>1
  <2>3. \A i \in 2 .. Len(whole) - 1 : i \in 2 .. Len(whole)
    BY <1>1, <1>4
  <2>4. QED
    BY <1>2, <1>4, <1>5, <1>6, <2>2, <2>3 DEF Canonical
<1>9. clean # << >> => Canonical(slashed)
  <2> SUFFICES ASSUME clean # << >> PROVE Canonical(slashed)
    OBVIOUS
  <2>1. Len(whole) \in Nat /\ Len(slashed) - 1 = Len(whole) /\ Len(slashed) >= 2
    BY <1>1, <1>4, <1>6, <1>7
  <2>2. DOMAIN slashed = 1 .. Len(whole) + 1
    BY <1>4 DEF slashed
  <2>3. \A i \in DOMAIN slashed : slashed[i] = Empty \/ slashed[i] \in Good(D)
    <3>1. \A i \in DOMAIN slashed : i = 1 \/ i \in 2 .. Len(whole) \/ i = Len(whole) + 1
      BY <2>1, <2>2
    <3>2. QED
      BY <1>5, <1>7, <3>1
  <2>4. \A i \in 2 .. Len(slashed) - 1 : slashed[i] \in Good(D)
    BY <1>5, <1>7, <2>1
  <2>5. QED
    BY <1>2, <1>7, <2>1, <2>3, <2>4 DEF Canonical
<1>10. cleanPath(path) \in {Root, whole, slashed} /\ (clean = << >> => cleanPath(path) = Root)
  <2>1. Clean(path) = IF clean = << >> THEN Root ELSE whole
    BY DEF Clean, clean, whole
  <2>2. QED
    BY <2>1 DEF cleanPath, slashed
<1>11. {Root, whole, slashed} \subseteq Seq(D \cup {Empty})
  <2>1. Segments \subseteq D \cup {Empty}
    BY DEF Good
  <2>2. whole \in Seq(D \cup {Empty})
    <3> HIDE DEF Segments
    <3>1. QED
      BY <1>4, <2>1, SeqMonotonic
  <2>3. slashed \in Seq(D \cup {Empty})
    BY <2>2 DEF slashed
  <2>4. Root \in Seq(D \cup {Empty})
    BY DEF Root
  <2>5. QED
    BY <2>2, <2>3, <2>4
<1>12. QED
  BY <1>3, <1>8, <1>9, <1>10, <1>11


(* What the segments of a request are, and what a redirect leads to.       *)
Segments == Seq(STRING) \cup {Empty}

RedirectsInv ==
  \A p \in Procs : answer[p].kind = "redirect" =>
                     answer[p].path \in Seq(Segments) /\ Canonical(answer[p].path)

LEMMA RedirectsStep ==
  ASSUME ContextInv, AnswersInv, RedirectsInv, [ServerNext]_allVars
  PROVE  RedirectsInv'
<1>1. \A q \in Procs : \/ answer'[q] = answer[q] \/ answer'[q].kind # "redirect"
                        \/ \E path \in Seq(Segments) : answer'[q].path = cleanPath(path)
  <2> TAKE q \in Procs
  <2>1. CASE answer' = answer
    BY <2>1
  <2>2. ASSUME NEW p \in Procs, Redirect(p)
        PROVE  \/ answer'[q] = answer[q]
               \/ \E path \in Seq(Segments) : answer'[q].path = cleanPath(path)
    <3>1. req[p].path \in Seq(Segments)
      <4>1. req[p].path \in Paths \cup {Root}
        BY DEF ContextInv, RequestsInv, Request
      <4>2. Root \in Seq(Segments)
        BY DEF Root, Segments
      <4>3. Seq(Seq(STRING)) \subseteq Seq(Segments)
        BY SeqMonotonic DEF Segments
      <4>4. QED
        BY <4>1, <4>2, <4>3, ServerAssumption
    <3>2. p # q => answer'[q] = answer[q]
      BY <2>2 DEF Redirect, AnswersInv
    <3>3. p = q => answer'[q].path = cleanPath(req[p].path)
      BY <2>2 DEF Redirect, AnswersInv
    <3>4. QED
      BY <3>1, <3>2, <3>3
  <2>3. ASSUME NEW p \in Procs, NEW kind, kind # "redirect", AnswerAs(p, kind)
        PROVE  answer'[q] = answer[q] \/ answer'[q].kind # "redirect"
    BY <2>3 DEF AnswerAs, AnswersInv
  <2>4. ASSUME NEW p \in Procs, Match(p)
        PROVE  answer'[q] = answer[q] \/ answer'[q].kind # "redirect"
    BY <2>3, <2>4 DEF Match
  <2>5. ASSUME NEW p \in Procs, Resizing(p)
        PROVE  answer'[q] = answer[q] \/ answer'[q].kind # "redirect"
    <3>1. CASE AnswerAs(p, "panic") \/ AnswerAs(p, "bad request")
      BY <2>3, <3>1
    <3>2. ASSUME NEW id, NEW ext,
                 answer' = [answer EXCEPT ![p] = [kind |-> "none", path |-> req[p].path,
                                                  id |-> id, ext |-> ext]]
          PROVE  answer'[q] = answer[q] \/ answer'[q].kind # "redirect"
      BY <3>2 DEF AnswersInv
    <3>3. QED
      BY <2>5, <3>1, <3>2, Zenon DEF Resizing
  <2>6. ASSUME NEW p \in Procs, Answer(p)
        PROVE  answer'[q] = answer[q] \/ answer'[q].kind # "redirect"
    <3>1. PICK kind \in Ends(p) :
            answer' = [answer EXCEPT ![p].kind = kind, ![p].path = req[p].path]
      BY <2>6 DEF Answer
    <3>2. kind # "redirect"
      BY DEF Ends
    <3>3. QED
      BY <3>1, <3>2 DEF AnswersInv
  <2>7. ASSUME NEW p \in Procs, Clear(p)
        PROVE  answer'[q] = answer[q] \/ answer'[q].kind # "redirect"
    BY <2>7 DEF Clear, NoAnswer, AnswersInv
  <2>8. ASSUME NEW p \in Procs, SetVars(p) \/ SetCurrentRoute(p) \/ OtherHandler(p) \/ Arrive(p)
        PROVE  answer' = answer
    BY <2>8 DEF SetVars, SetCurrentRoute, OtherHandler, Arrive, Receive
  <2>9. QED
    BY <2>1, <2>2, <2>4, <2>5, <2>6, <2>7, <2>8
       DEF ServerNext, Work, Serve, allVars, serverVars
<1>2. \A path \in Seq(Segments) : Canonical(cleanPath(path)) /\ cleanPath(path) \in Seq(Segments)
  <2>1. Segments \cup {Empty} = Segments
    BY DEF Segments
  <2>2. QED
    BY <2>1, CleanIsCanonical
<1>3. \A q \in Procs : answer'[q].kind = "redirect" =>
                        answer'[q].path \in Seq(Segments) /\ Canonical(answer'[q].path)
  BY <1>1, <1>2 DEF RedirectsInv
<1>4. QED
  BY <1>3 DEF RedirectsInv, Canonical

LEMMA RedirectsAlwaysCanonical == ServerSpec => []RedirectsInv
<1>1. ServerInit => ContextInv /\ AnswersInv /\ RedirectsInv
  <2>1. NoAnswer.kind # "redirect"
    BY DEF NoAnswer
  <2>2. ServerInit => RedirectsInv
    BY <2>1 DEF ServerInit, RedirectsInv
  <2>3. QED
    BY <2>2, InvariantsHoldAtFirst, AnswersHoldAtFirst
<1>2. ContextInv /\ AnswersInv /\ RedirectsInv /\ [ServerNext]_allVars
        => (ContextInv /\ AnswersInv /\ RedirectsInv)'
  BY ContextStep, AnswersStep, RedirectsStep
<1>3. QED
  BY <1>1, <1>2, PTL DEF ServerSpec

(***************************************************************************)
(* A redirect leads to a path without empty segments inside it, "." and    *)
(* "..", whatever path was asked for (mux.go 75-88, 347-361).              *)
(***************************************************************************)
THEOREM RedirectsAlwaysOnce == ServerSpec => []RedirectsOnce
<1>1. RedirectsInv => RedirectsOnce
  BY DEF RedirectsInv, RedirectsOnce
<1>2. QED
  BY <1>1, RedirectsAlwaysCanonical, PTL

-----------------------------------------------------------------------------
(* A segment more.                                                         *)
LEMMA OneSegmentMore ==
  ASSUME NEW D, NEW path \in Seq(D), NEW i \in 1 .. Len(path), i + 1 \in 1 .. Len(path)
  PROVE  Append(SubSeq(path, 2, i), path[i + 1]) = SubSeq(path, 2, i + 1)
<1> DEFINE short == SubSeq(path, 2, i)
           long == SubSeq(path, 2, i + 1)
<1>1. Len(path) \in Nat /\ i \in Nat /\ \A m \in 1 .. Len(path) : path[m] \in D
  BY LenProperties, ElementOfSeq
<1>2. /\ \A m \in 2 .. i : path[m] \in D
      /\ \A m \in 2 .. i + 1 : path[m] \in D
  BY <1>1
<1>3. /\ short \in Seq(D) /\ Len(short) = i - 1
      /\ \A m \in 1 .. i - 1 : short[m] = path[m + 1]
  <2>1. /\ short \in Seq(D) /\ Len(short) = IF 2 <= i THEN i - 2 + 1 ELSE 0
        /\ \A m \in 1 .. i - 2 + 1 : short[m] = path[2 + m - 1]
    BY <1>1, <1>2, SubSeqProperties
  <2>2. \A m \in 1 .. i - 1 : m \in 1 .. i - 2 + 1 /\ 2 + m - 1 = m + 1
    BY <1>1
  <2>3. QED
    BY <1>1, <2>1, <2>2
<1>4. /\ long \in Seq(D) /\ Len(long) = i
      /\ \A m \in 1 .. i : long[m] = path[m + 1]
  <2>1. /\ long \in Seq(D) /\ Len(long) = IF 2 <= i + 1 THEN i + 1 - 2 + 1 ELSE 0
        /\ \A m \in 1 .. i + 1 - 2 + 1 : long[m] = path[2 + m - 1]
    BY <1>1, <1>2, SubSeqProperties
  <2>2. \A m \in 1 .. i : m \in 1 .. i + 1 - 2 + 1 /\ 2 + m - 1 = m + 1
    BY <1>1
  <2>3. QED
    BY <1>1, <2>1, <2>2
<1>5. path[i + 1] \in D
  BY <1>1
<1> HIDE DEF short, long
<1>6. /\ Append(short, path[i + 1]) \in Seq(D) /\ Len(Append(short, path[i + 1])) = Len(short) + 1
      /\ \A m \in 1 .. Len(short) : Append(short, path[i + 1])[m] = short[m]
      /\ Append(short, path[i + 1])[Len(short) + 1] = path[i + 1]
  BY <1>3, <1>5, AppendProperties
<1> DEFINE new == Append(short, path[i + 1])
<1> HIDE DEF new
<1>7. new \in Seq(D) /\ Len(new) = i /\ new[i] = path[i + 1]
      /\ \A m \in 1 .. i - 1 : new[m] = path[m + 1]
  BY <1>1, <1>3, <1>6 DEF new
<1>8. \A m \in 1 .. i : new[m] = long[m]
  <2> TAKE m \in 1 .. i
  <2>1. CASE m = i
    BY <1>4, <1>7, <2>1
  <2>2. CASE m # i
    <3>1. m \in 1 .. i - 1
      BY <1>1, <2>2
    <3>2. QED
      BY <1>4, <1>7, <3>1
  <2>3. QED
    BY <2>1, <2>2
<1>9. new = long
  BY <1>4, <1>7, <1>8, SeqEqual
<1>10. QED
  BY <1>9 DEF new, short, long

(* Of a canonical path no segment is dropped but the empty ones at its     *)
(* ends.                                                                   *)
LEMMA CanonicalSegments ==
  ASSUME NEW D, NEW path \in Seq(D), Canonical(path)
  PROVE  CleanSegments(path) = IF path[Len(path)] = Empty THEN SubSeq(path, 2, Len(path) - 1)
                                                          ELSE SubSeq(path, 2, Len(path))
<1> DEFINE n == Len(path)
<1>1. PICK g : /\ CleanSegments(path) = g[DOMAIN path]
               /\ \A s \in SUBSET DOMAIN path :
                    g[s] = IF s = {} THEN << >>
                           ELSE CleanStep(g[s \ {SE!Max(s)}], path[SE!Max(s)])
  BY CleanSegmentsIsFold, Zenon
<1>2. DOMAIN path = 1 .. n /\ n \in Nat
  BY LenProperties
<1>3. /\ n >= 2 /\ path[1] = Empty /\ \A i \in 1 .. n : path[i] \notin {Dot, DotDot}
      /\ \A i \in 2 .. n - 1 : path[i] # Empty
  BY <1>2 DEF Canonical
<1> HIDE DEF n
<1>4. ASSUME NEW i \in Nat, i + 1 \in 1 .. n
      PROVE  g[1 .. i + 1] = CleanStep(g[1 .. i], path[i + 1])
  <2>1. /\ 1 .. i + 1 \in SUBSET DOMAIN path /\ 1 .. i + 1 # {}
        /\ (1 .. i + 1) \ {i + 1} = 1 .. i
    <3>1. i + 1 <= n
      BY <1>2, <1>4
    <3>2. 1 .. i + 1 \subseteq 1 .. n
      BY <1>2, <3>1
    <3>3. 1 .. i + 1 # {} /\ (1 .. i + 1) \ {i + 1} = 1 .. i
      OBVIOUS
    <3>4. QED
      BY <1>2, <3>2, <3>3
  <2>2. SE!Max(1 .. i + 1) = i + 1
    BY DEF SE!Max
  <2>3. QED
    BY <1>1, <2>1, <2>2
<1>5. g[{}] = << >>
  BY <1>1
<1> DEFINE T == {i \in Nat : i \in 1 .. n - 1 => g[1 .. i] = SubSeq(path, 2, i)}
<1>6. 0 \in T
  OBVIOUS
<1>7. ASSUME NEW i \in Nat, i \in T
      PROVE  i + 1 \in T
  <2> SUFFICES ASSUME i + 1 \in 1 .. n - 1
               PROVE  g[1 .. i + 1] = SubSeq(path, 2, i + 1)
    OBVIOUS
  <2>1. i + 1 \in 1 .. n
    BY <1>2
  <2>2. g[1 .. i + 1] = CleanStep(g[1 .. i], path[i + 1])
    BY <1>4, <2>1
  <2>3. CASE i = 0
    <3>1. 1 .. 0 = {} /\ i + 1 = 1
      BY <2>3
    <3>2. g[1 .. i + 1] = << >>
      BY <1>3, <1>5, <2>2, <2>3, <3>1 DEF CleanStep
    <3>3. SubSeq(path, 2, 1) = << >>
      BY SubSeqEmpty
    <3>4. QED
      BY <3>1, <3>2, <3>3
  <2>4. CASE i # 0
    <3>1. i \in 1 .. n /\ i \in 1 .. n - 1 /\ i + 1 \in 2 .. n - 1
      BY <1>2, <2>4
    <3>2. path[i + 1] \notin {Empty, Dot, DotDot}
      BY <1>3, <2>1, <3>1
    <3>3. g[1 .. i + 1] = Append(SubSeq(path, 2, i), path[i + 1])
      BY <1>7, <2>2, <3>1, <3>2 DEF CleanStep
    <3>4. QED
      BY <2>1, <3>1, <3>3, OneSegmentMore DEF n
  <2>5. QED
    BY <2>3, <2>4
<1>8. \A i \in Nat : i \in T
  <2> HIDE DEF T
  <2>1. QED
    BY <1>6, <1>7, NaturalsBySteps
<1>9. /\ n - 1 \in Nat /\ n - 1 \in 1 .. n - 1 /\ n - 1 + 1 = n /\ n \in 1 .. n
      /\ n - 1 \in 1 .. n
  BY <1>2, <1>3
<1>10. g[1 .. n - 1] = SubSeq(path, 2, n - 1)
  BY <1>8, <1>9
<1>11. g[1 .. n] = CleanStep(SubSeq(path, 2, n - 1), path[n])
  BY <1>4, <1>9, <1>10
<1>12. CleanSegments(path) = CleanStep(SubSeq(path, 2, n - 1), path[n])
  BY <1>1, <1>2, <1>11
<1>13. CASE path[n] = Empty
  BY <1>12, <1>13 DEF CleanStep, n
<1>14. CASE path[n] # Empty
  <2>1. CleanSegments(path) = Append(SubSeq(path, 2, n - 1), path[n])
    BY <1>3, <1>9, <1>12, <1>14 DEF CleanStep
  <2>2. Append(SubSeq(path, 2, n - 1), path[n - 1 + 1]) = SubSeq(path, 2, n - 1 + 1)
    BY <1>9, OneSegmentMore DEF n
  <2>3. CleanSegments(path) = SubSeq(path, 2, n)
    BY <1>9, <2>1, <2>2
  <2>4. QED
    BY <1>14, <2>3 DEF n
<1>15. QED
  BY <1>13, <1>14

(* A part of a path with the slash before it.                              *)
LEMMA WithTheSlash ==
  ASSUME NEW D, NEW path \in Seq(D), path[1] = Empty, NEW m \in 1 .. Len(path)
  PROVE  /\ <<Empty>> \o SubSeq(path, 2, m) \in Seq(D) /\ Len(<<Empty>> \o SubSeq(path, 2, m)) = m
         /\ \A i \in 1 .. m : (<<Empty>> \o SubSeq(path, 2, m))[i] = path[i]
         /\ (SubSeq(path, 2, m) = << >> <=> m = 1)
<1> DEFINE rest == SubSeq(path, 2, m)
<1>1. Len(path) \in Nat /\ m \in Nat \ {0} /\ \A i \in 1 .. Len(path) : path[i] \in D
  BY LenProperties, ElementOfSeq
<1>2. \A i \in 2 .. m : path[i] \in D
  BY <1>1
<1>3. /\ rest \in Seq(D) /\ Len(rest) = m - 1
      /\ \A i \in 1 .. m - 1 : rest[i] = path[i + 1]
  <2>1. /\ rest \in Seq(D) /\ Len(rest) = IF 2 <= m THEN m - 2 + 1 ELSE 0
        /\ \A i \in 1 .. m - 2 + 1 : rest[i] = path[2 + i - 1]
    BY <1>1, <1>2, SubSeqProperties
  <2>2. \A i \in 1 .. m - 1 : i \in 1 .. m - 2 + 1 /\ 2 + i - 1 = i + 1
    BY <1>1
  <2>3. QED
    BY <1>1, <2>1, <2>2
<1> HIDE DEF rest
<1>4. <<Empty>> \in Seq(D) /\ Len(<<Empty>>) = 1 /\ <<Empty>>[1] = Empty
  <2>1. Empty \in D
    <3>1. 1 \in 1 .. Len(path)
      BY <1>1
    <3>2. QED
      BY <1>1, <3>1
  <2>2. QED
    BY <2>1
<1> DEFINE slash == <<Empty>>
           whole == slash \o rest
<1> HIDE DEF slash
<1>5. /\ whole \in Seq(D) /\ Len(whole) = Len(slash) + Len(rest)
      /\ \A i \in 1 .. Len(slash) + Len(rest) :
            whole[i] = IF i <= Len(slash) THEN slash[i] ELSE rest[i - Len(slash)]
  BY <1>3, <1>4, ConcatProperties DEF slash
<1>6. Len(slash) = 1 /\ slash[1] = Empty /\ Len(slash) + Len(rest) = m
  BY <1>1, <1>3, <1>4 DEF slash
<1> HIDE DEF whole
<1>7. \A i \in 1 .. m : whole[i] = path[i]
  <2> TAKE i \in 1 .. m
  <2>1. CASE i = 1
    BY <1>1, <1>5, <1>6, <2>1
  <2>2. CASE i # 1
    <3>1. ~(i <= 1) /\ i - 1 \in 1 .. m - 1 /\ i - 1 + 1 = i
      BY <1>1, <2>2
    <3>2. whole[i] = rest[i - 1]
      BY <1>5, <1>6, <3>1
    <3>3. QED
      BY <1>3, <3>1, <3>2
  <2>3. QED
    BY <2>1, <2>2
<1>8. rest = << >> <=> m = 1
  <2>1. rest = << >> => Len(rest) = 0
    BY EmptySeq
  <2>2. rest # << >> => Len(rest) # 0
    BY <1>3, EmptySeq
  <2>3. QED
    BY <1>1, <1>3, <2>1, <2>2
<1>9. QED
  BY <1>5, <1>6, <1>7, <1>8 DEF whole, slash, rest

(* A canonical path is the one that is asked for again.                    *)
LEMMA CanonicalIsClean ==
  ASSUME NEW D, NEW path \in Seq(D), Canonical(path)
  PROVE  cleanPath(path) = path
<1> DEFINE n == Len(path)
           end == IF path[n] = Empty THEN n - 1 ELSE n
           whole == <<Empty>> \o SubSeq(path, 2, end)
<1>1. DOMAIN path = 1 .. n /\ n \in Nat /\ \A i \in 1 .. n : path[i] \in D
  BY LenProperties, ElementOfSeq
<1>2. n >= 2 /\ path[1] = Empty /\ \A i \in 2 .. n - 1 : path[i] # Empty
  BY DEF Canonical
<1>3. end \in 1 .. n /\ 1 \in 1 .. n
  BY <1>1, <1>2
<1>4. /\ whole \in Seq(D) /\ Len(whole) = end /\ \A i \in 1 .. end : whole[i] = path[i]
      /\ (SubSeq(path, 2, end) = << >> <=> end = 1)
  <2> HIDE DEF end
  <2>1. QED
    BY <1>2, <1>3, WithTheSlash
<1>5. Clean(path) = IF end = 1 THEN Root ELSE whole
  <2>1. CleanSegments(path) = SubSeq(path, 2, end)
    BY CanonicalSegments
  <2>2. QED
    BY <1>4, <2>1 DEF Clean
<1>6. SE!Last(path) = path[n]
  BY DEF SE!Last
<1> HIDE DEF whole
<1>7. CASE path[n] # Empty
  <2>1. end = n /\ end # 1
    BY <1>1, <1>2, <1>7
  <2>2. whole = path
    <3>1. Len(whole) = Len(path) /\ \A i \in 1 .. Len(whole) : whole[i] = path[i]
      BY <1>4, <2>1
    <3>2. QED
      BY <1>4, <3>1, SeqEqual
  <2>3. QED
    BY <1>5, <1>6, <1>7, <2>1, <2>2 DEF cleanPath
<1>8. CASE path[n] = Empty /\ n = 2
  <2>1. Clean(path) = Root /\ cleanPath(path) = Root
    <3>1. Clean(path) = Root
      BY <1>5, <1>8
    <3>2. QED
      BY <3>1 DEF cleanPath
  <2>2. /\ Root \in Seq(D) /\ Len(Root) = 2 /\ Root[1] = Empty /\ Root[2] = Empty
        /\ \A i \in 1 .. 2 : i = 1 \/ i = 2
    <3>1. Empty \in D
      BY <1>1, <1>2, <1>3
    <3>2. QED
      BY <3>1 DEF Root
  <2>3. Len(Root) = Len(path) /\ \A i \in 1 .. Len(Root) : Root[i] = path[i]
    BY <1>2, <1>8, <2>2
  <2>4. Root = path
    BY <2>2, <2>3, SeqEqual
  <2>5. QED
    BY <2>1, <2>4
<1>9. CASE path[n] = Empty /\ n # 2
  <2>1. end = n - 1 /\ end # 1 /\ 2 \in 2 .. n - 1 /\ 2 \in 1 .. end
    BY <1>1, <1>2, <1>9
  <2>2. Clean(path) = whole /\ whole # Root
    <3>1. whole[2] # Empty
      BY <1>2, <1>4, <2>1
    <3>2. Root[2] = Empty
      BY DEF Root
    <3>3. QED
      BY <1>5, <2>1, <3>1, <3>2
  <2>3. cleanPath(path) = Append(whole, Empty)
    BY <1>6, <1>9, <2>2 DEF cleanPath
  <2> DEFINE new == Append(whole, Empty)
  <2>4. /\ new \in Seq(D) /\ Len(new) = Len(whole) + 1 /\ new[Len(whole) + 1] = Empty
        /\ \A i \in 1 .. Len(whole) : new[i] = whole[i]
    <3>1. Empty \in D
      BY <1>1, <1>2, <1>3
    <3>2. QED
      BY <1>4, <3>1, AppendProperties
  <2> HIDE DEF new, n
  <2>5. Len(new) = n /\ new[n] = Empty /\ \A i \in 1 .. n - 1 : new[i] = path[i]
    BY <1>1, <1>4, <2>1, <2>4
  <2>6. \A i \in 1 .. n : i = n \/ i \in 1 .. n - 1
    BY <1>1
  <2>7. Len(new) = Len(path) /\ \A i \in 1 .. Len(new) : new[i] = path[i]
    <3>1. Len(new) = n /\ \A i \in 1 .. n : new[i] = path[i]
      BY <1>9, <2>5, <2>6
    <3>2. QED
      BY <3>1 DEF n
  <2>8. new = path
    BY <2>4, <2>7, SeqEqual
  <2>9. QED
    BY <2>3, <2>8 DEF new
<1>10. QED
  BY <1>7, <1>8, <1>9

(* The path of a redirect is one that the router does not redirect.        *)
RedirectLeadsOn ==
  \A p \in Procs : answer[p].kind = "redirect" => cleanPath(answer[p].path) = answer[p].path

(***************************************************************************)
(* A client that follows a redirect, once, comes to a route or to nothing: *)
(* it is never sent round in a circle (mux.go 75-88, 347-361).             *)
(***************************************************************************)
THEOREM RedirectsAlwaysLeadOn == ServerSpec => []RedirectLeadsOn
<1>1. RedirectsInv => RedirectLeadsOn
  BY CanonicalIsClean DEF RedirectsInv, RedirectLeadsOn
<1>2. QED
  BY <1>1, RedirectsAlwaysCanonical, PTL

-----------------------------------------------------------------------------
(***************************************************************************)
(* A walk is described by the files that it may still come to, the ones    *)
(* that it awaits.  What it has counted is at least the smallest sizes,    *)
(* and at most the largest, of all the others (WalkInv).  A file that is   *)
(* awaited is so in one directory of the path only, so it is counted once; *)
(* and a directory that is awaited, or read, is replaced by what is in it, *)
(* which leads to the same files as long as they are there.                *)
(***************************************************************************)
(* What DirSize adds up: the sizes of the files that are there.            *)
Sizes == [Keys -> Nat \cup {Absent}]
Pick(s) == CHOOSE k \in s : TRUE
Counts(sizes, k) == IF sizes[k] = Absent THEN 0 ELSE sizes[k]

IsSum(g, sizes) ==
  \A s \in SUBSET Keys :
    g[s] = IF s = {} THEN 0 ELSE g[s \ {Pick(s)}] + Counts(sizes, Pick(s))

(* The sum is that of all keys, and of any set of keys that of one less.   *)
LEMMA SumIsFold ==
  ASSUME NEW sizes \in Sizes
  PROVE  \E g \in [SUBSET Keys -> Nat] : IsSum(g, sizes) /\ Sum(sizes) = g[Keys]
<1> DEFINE Iter(g) == g = [s \in SUBSET Keys |->
                            IF s = {} THEN 0 ELSE g[s \ {Pick(s)}] + Counts(sizes, Pick(s))]
           pick == [s \in SUBSET Keys |-> Pick(s)]
           op == [k \in Keys |-> [n \in Nat |-> n + Counts(sizes, k)]]
<1>1. Sum(sizes) = (CHOOSE g : Iter(g))[Keys]
  BY DEF Sum, SE!FoldSet, SE!MapThenFoldSet, Counts, Pick
<1>2. \A k \in Keys : Counts(sizes, k) \in Nat
  BY DEF Counts, Sizes
<1>3. \A s \in SUBSET Keys : s # {} => Pick(s) \in s
  BY DEF Pick
<1>4. \E g \in [SUBSET Keys -> Nat] : IsFold(g, Keys, 0, pick, op)
  <2>1. \A s \in SUBSET Keys : s # {} => pick[s] \in s
    BY <1>3
  <2>2. \A k \in Keys, n \in Nat : op[k][n] \in Nat
    BY <1>2
  <2> HIDE DEF pick, op
  <2>3. QED
    BY <2>1, <2>2, FoldExists, FiniteKeysAssumption
<1>5. PICK g \in [SUBSET Keys -> Nat] : IsFold(g, Keys, 0, pick, op)
  BY <1>4
<1>6. ASSUME NEW s \in SUBSET Keys
      PROVE  g[s] = IF s = {} THEN 0 ELSE g[s \ {Pick(s)}] + Counts(sizes, Pick(s))
  <2>1. g[s] = IF s = {} THEN 0 ELSE op[pick[s]][g[s \ {pick[s]}]]
    BY <1>5 DEF IsFold
  <2>2. CASE s # {}
    <3>1. pick[s] = Pick(s) /\ Pick(s) \in Keys /\ g[s \ {Pick(s)}] \in Nat
      BY <1>3, <2>2
    <3>2. QED
      BY <2>1, <2>2, <3>1
  <2>3. QED
    BY <2>1, <2>2
<1> HIDE DEF pick, op
<1>7. Iter(g)
  BY <1>6
<1> DEFINE it == CHOOSE h : Iter(h)
<1>8. Iter(it)
  <2> HIDE DEF Iter
  <2>1. QED
    BY <1>7
<1>9. \A s \in SUBSET Keys :
         it[s] = IF s = {} THEN 0 ELSE it[s \ {Pick(s)}] + Counts(sizes, Pick(s))
  <2> HIDE DEF it
  <2>1. QED
    BY <1>8
<1>10. IsSum(it, sizes) /\ Sum(sizes) = it[Keys]
  BY <1>1, <1>9 DEF IsSum
<1> HIDE DEF it
<1>11. \A s \in SUBSET Keys : it[s] \in Nat
  <2> DEFINE T == {s \in SUBSET Keys : it[s] \in Nat}
  <2>1. {} \in T
    <3>1. {} \in SUBSET Keys /\ it[{}] = 0
      BY <1>9
    <3>2. QED
      BY <3>1
  <2>2. ASSUME NEW s \in SUBSET Keys, s # {}, s \ {pick[s]} \in T
        PROVE  s \in T
    <3>1. Pick(s) \in Keys /\ pick[s] = Pick(s)
      BY <1>3, <2>2 DEF pick
    <3>2. it[s] = it[s \ {Pick(s)}] + Counts(sizes, Pick(s))
      BY <1>9, <2>2
    <3>3. QED
      BY <1>2, <2>2, <3>1, <3>2
  <2>3. \A s \in SUBSET Keys : s # {} => pick[s] \in s
    BY <1>3 DEF pick
  <2> HIDE DEF T
  <2>4. SUBSET Keys \subseteq T
    BY <2>1, <2>2, <2>3, BySubsets, FiniteKeysAssumption
  <2>5. QED
    BY <2>4 DEF T
<1>12. it = [s \in SUBSET Keys |-> it[s]]
  BY <1>8
<1>13. it \in [SUBSET Keys -> Nat]
  BY <1>11, <1>12
<1>14. QED
  BY <1>10, <1>13

LEMMA SumType == \A sizes \in Sizes : Sum(sizes) \in Nat
BY SumIsFold

(* Sums compare as what they add up, where one key may have something more *)
(* on either side.                                                         *)
LEMMA SumsCompare ==
  ASSUME NEW f \in Sizes, NEW g \in Sizes, NEW k0 \in Keys, NEW a \in Nat, NEW b \in Nat,
         \A k \in Keys : Counts(f, k) + (IF k = k0 THEN a ELSE 0)
                          <= Counts(g, k) + (IF k = k0 THEN b ELSE 0)
  PROVE  Sum(f) + a <= Sum(g) + b
<1>1. PICK sf \in [SUBSET Keys -> Nat] : IsSum(sf, f) /\ Sum(f) = sf[Keys]
  BY SumIsFold
<1>2. PICK sg \in [SUBSET Keys -> Nat] : IsSum(sg, g) /\ Sum(g) = sg[Keys]
  BY SumIsFold
<1> DEFINE left(s) == IF k0 \in s THEN a ELSE 0
           right(s) == IF k0 \in s THEN b ELSE 0
           T == {s \in SUBSET Keys : sf[s] + left(s) <= sg[s] + right(s)}
           pick == [s \in SUBSET Keys |-> Pick(s)]
<1>3. {} \in T
  <2>1. sf[{}] = 0 /\ sg[{}] = 0
    BY <1>1, <1>2 DEF IsSum
  <2>2. left({}) = 0 /\ right({}) = 0
    OBVIOUS
  <2>3. sf[{}] + left({}) <= sg[{}] + right({})
    BY <2>1, <2>2
  <2>4. QED
    BY <2>3
<1>4. \A s \in SUBSET Keys : s # {} => pick[s] \in s
  BY DEF Pick
<1>5. ASSUME NEW s \in SUBSET Keys, s # {}, s \ {pick[s]} \in T
      PROVE  s \in T
  <2> DEFINE k == Pick(s)
             t == s \ {k}
  <2>1. k \in s /\ k \in Keys /\ t \in SUBSET Keys /\ t \in T
    BY <1>4, <1>5
  <2>2. sf[s] = sf[t] + Counts(f, k) /\ sg[s] = sg[t] + Counts(g, k)
    BY <1>1, <1>2, <1>5 DEF IsSum
  <2>3. sf[t] + left(t) <= sg[t] + right(t)
    BY <2>1
  <2>4. /\ left(s) = left(t) + (IF k = k0 THEN a ELSE 0) /\ left(t) \in Nat
        /\ right(s) = right(t) + (IF k = k0 THEN b ELSE 0) /\ right(t) \in Nat
    BY <2>1
  <2>5. Counts(f, k) \in Nat /\ Counts(g, k) \in Nat /\ sf[t] \in Nat /\ sg[t] \in Nat
    BY <2>1 DEF Counts, Sizes
  <2>6. Counts(f, k) + (IF k = k0 THEN a ELSE 0) <= Counts(g, k) + (IF k = k0 THEN b ELSE 0)
    BY <2>1
  <2>7. sf[s] + left(s) <= sg[s] + right(s)
    <3> HIDE DEF k, t, T, left, right
    <3>1. QED
      BY <2>2, <2>3, <2>4, <2>5, <2>6
  <2>8. QED
    BY <2>7
<1>6. Keys \in T
  <2> HIDE DEF T, pick
  <2>1. QED
    BY <1>3, <1>4, <1>5, BySubsets, FiniteKeysAssumption
<1>7. QED
  BY <1>1, <1>2, <1>6

(* Where there is no file there is nothing to add up.                      *)
LEMMA SumOfNothing ==
  ASSUME NEW f \in Sizes, \A k \in Keys : f[k] = Absent
  PROVE  Sum(f) = 0
<1>1. PICK g \in [SUBSET Keys -> Nat] : IsSum(g, f) /\ Sum(f) = g[Keys]
  BY SumIsFold
<1> DEFINE T == {s \in SUBSET Keys : g[s] = 0}
           pick == [s \in SUBSET Keys |-> Pick(s)]
<1>2. {} \in T
  BY <1>1 DEF IsSum
<1>3. \A s \in SUBSET Keys : s # {} => pick[s] \in s
  BY DEF Pick
<1>4. ASSUME NEW s \in SUBSET Keys, s # {}, s \ {pick[s]} \in T
      PROVE  s \in T
  <2>1. Pick(s) \in Keys /\ g[s \ {Pick(s)}] = 0
    BY <1>3, <1>4
  <2>2. Counts(f, Pick(s)) = 0
    BY <2>1 DEF Counts
  <2>3. g[s] = g[s \ {Pick(s)}] + Counts(f, Pick(s))
    BY <1>1, <1>4 DEF IsSum
  <2>4. QED
    BY <2>1, <2>2, <2>3
<1>5. Keys \in T
  <2> HIDE DEF T, pick
  <2>1. QED
    BY <1>2, <1>3, <1>4, BySubsets, FiniteKeysAssumption
<1>6. QED
  BY <1>1, <1>5

(* Where no file is larger the sum is not larger.                          *)
LEMMA SumsOrdered ==
  ASSUME NEW f \in Sizes, NEW g \in Sizes, \A k \in Keys : f[k] <= g[k]
  PROVE  Sum(f) <= Sum(g)
<1>1. OriginalKey \in Keys
  BY ServerAssumption
<1>2. \A k \in Keys : Counts(f, k) \in Nat /\ Counts(g, k) \in Nat /\ Counts(f, k) <= Counts(g, k)
  BY DEF Counts, Sizes, Absent
<1>3. Sum(f) + 0 <= Sum(g) + 0
  BY <1>1, <1>2, SumsCompare
<1>4. QED
  BY <1>3, SumType

-----------------------------------------------------------------------------
(* What is not in ks.                                                      *)
Without(sizes, ks) == [k \in Keys |-> IF k \in ks THEN Absent ELSE sizes[k]]

LEMMA WithoutType == \A ks : \A sizes \in Sizes : Without(sizes, ks) \in Sizes
BY DEF Without, Sizes

LEMMA WithoutOrdered ==
  ASSUME NEW f \in Sizes, NEW g \in Sizes, NEW js, NEW ks,
         \A k \in Keys : k \notin js => (k \notin ks /\ f[k] <= g[k]) \/ f[k] = Absent
  PROVE  Sum(Without(f, js)) <= Sum(Without(g, ks))
<1>1. \A k \in Keys : Without(f, js)[k] <= Without(g, ks)[k]
  BY DEF Without, Sizes, Absent
<1>2. QED
  BY <1>1, WithoutType, SumsOrdered

(* One file more is so much more in the sum.                               *)
LEMMA WithoutOneLess ==
  ASSUME NEW f \in Sizes, NEW ks, NEW k \in Keys, k \in ks
  PROVE  Sum(Without(f, ks \ {k})) = Sum(Without(f, ks)) + Counts(f, k)
<1> DEFINE less == Without(f, ks)
           more == Without(f, ks \ {k})
           n == Counts(f, k)
<1>1. less \in Sizes /\ more \in Sizes /\ n \in Nat
  BY WithoutType DEF Counts, Sizes
<1>2. \A j \in Keys : Counts(more, j) = Counts(less, j) + (IF j = k THEN n ELSE 0)
                      /\ Counts(less, j) \in Nat
  BY DEF Counts, Without, Sizes, Absent
<1> HIDE DEF less, more, n
<1>3. Sum(less) + n <= Sum(more) + 0
  <2>1. \A j \in Keys : Counts(less, j) + (IF j = k THEN n ELSE 0)
                         <= Counts(more, j) + (IF j = k THEN 0 ELSE 0)
    BY <1>1, <1>2
  <2>2. QED
    BY <1>1, <2>1, SumsCompare
<1>4. Sum(more) + 0 <= Sum(less) + n
  <2>1. \A j \in Keys : Counts(more, j) + (IF j = k THEN 0 ELSE 0)
                         <= Counts(less, j) + (IF j = k THEN n ELSE 0)
    BY <1>1, <1>2
  <2>2. QED
    BY <1>1, <2>1, SumsCompare
<1>5. Sum(less) \in Nat /\ Sum(more) \in Nat
  BY <1>1, SumType
<1>6. Sum(more) = Sum(less) + n
  BY <1>1, <1>3, <1>4, <1>5
<1>7. QED
  BY <1>6 DEF less, more, n

-----------------------------------------------------------------------------
(* Where a directory is.                                                   *)
LEMMA DirectoryWay ==
  ASSUME NEW d \in ParentsOf(Keys)
  PROVE  /\ Len(d) \in Nat /\ (Len(d) = 0 <=> d = Base) /\ SubSeq(d, 1, Len(d)) = d
         /\ \A m \in 0 .. Len(d) : /\ Len(SubSeq(d, 1, m)) = m
                                   /\ \A l \in 0 .. m : SubSeq(SubSeq(d, 1, m), 1, l) = SubSeq(d, 1, l)
<1>0. PICK k \in Keys : \E n \in 0 .. Len(DirOf[k]) : d = Prefix(k, n)
  BY ParentsAreUpTo DEF ParentsOf, UpTo
<1>1. PICK n \in 0 .. Len(DirOf[k]) : d = Prefix(k, n)
  BY <1>0
<1>2. Len(d) = n /\ n \in Nat /\ Len(DirOf[k]) \in Nat
  BY <1>1, DirOfType, PrefixProperties
<1>3. ASSUME NEW m \in 0 .. n
      PROVE  SubSeq(d, 1, m) = Prefix(k, m) /\ m \in 0 .. Len(DirOf[k])
             /\ Len(SubSeq(d, 1, m)) = m
             /\ \A l \in 0 .. m : SubSeq(SubSeq(d, 1, m), 1, l) = SubSeq(d, 1, l)
  <2>1. SubSeq(d, 1, m) = Prefix(k, m) /\ m \in 0 .. Len(DirOf[k])
    BY <1>1, <1>2, PrefixProperties
  <2>2. Len(Prefix(k, m)) = m /\ \A l \in 0 .. m : SubSeq(Prefix(k, m), 1, l) = Prefix(k, l)
    BY <2>1, PrefixProperties
  <2>3. \A l \in 0 .. m : l \in 0 .. n
    BY <1>2
  <2>4. \A l \in 0 .. m : SubSeq(d, 1, l) = Prefix(k, l)
    BY <1>1, <2>3, PrefixProperties
  <2>5. QED
    BY <2>1, <2>2, <2>4
<1>4. n \in 0 .. n /\ 0 \in 0 .. n /\ 0 \in 0 .. Len(DirOf[k])
  BY <1>2
<1>5. SubSeq(d, 1, n) = d
  BY <1>1, <1>3, <1>4
<1>6. n = 0 => d = Base
  BY <1>1, <1>4, PrefixProperties
<1>7. d = Base => n = 0
  BY <1>2 DEF Base
<1>8. QED
  BY <1>2, <1>3, <1>5, <1>6, <1>7

(* The directories on the way to a file.                                   *)
LEMMA OnTheWay ==
  ASSUME NEW k \in Keys
  PROVE  /\ Base \in Parents[k] /\ DirOf[k] \in Parents[k] /\ Parents[k] \subseteq ParentsOf(Keys)
         /\ \A d \in Parents[k] :
              /\ Len(d) \in 0 .. Len(DirOf[k]) /\ d = SubSeq(DirOf[k], 1, Len(d))
              /\ \A m \in 0 .. Len(d) : SubSeq(d, 1, m) \in Parents[k]
<1>1. Len(DirOf[k]) \in Nat /\ 0 \in 0 .. Len(DirOf[k]) /\ Len(DirOf[k]) \in 0 .. Len(DirOf[k])
  BY DirOfType
<1>2. Base \in Parents[k] /\ DirOf[k] \in Parents[k]
  <2>1. Prefix(k, 0) = Base /\ Prefix(k, Len(DirOf[k])) = DirOf[k]
    BY <1>1, PrefixProperties
  <2>2. Prefix(k, 0) \in Parents[k] /\ Prefix(k, Len(DirOf[k])) \in Parents[k]
    BY <1>1, ParentsAreUpTo DEF UpTo
  <2>3. QED
    BY <2>1, <2>2
<1>3. ASSUME NEW d \in Parents[k]
      PROVE  /\ Len(d) \in 0 .. Len(DirOf[k]) /\ d = SubSeq(DirOf[k], 1, Len(d))
             /\ \A m \in 0 .. Len(d) : SubSeq(d, 1, m) \in Parents[k]
  <2>1. PICK n \in 0 .. Len(DirOf[k]) : d = Prefix(k, n)
    BY ParentsAreUpTo DEF UpTo
  <2>2. Len(d) = n /\ \A m \in 0 .. n : SubSeq(d, 1, m) = Prefix(k, m)
    BY <2>1, PrefixProperties
  <2>3. \A m \in 0 .. n : Prefix(k, m) \in Parents[k]
    BY <1>1, ParentsAreUpTo DEF UpTo
  <2>4. QED
    BY <2>1, <2>2, <2>3 DEF Prefix
<1>4. QED
  BY <1>2, <1>3 DEF ParentsOf

(* What leads to a file has the file, or a directory that leads to it.     *)
LEMMA LeadsOn ==
  ASSUME FilesReached, NEW k \in Files, NEW d \in Parents[k]
  PROVE  k \in FilesIn(d) \/ DirsIn(d) \cap Parents[k] # {}
<1>1. k \in Keys
  BY DEF Files
<1>2. Len(DirOf[k]) \in Nat /\ Len(d) \in 0 .. Len(DirOf[k]) /\ d = SubSeq(DirOf[k], 1, Len(d))
  BY <1>1, OnTheWay, DirOfType
<1>3. CASE Len(d) = Len(DirOf[k])
  <2>1. DirOf[k] \in ParentsOf(Keys)
    BY <1>1, OnTheWay
  <2>2. d = DirOf[k]
    BY <1>2, <1>3, <2>1, DirectoryWay
  <2>3. QED
    BY <2>2 DEF FilesIn
<1>4. CASE Len(d) # Len(DirOf[k])
  <2> DEFINE n == Len(d) + 1
             e == SubSeq(DirOf[k], 1, n)
  <2>1. n \in 0 .. Len(DirOf[k]) /\ n # 0 /\ n - 1 \in 0 .. n /\ n - 1 = Len(d)
    BY <1>2, <1>4
  <2>2. DirOf[k] \in Parents[k] /\ DirOf[k] \in ParentsOf(Keys)
    BY <1>1, OnTheWay
  <2>3. e \in Parents[k]
    BY <1>1, <2>1, <2>2, OnTheWay
  <2>4. Len(e) = n /\ SubSeq(e, 1, n - 1) = SubSeq(DirOf[k], 1, n - 1)
    BY <2>1, <2>2, DirectoryWay
  <2>5. e # Base
    BY <1>1, <2>1, <2>3, <2>4, OnTheWay, DirectoryWay
  <2>6. e \in dirs
    BY <2>3 DEF FilesReached, ParentsOf
  <2>7. e \in DirsIn(d)
    BY <1>2, <2>1, <2>4, <2>5, <2>6 DEF DirsIn
  <2>8. QED
    BY <2>3, <2>7
<1>5. QED
  BY <1>3, <1>4

(* What is in a directory leads there.                                     *)
LEMMA LeadsBack ==
  ASSUME NEW k \in Keys, NEW d, k \in FilesIn(d) \/ DirsIn(d) \cap Parents[k] # {}
  PROVE  d \in Parents[k]
<1>1. CASE k \in FilesIn(d)
  BY <1>1, OnTheWay DEF FilesIn
<1>2. CASE DirsIn(d) \cap Parents[k] # {}
  <2>1. PICK e \in Parents[k] : e # Base /\ SubSeq(e, 1, Len(e) - 1) = d
    BY <1>2 DEF DirsIn
  <2>2. Len(e) \in Nat /\ Len(e) # 0
    BY <2>1, OnTheWay, DirectoryWay
  <2>3. Len(e) - 1 \in 0 .. Len(e)
    BY <2>2
  <2>4. QED
    BY <2>1, <2>3, OnTheWay
<1>3. QED
  BY <1>1, <1>2

-----------------------------------------------------------------------------
(* The last element of a sequence is removed, replaced or followed.        *)
LEMMA PathAbove ==
  ASSUME NEW F, NEW path \in Seq(F), path # << >>
  PROVE  /\ Len(path) \in Nat \ {0} /\ \A i \in 1 .. Len(path) : path[i] \in F
         /\ SubSeq(path, 1, Len(path) - 1) \in Seq(F)
         /\ Len(SubSeq(path, 1, Len(path) - 1)) = Len(path) - 1
         /\ \A i \in 1 .. Len(path) - 1 : SubSeq(path, 1, Len(path) - 1)[i] = path[i]
<1> DEFINE n == Len(path)
<1>1. n \in Nat \ {0} /\ \A i \in 1 .. n : path[i] \in F
  BY LenProperties, EmptySeq, ElementOfSeq
<1> HIDE DEF n
<1>2. \A i \in 1 .. n - 1 : path[i] \in F
  BY <1>1
<1>3. /\ SubSeq(path, 1, n - 1) \in Seq(F)
      /\ Len(SubSeq(path, 1, n - 1)) = IF 1 <= n - 1 THEN n - 1 - 1 + 1 ELSE 0
      /\ \A i \in 1 .. n - 1 - 1 + 1 : SubSeq(path, 1, n - 1)[i] = path[1 + i - 1]
  BY <1>1, <1>2, SubSeqProperties
<1>4. \A i \in 1 .. n - 1 : i \in 1 .. n - 1 - 1 + 1 /\ 1 + i - 1 = i
  BY <1>1
<1>5. SubSeq(path, 1, n - 1) \in Seq(F) /\ Len(SubSeq(path, 1, n - 1)) = n - 1
      /\ \A i \in 1 .. n - 1 : SubSeq(path, 1, n - 1)[i] = path[i]
  BY <1>1, <1>3, <1>4
<1>6. QED
  BY <1>1, <1>5 DEF n

(* The last element replaced, and replaced by two.                         *)
Replaced(path, f) == Append(SubSeq(path, 1, Len(path) - 1), f)
Followed(path, f, g) == SubSeq(path, 1, Len(path) - 1) \o <<f, g>>

LEMMA PathReplaced ==
  ASSUME NEW F, NEW path \in Seq(F), path # << >>, NEW f \in F
  PROVE  /\ Replaced(path, f) \in Seq(F) /\ Len(Replaced(path, f)) = Len(path)
         /\ Replaced(path, f)[Len(path)] = f
         /\ \A i \in 1 .. Len(path) - 1 : Replaced(path, f)[i] = path[i]
<1> DEFINE n == Len(path)
           above == SubSeq(path, 1, n - 1)
<1>1. /\ n \in Nat \ {0} /\ above \in Seq(F) /\ Len(above) = n - 1
      /\ \A i \in 1 .. n - 1 : above[i] = path[i]
  BY PathAbove
<1> HIDE DEF n, above
<1>2. /\ Append(above, f) \in Seq(F) /\ Len(Append(above, f)) = Len(above) + 1
      /\ \A i \in 1 .. Len(above) : Append(above, f)[i] = above[i]
      /\ Append(above, f)[Len(above) + 1] = f
  BY <1>1, AppendProperties
<1>3. /\ Append(above, f) \in Seq(F) /\ Len(Append(above, f)) = n /\ Append(above, f)[n] = f
      /\ \A i \in 1 .. n - 1 : Append(above, f)[i] = path[i]
  BY <1>1, <1>2
<1>4. QED
  BY <1>3 DEF n, above, Replaced

LEMMA PathFollowed ==
  ASSUME NEW F, NEW path \in Seq(F), path # << >>, NEW f \in F, NEW g \in F
  PROVE  /\ Followed(path, f, g) \in Seq(F) /\ Len(Followed(path, f, g)) = Len(path) + 1
         /\ Followed(path, f, g)[Len(path)] = f /\ Followed(path, f, g)[Len(path) + 1] = g
         /\ \A i \in 1 .. Len(path) - 1 : Followed(path, f, g)[i] = path[i]
<1> DEFINE n == Len(path)
           above == SubSeq(path, 1, n - 1)
           two == <<f, g>>
           new == above \o two
<1>1. /\ n \in Nat \ {0} /\ above \in Seq(F) /\ Len(above) = n - 1
      /\ \A i \in 1 .. n - 1 : above[i] = path[i]
  BY PathAbove
<1>2. two \in Seq(F) /\ Len(two) = 2 /\ two[1] = f /\ two[2] = g
  OBVIOUS
<1> HIDE DEF n, above, two
<1>3. /\ new \in Seq(F) /\ Len(new) = Len(above) + Len(two)
      /\ \A i \in 1 .. Len(above) + Len(two) :
           new[i] = IF i <= Len(above) THEN above[i] ELSE two[i - Len(above)]
  BY <1>1, <1>2, ConcatProperties
<1>4. n - (n - 1) = 1 /\ n + 1 - (n - 1) = 2 /\ n \in 1 .. n + 1 /\ n + 1 \in 1 .. n + 1
      /\ Len(above) + Len(two) = n + 1 /\ \A i \in 1 .. n - 1 : i \in 1 .. n + 1 /\ i <= n - 1
      /\ ~(n <= n - 1) /\ ~(n + 1 <= n - 1)
  BY <1>1, <1>2
<1> HIDE DEF new
<1>5. /\ new \in Seq(F) /\ Len(new) = n + 1 /\ new[n] = f /\ new[n + 1] = g
      /\ \A i \in 1 .. n - 1 : new[i] = path[i]
  <2>1. \A i \in 1 .. n - 1 : new[i] = above[i]
    BY <1>1, <1>3, <1>4
  <2>2. new[n] = two[1] /\ new[n + 1] = two[2]
    <3>1. n - Len(above) = 1 /\ n + 1 - Len(above) = 2
          /\ ~(n <= Len(above)) /\ ~(n + 1 <= Len(above))
      BY <1>1
    <3>2. n \in 1 .. Len(above) + Len(two) /\ n + 1 \in 1 .. Len(above) + Len(two)
      BY <1>4
    <3>3. new[n] = two[n - Len(above)] /\ new[n + 1] = two[n + 1 - Len(above)]
      BY <1>3, <3>1, <3>2
    <3>4. QED
      BY <3>1, <3>3
  <2>3. QED
    BY <1>1, <1>2, <1>3, <1>4, <2>1, <2>2
<1>6. QED
  BY <1>5 DEF n, above, two, new, Followed

-----------------------------------------------------------------------------
(* An element of the path of a walk.                                       *)
Frame == [dir : ParentsOf(Keys), files : SUBSET Keys, dirs : SUBSET ParentsOf(Keys)]

(* Each directory of the path is in the one above, and no longer awaited   *)
(* there; what is awaited in it was in it.                                 *)
WellNested(path) ==
  /\ path \in Seq(Frame) /\ path # << >>
  /\ \A i \in 1 .. Len(path) :
       /\ Len(path[i].dir) = i - 1
       /\ \A k \in path[i].files : DirOf[k] = path[i].dir
       /\ \A d \in path[i].dirs : Len(d) = i /\ SubSeq(d, 1, i - 1) = path[i].dir
  /\ \A j \in 1 .. Len(path), i \in 1 .. Len(path) :
       i <= j => SubSeq(path[j].dir, 1, i - 1) = path[i].dir
  /\ \A i \in 1 .. Len(path), j \in 1 .. Len(path) : j = i + 1 => path[j].dir \notin path[i].dirs

(* The files that a walk may still come to, if they are there by then.     *)
Awaited(frame) == {k \in Keys : k \in frame.files \/ frame.dirs \cap Parents[k] # {}}
Below(dir) == {k \in Keys : dir \in Parents[k]}
Waiting(w) ==
  CASE w.at = "root" -> Keys
    [] w.at = "read" -> Below(w.path[Len(w.path)].dir)
                          \cup UNION {Awaited(w.path[i]) : i \in 1 .. Len(w.path)}
    [] OTHER -> UNION {Awaited(w.path[i]) : i \in 1 .. Len(w.path)}

(* The walk w has counted what it has passed, and nothing else.            *)
Stands(p, w) ==
  /\ w.at \in {"root", "read", "next"}
  /\ w.at # "root" => WellNested(w.path)
  /\ w.at = "read" => w.path[Len(w.path)].files = {} /\ w.path[Len(w.path)].dirs = {}
  /\ Sum(Without(low[p], Waiting(w))) <= w.sum /\ w.sum <= Sum(Without(high[p], Waiting(w)))
  /\ quiet[p] =>
       /\ w.at = "root" => Base \in dirs
       /\ w.at = "read" => w.path[Len(w.path)].dir \in dirs
       /\ w.at # "root" => \A i \in 1 .. Len(w.path) :
                             w.path[i].files \subseteq Files /\ w.path[i].dirs \subseteq dirs

(* What no file was below or above since the walk began, and the files now. *)
Bounds(p) ==
  /\ low[p] \in Sizes /\ high[p] \in Sizes
  /\ \A k \in Keys : low[p][k] <= size[k] /\ size[k] <= high[p][k]

WalkStands(p) ==
  /\ Bounds(p)
  /\ walk[p].at = "none" => walk[p] = Nowhere /\ low[p] = size /\ high[p] = size
  /\ walk[p].at # "none" => Stands(p, walk[p])

WalkInv == \A p \in Procs : WalkStands(p)

-----------------------------------------------------------------------------
(* What every step keeps: the bounds become wider, and only by changes.    *)
LEMMA ObserveKeeps ==
  ASSUME WalkInv, size \in Sizes, size' \in Sizes, Observe, NEW p \in Procs
  PROVE  /\ Bounds(p)'
         /\ walk'[p].at = "none" => low'[p] = size' /\ high'[p] = size'
         /\ walk'[p].at # "none" =>
              /\ \A k \in Keys : low'[p][k] <= low[p][k] /\ high[p][k] <= high'[p][k]
              /\ size' = size => low'[p] = low[p] /\ high'[p] = high[p]
              /\ quiet'[p] => quiet[p] /\ dirs' = dirs /\ size' = size
<1>1. low[p] \in Sizes /\ high[p] \in Sizes
      /\ \A k \in Keys : low[p][k] <= size[k] /\ size[k] <= high[p][k]
  BY DEF WalkInv, WalkStands, Bounds
<1>2. CASE walk'[p].at = "none"
  <2>1. low'[p] = size' /\ high'[p] = size'
    BY <1>2 DEF Observe
  <2>2. \A k \in Keys : size'[k] <= size'[k]
    BY DEF Sizes, Absent
  <2>3. QED
    BY <1>2, <2>1, <2>2 DEF Bounds
<1>3. CASE walk'[p].at # "none"
  <2>1. /\ low'[p] = [k \in Keys |-> Smaller(low[p][k], size'[k])]
        /\ high'[p] = [k \in Keys |-> Larger(high[p][k], size'[k])]
        /\ quiet'[p] => quiet[p] /\ dirs' = dirs /\ size' = size
    BY <1>3 DEF Observe
  <2>2. \A m, n \in Nat \cup {Absent} :
           /\ Smaller(m, n) \in {m, n} /\ Smaller(m, n) <= m /\ Smaller(m, n) <= n
           /\ Larger(m, n) \in {m, n} /\ m <= Larger(m, n) /\ n <= Larger(m, n)
           /\ m <= n => Smaller(m, n) = m
           /\ n <= m => Larger(m, n) = m
    BY DEF Smaller, Larger, Absent
  <2>3. \A k \in Keys : /\ low[p][k] \in Nat \cup {Absent} /\ high[p][k] \in Nat \cup {Absent}
                        /\ size'[k] \in Nat \cup {Absent}
    BY <1>1 DEF Sizes
  <2>4. Bounds(p)' /\ \A k \in Keys : low'[p][k] <= low[p][k] /\ high[p][k] <= high'[p][k]
    <3>1. \A k \in Keys : low'[p][k] = Smaller(low[p][k], size'[k])
                          /\ high'[p][k] = Larger(high[p][k], size'[k])
      BY <2>1
    <3>2. \A k \in Keys : low'[p][k] \in Nat \cup {Absent} /\ high'[p][k] \in Nat \cup {Absent}
      <4> TAKE k \in Keys
      <4>1. /\ low'[p][k] = Smaller(low[p][k], size'[k])
            /\ high'[p][k] = Larger(high[p][k], size'[k])
        BY <3>1
      <4>2. /\ low[p][k] \in Nat \cup {Absent} /\ high[p][k] \in Nat \cup {Absent}
            /\ size'[k] \in Nat \cup {Absent}
        BY <2>3
      <4>3. /\ Smaller(low[p][k], size'[k]) \in {low[p][k], size'[k]}
            /\ Larger(high[p][k], size'[k]) \in {high[p][k], size'[k]}
        BY <2>2, <4>2
      <4>4. QED
        BY <4>1, <4>2, <4>3
    <3>3. low'[p] \in Sizes /\ high'[p] \in Sizes
      BY <2>1, <3>1, <3>2 DEF Sizes
    <3>4. QED
      BY <2>2, <2>3, <3>1, <3>3 DEF Bounds
  <2>5. ASSUME size' = size PROVE low'[p] = low[p] /\ high'[p] = high[p]
    <3>1. \A k \in Keys : low'[p][k] = low[p][k] /\ high'[p][k] = high[p][k]
      <4> TAKE k \in Keys
      <4>1. low'[p][k] = Smaller(low[p][k], size[k]) /\ high'[p][k] = Larger(high[p][k], size[k])
        BY <2>1, <2>5
      <4>2. low[p][k] <= size[k] /\ size[k] <= high[p][k]
        BY <1>1
      <4>3. /\ low[p][k] \in Nat \cup {Absent} /\ high[p][k] \in Nat \cup {Absent}
            /\ size[k] \in Nat \cup {Absent}
        BY <2>3, <2>5
      <4>4. QED
        BY <2>2, <4>1, <4>2, <4>3
    <3>2. QED
      BY <1>1, <2>1, <3>1 DEF Sizes
  <2>6. QED
    BY <1>3, <2>1, <2>4, <2>5
<1>4. QED
  BY <1>2, <1>3

(* A walk that takes no step still stands where it did.                    *)
LEMMA WalkRests ==
  ASSUME WalkInv, size \in Sizes, size' \in Sizes, WalkTypes, Observe,
         NEW p \in Procs, walk'[p] = walk[p]
  PROVE  WalkStands(p)'
<1>1. CASE walk'[p].at = "none"
  BY <1>1, ObserveKeeps DEF WalkInv, WalkStands
<1>2. CASE walk'[p].at # "none"
  <2> DEFINE w == walk[p]
             ks == Waiting(w)
  <2>1. Stands(p, w) /\ w.sum \in Nat /\ Bounds(p)
    BY <1>2 DEF WalkInv, WalkStands, WalkTypes
  <2>2. Bounds(p)' /\ \A k \in Keys : low'[p][k] <= low[p][k] /\ high[p][k] <= high'[p][k]
    BY <1>2, ObserveKeeps
  <2>3. /\ low[p] \in Sizes /\ high[p] \in Sizes /\ low'[p] \in Sizes /\ high'[p] \in Sizes
    BY <2>1, <2>2 DEF Bounds
  <2>4. Sum(Without(low'[p], ks)) <= Sum(Without(low[p], ks))
    BY <2>2, <2>3, WithoutOrdered
  <2>5. Sum(Without(high[p], ks)) <= Sum(Without(high'[p], ks))
    BY <2>2, <2>3, WithoutOrdered
  <2>6. /\ Sum(Without(low[p], ks)) \in Nat /\ Sum(Without(low'[p], ks)) \in Nat
        /\ Sum(Without(high[p], ks)) \in Nat /\ Sum(Without(high'[p], ks)) \in Nat
    BY <2>3, WithoutType, SumType
  <2>7. Sum(Without(low'[p], ks)) <= w.sum /\ w.sum <= Sum(Without(high'[p], ks))
    <3>1. Sum(Without(low[p], ks)) <= w.sum /\ w.sum <= Sum(Without(high[p], ks))
      BY <2>1 DEF Stands
    <3> HIDE DEF w, ks
    <3>2. QED
      BY <2>1, <2>4, <2>5, <2>6, <3>1
  <2>8. quiet'[p] => quiet[p] /\ dirs' = dirs /\ Files' = Files
    BY <1>2, ObserveKeeps DEF Files
  <2>9. Waiting(w)' = Waiting(w) /\ WellNested(w.path)' = WellNested(w.path)
    OBVIOUS
  <2>10. QED
    BY <1>2, <2>1, <2>2, <2>7, <2>8, <2>9 DEF Stands, WalkStands
<1>3. QED
  BY <1>1, <1>2

-----------------------------------------------------------------------------
(* What the report of a walk has to say, and all that is kept by every step. *)
ReportHolds(p) ==
  /\ reported[p].kind = "size" =>
       reported[p].low <= reported[p].size /\ reported[p].size <= reported[p].high
  /\ reported[p].quiet => reported[p].kind \in {"none", "size"}

HealthInv ==
  /\ TasksInv /\ TreeInv /\ TreeTypes /\ WalkTypes /\ WalkInv
  /\ \A p \in Procs : ReportHolds(p)

(* The sizes of the files have their type.                                 *)
LEMMA SizesKept == /\ TreeInv => size \in Sizes
                   /\ TreeInv' => size' \in Sizes
BY DEF TreeInv, TreeTypeInv, Sizes

(* A walk that goes on stands where it comes to, one that ends reports.    *)
LEMMA WalkGoes ==
  ASSUME HealthInv, NEW p \in Procs, NEW place, NEW path, NEW sum, Goto(p, place, path, sum),
         Observe, Stands(p, [at |-> place, path |-> path, sum |-> sum])
  PROVE  WalkStands(p)' /\ ReportHolds(p)'
<1> DEFINE w == [at |-> place, path |-> path, sum |-> sum]
<1>1. /\ walk'[p] = w /\ reported' = reported /\ size' = size /\ dirs' = dirs /\ Files' = Files
  BY DEF Goto, HealthInv, TasksInv, treeVars, Files
<1>2. size \in Sizes /\ size' \in Sizes /\ WalkInv
  BY <1>1, SizesKept DEF HealthInv
<1>3. Stands(p, w) /\ w.at # "none"
  BY DEF Stands
<1> HIDE DEF w
<1>4. Bounds(p)' /\ low'[p] = low[p] /\ high'[p] = high[p] /\ (quiet'[p] => quiet[p])
  BY <1>1, <1>2, <1>3, ObserveKeeps
<1>5. Stands(p, walk[p])'
  <2>1. Waiting(walk[p])' = Waiting(w) /\ WellNested(walk[p].path)' = WellNested(w.path)
    BY <1>1
  <2>2. QED
    BY <1>1, <1>3, <1>4, <2>1 DEF Stands
<1>6. ReportHolds(p)'
  BY <1>1 DEF HealthInv, ReportHolds
<1>7. QED
  BY <1>1, <1>3, <1>4, <1>5, <1>6 DEF WalkStands

LEMMA WalkEnds ==
  ASSUME HealthInv, NEW p \in Procs, NEW kind, Reported(p, kind), Observe,
         kind = "size" => Sum(low[p]) <= walk[p].sum /\ walk[p].sum <= Sum(high[p]),
         quiet[p] => kind = "size"
  PROVE  WalkStands(p)' /\ ReportHolds(p)'
<1> DEFINE report == [kind |-> kind, size |-> IF kind = "size" THEN walk[p].sum ELSE 0,
                      low |-> Sum(low[p]), high |-> Sum(high[p]), quiet |-> quiet[p]]
<1>1. walk'[p] = Nowhere /\ reported'[p] = report /\ size' = size
  BY DEF Reported, HealthInv, TasksInv, WalkTypes, treeVars
<1>2. size \in Sizes /\ size' \in Sizes /\ WalkInv
  BY <1>1, SizesKept DEF HealthInv
<1>3. WalkStands(p)'
  <2>1. walk'[p].at = "none"
    BY <1>1 DEF Nowhere
  <2>2. Bounds(p)' /\ low'[p] = size' /\ high'[p] = size'
    BY <1>2, <2>1, ObserveKeeps
  <2>3. QED
    BY <1>1, <2>1, <2>2 DEF WalkStands
<1>4. ReportHolds(p)'
  BY <1>1 DEF ReportHolds
<1>5. QED
  BY <1>3, <1>4

(* Where everything is awaited, nothing can have been counted.             *)
LEMMA WithoutAll == \A sizes \in Sizes : Sum(Without(sizes, Keys)) = 0
<1> TAKE sizes \in Sizes
<1>1. \A k \in Keys : Without(sizes, Keys)[k] = Absent
  BY DEF Without
<1>2. QED
  BY <1>1, WithoutType, SumOfNothing

LEMMA WithoutNone == \A sizes \in Sizes : Without(sizes, {}) = sizes
BY DEF Without, Sizes

(* The base is where a walk begins.                                        *)
LEMMA StatRootStands ==
  ASSUME HealthInv, NEW p \in Procs, StatRoot(p), Observe
  PROVE  WalkStands(p)' /\ ReportHolds(p)'
<1>1. walk[p] = Nowhere /\ low[p] = size /\ high[p] = size /\ size \in Sizes
  BY SizesKept DEF StatRoot, Begins, HealthInv, WalkInv, WalkStands
<1>2. CASE Base \in dirs
  <2> DEFINE w == [at |-> "root", path |-> << >>, sum |-> 0]
  <2>1. Stands(p, w)
    <3>1. Waiting(w) = Keys
      BY DEF Waiting
    <3>2. Sum(Without(low[p], Keys)) = 0 /\ Sum(Without(high[p], Keys)) = 0
      BY <1>1, WithoutAll
    <3>3. QED
      BY <1>2, <3>1, <3>2 DEF Stands
  <2>2. Goto(p, "root", << >>, 0)
    BY <1>2 DEF StatRoot
  <2>3. QED
    BY <2>1, <2>2, WalkGoes
<1>3. CASE Base \notin dirs
  <2>1. \A k \in Keys : size[k] = Absent
    BY <1>3, OnTheWay DEF HealthInv, TreeInv, FilesReached, ParentsOf, Files
  <2>2. Sum(size) = 0 /\ walk[p].sum = 0
    BY <1>1, <2>1, SumOfNothing DEF Nowhere
  <2>3. Reported(p, "size")
    BY <1>3 DEF StatRoot
  <2>4. QED
    BY <1>1, <2>2, <2>3, WalkEnds
<1>4. QED
  BY <1>2, <1>3

LEMMA LstatRootStands ==
  ASSUME HealthInv, NEW p \in Procs, LstatRoot(p), Observe
  PROVE  WalkStands(p)' /\ ReportHolds(p)'
<1>1. walk[p].at = "root" /\ Stands(p, walk[p]) /\ low[p] \in Sizes /\ high[p] \in Sizes
  BY DEF LstatRoot, HealthInv, WalkInv, WalkStands, Bounds
<1>2. CASE Base \in dirs
  <2> DEFINE frame == [dir |-> Base, files |-> {}, dirs |-> {}]
             w == [at |-> "read", path |-> <<frame>>, sum |-> 0]
  <2>1. Base \in ParentsOf(Keys) /\ Len(Base) = 0 /\ SubSeq(Base, 1, 0) = Base
    <3>1. Base \in ParentsOf(Keys)
      BY <1>2 DEF HealthInv, TreeTypes
    <3>2. QED
      BY <3>1, DirectoryWay
  <2>2. Len(<<frame>>) = 1 /\ <<frame>>[1] = frame /\ <<frame>> # << >>
        /\ \A i \in 1 .. 1 : i = 1
    OBVIOUS
  <2>3. <<frame>> \in Seq(Frame)
    <3>1. frame \in Frame
      BY <2>1 DEF Frame
    <3>2. QED
      BY <3>1
  <2>4. WellNested(<<frame>>)
    <3>1. \A i \in 1 .. 1 : <<frame>>[i] = frame /\ i - 1 = 0
      BY <2>2
    <3>2. frame.dir = Base /\ frame.files = {} /\ frame.dirs = {}
      OBVIOUS
    <3> HIDE DEF frame
    <3> DEFINE path == <<frame>>
    <3>3. /\ path \in Seq(Frame) /\ path # << >> /\ Len(path) = 1
          /\ \A i \in 1 .. 1 : path[i] = frame /\ i - 1 = 0
      BY <2>2, <2>3, <3>1
    <3> HIDE DEF path
    <3>4. \A i \in 1 .. Len(path) :
             /\ Len(path[i].dir) = i - 1
             /\ \A k \in path[i].files : DirOf[k] = path[i].dir
             /\ \A d \in path[i].dirs : Len(d) = i /\ SubSeq(d, 1, i - 1) = path[i].dir
      BY <2>1, <3>2, <3>3
    <3>5. \A j \in 1 .. Len(path), i \in 1 .. Len(path) :
             i <= j => SubSeq(path[j].dir, 1, i - 1) = path[i].dir
      BY <2>1, <3>2, <3>3
    <3>6. \A i \in 1 .. Len(path), j \in 1 .. Len(path) : j = i + 1 => path[j].dir \notin path[i].dirs
      BY <3>2, <3>3
    <3>7. WellNested(path)
      BY <3>3, <3>4, <3>5, <3>6 DEF WellNested
    <3>8. QED
      BY <3>7 DEF path
  <2>5. Waiting(w) = Keys
    BY <2>2, OnTheWay DEF Waiting, Below, Awaited
  <2>6. Sum(Without(low[p], Keys)) = 0 /\ Sum(Without(high[p], Keys)) = 0
    BY <1>1, WithoutAll
  <2>7. Stands(p, w)
    BY <1>2, <2>2, <2>4, <2>5, <2>6 DEF Stands
  <2>8. Goto(p, "read", <<frame>>, 0)
    BY <1>2 DEF LstatRoot
  <2>9. QED
    BY <2>7, <2>8, WalkGoes
<1>3. CASE Base \notin dirs
  <2>1. ~quiet[p] /\ Reported(p, "panic")
    BY <1>1, <1>3 DEF LstatRoot, Stands
  <2>2. QED
    BY <2>1, WalkEnds
<1>4. QED
  BY <1>2, <1>3

-----------------------------------------------------------------------------
(* What is awaited above the directory that the walk is in.                *)
AwaitedAbove(path) == UNION {Awaited(path[i]) : i \in 1 .. Len(path) - 1}
Top(path) == path[Len(path)]

(* What is awaited in all.                                                 *)
LEMMA WaitingAt ==
  ASSUME NEW w, WellNested(w.path), w.at \in {"read", "next"},
         w.at = "read" => Top(w.path).files = {} /\ Top(w.path).dirs = {}
  PROVE  Waiting(w) = AwaitedAbove(w.path) \cup
                        (IF w.at = "read" THEN Below(Top(w.path).dir) ELSE Awaited(Top(w.path)))
<1> DEFINE n == Len(w.path)
           all == UNION {Awaited(w.path[i]) : i \in 1 .. n}
<1>1. n \in Nat \ {0}
  BY LenProperties, EmptySeq DEF WellNested
<1>2. 1 .. n = 1 .. n - 1 \cup {n}
  BY <1>1
<1>3. all = AwaitedAbove(w.path) \cup Awaited(Top(w.path))
  BY <1>2 DEF AwaitedAbove, Top
<1>4. w.at = "read" => Awaited(Top(w.path)) = {}
  BY DEF Awaited
<1>5. Waiting(w) = IF w.at = "read" THEN Below(Top(w.path).dir) \cup all ELSE all
  BY DEF Waiting, Top
<1>6. QED
  BY <1>3, <1>4, <1>5

(* What is entered in a directory was in it.                               *)
FrameOf(dir, frame) ==
  /\ frame \in Frame /\ frame.dir = dir
  /\ \A k \in frame.files : DirOf[k] = dir
  /\ \A d \in frame.dirs : Len(d) = Len(dir) + 1 /\ SubSeq(d, 1, Len(dir)) = dir

(* The directory that the walk is in.                                      *)
LEMMA TopIsFrame ==
  ASSUME NEW path, WellNested(path)
  PROVE  /\ FrameOf(Top(path).dir, Top(path)) /\ Len(path) \in Nat \ {0}
         /\ Len(Top(path).dir) = Len(path) - 1
         /\ \A i \in 1 .. Len(path) : path[i] \in Frame
<1> DEFINE n == Len(path)
<1>1. n \in Nat \ {0} /\ \A i \in 1 .. n : path[i] \in Frame
  BY LenProperties, EmptySeq, ElementOfSeq DEF WellNested
<1>2. /\ Len(path[n].dir) = n - 1
      /\ \A k \in path[n].files : DirOf[k] = path[n].dir
      /\ \A d \in path[n].dirs : Len(d) = n /\ SubSeq(d, 1, n - 1) = path[n].dir
  BY <1>1 DEF WellNested
<1>3. QED
  BY <1>1, <1>2 DEF FrameOf, Top

(* Its entries are read, or one of them is looked at.                      *)
LEMMA TopChanges ==
  ASSUME NEW path, WellNested(path), NEW frame, FrameOf(Top(path).dir, frame)
  PROVE  LET changed == Replaced(path, frame)
         IN  /\ WellNested(changed) /\ Top(changed) = frame
             /\ AwaitedAbove(changed) = AwaitedAbove(path)
             /\ \A i \in 1 .. Len(changed) :
                  changed[i] = frame \/ (i \in 1 .. Len(path) /\ changed[i] = path[i])
<1> DEFINE n == Len(path)
           new == Replaced(path, frame)
<1>1. /\ n \in Nat \ {0} /\ Len(Top(path).dir) = n - 1 /\ Top(path) = path[n]
      /\ \A i \in 1 .. n : path[i] \in Frame
  BY TopIsFrame DEF Top
<1>2. /\ new \in Seq(Frame) /\ Len(new) = n /\ new[n] = frame
      /\ \A i \in 1 .. n - 1 : new[i] = path[i]
  <2>1. path \in Seq(Frame) /\ path # << >> /\ frame \in Frame
    BY DEF WellNested, FrameOf
  <2>2. /\ Replaced(path, frame) \in Seq(Frame) /\ Len(Replaced(path, frame)) = Len(path)
        /\ Replaced(path, frame)[Len(path)] = frame
        /\ \A i \in 1 .. Len(path) - 1 : Replaced(path, frame)[i] = path[i]
    BY <2>1, PathReplaced
  <2>3. QED
    BY <2>2
<1> HIDE DEF new
<1>3. /\ \A i \in 1 .. n : new[i].dir = path[i].dir
      /\ \A i \in 1 .. n : i = n \/ i \in 1 .. n - 1
  BY <1>1, <1>2 DEF FrameOf
<1>4. \A i \in 1 .. n :
         /\ Len(new[i].dir) = i - 1
         /\ \A k \in new[i].files : DirOf[k] = new[i].dir
         /\ \A d \in new[i].dirs : Len(d) = i /\ SubSeq(d, 1, i - 1) = new[i].dir
  <2> TAKE i \in 1 .. n
  <2>1. CASE i = n
    <3>1. Len(frame.dir) = n - 1 /\ frame.dir = Top(path).dir /\ n - 1 + 1 = n
      BY <1>1 DEF FrameOf
    <3>2. QED
      BY <1>2, <2>1, <3>1 DEF FrameOf
  <2>2. CASE i \in 1 .. n - 1
    <3>1. new[i] = path[i]
      BY <1>2, <2>2
    <3>2. QED
      BY <3>1 DEF WellNested
  <2>3. QED
    BY <1>3, <2>1, <2>2
<1>5. \A j \in 1 .. n, i \in 1 .. n : i <= j => SubSeq(new[j].dir, 1, i - 1) = new[i].dir
  <2> TAKE j \in 1 .. n, i \in 1 .. n
  <2>1. i <= j => SubSeq(path[j].dir, 1, i - 1) = path[i].dir
    BY DEF WellNested
  <2>2. QED
    BY <1>3, <2>1
<1>6. \A i \in 1 .. n, j \in 1 .. n : j = i + 1 => new[j].dir \notin new[i].dirs
  <2> TAKE i \in 1 .. n, j \in 1 .. n
  <2> HAVE j = i + 1
  <2>1. i \in 1 .. n - 1
    BY <1>1
  <2>2. QED
    BY <1>2, <1>3, <2>1 DEF WellNested
<1>7. WellNested(new)
  <2>1. new # << >>
    BY <1>1, <1>2
  <2>2. QED
    BY <1>2, <1>4, <1>5, <1>6, <2>1 DEF WellNested
<1>8. Top(new) = frame /\ AwaitedAbove(new) = AwaitedAbove(path)
  BY <1>2 DEF Top, AwaitedAbove
<1>9. \A i \in 1 .. Len(new) : new[i] = frame \/ (i \in 1 .. n /\ new[i] = path[i])
  <2>1. ASSUME NEW i \in 1 .. n
        PROVE  new[i] = frame \/ new[i] = path[i]
    <3>1. CASE i = n
      <4>1. new[i] = new[n]
        BY <3>1
      <4>2. QED
        BY <1>2, <4>1
    <3>2. CASE i \in 1 .. n - 1
      <4>1. new[i] = path[i]
        BY <1>2, <3>2
      <4>2. QED
        BY <4>1
    <3>3. QED
      BY <1>3, <3>1, <3>2
  <2>2. Len(new) = n
    BY <1>2
  <2>3. QED
    BY <2>1, <2>2
<1>10. QED
  BY <1>7, <1>8, <1>9 DEF new

(* A frame that d is no longer awaited in, and the frame of d before it is *)
(* read.                                                                   *)
Left(frame, d) == [frame EXCEPT !.dirs = @ \ {d}]
Unread(d) == [dir |-> d, files |-> {}, dirs |-> {}]

(* The walk goes down to a directory that it has awaited.                  *)
LEMMA PathDeeper ==
  ASSUME NEW path, WellNested(path), NEW d \in Top(path).dirs, NEW deeper,
         deeper = Followed(path, Left(Top(path), d), Unread(d))
  PROVE  /\ WellNested(deeper) /\ Top(deeper) = Unread(d)
         /\ AwaitedAbove(deeper) = AwaitedAbove(path) \cup Awaited(Left(Top(path), d))
         /\ \A i \in 1 .. Len(deeper) :
              \/ deeper[i] = Left(Top(path), d) \/ deeper[i] = Unread(d)
              \/ (i \in 1 .. Len(path) /\ deeper[i] = path[i])
<1> DEFINE n == Len(path)
           left == Left(Top(path), d)
           below == Unread(d)
           new == Followed(path, left, below)
<1>1. /\ n \in Nat \ {0} /\ Len(Top(path).dir) = n - 1 /\ Top(path) = path[n]
      /\ \A i \in 1 .. n : path[i] \in Frame
      /\ FrameOf(Top(path).dir, Top(path))
  BY TopIsFrame DEF Top
<1>2. /\ left \in Frame /\ left.dir = path[n].dir /\ left.files = path[n].files
      /\ left.dirs = path[n].dirs \ {d}
  BY <1>1 DEF FrameOf, Frame, Left
<1>3. /\ d \in ParentsOf(Keys) /\ Len(d) = n /\ SubSeq(d, 1, n - 1) = path[n].dir
  BY <1>1 DEF FrameOf, Frame
<1>4. below \in Frame /\ below.dir = d /\ below.files = {} /\ below.dirs = {}
  BY <1>3 DEF Frame, Unread
<1>5. /\ new \in Seq(Frame) /\ Len(new) = n + 1 /\ new[n] = left /\ new[n + 1] = below
      /\ \A i \in 1 .. n - 1 : new[i] = path[i]
  <2> HIDE DEF left, below
  <2>1. path \in Seq(Frame) /\ path # << >>
    BY DEF WellNested
  <2>2. QED
    BY <1>2, <1>4, <2>1, PathFollowed
<1> HIDE DEF left, below, new
<1>6. /\ \A i \in 1 .. n : new[i].dir = path[i].dir /\ new[i].files = path[i].files
                           /\ new[i].dirs \subseteq path[i].dirs
      /\ \A i \in 1 .. n + 1 : i = n + 1 \/ i \in 1 .. n
      /\ \A i \in 1 .. n : i = n \/ i \in 1 .. n - 1
  <2>1. \A i \in 1 .. n : i = n \/ i \in 1 .. n - 1
    BY <1>1
  <2>2. QED
    BY <1>1, <1>2, <1>5, <2>1
<1>7. \A i \in 1 .. n + 1 :
         /\ Len(new[i].dir) = i - 1
         /\ \A k \in new[i].files : DirOf[k] = new[i].dir
         /\ \A e \in new[i].dirs : Len(e) = i /\ SubSeq(e, 1, i - 1) = new[i].dir
  <2> TAKE i \in 1 .. n + 1
  <2>1. CASE i = n + 1
    BY <1>1, <1>3, <1>4, <1>5, <2>1
  <2>2. CASE i \in 1 .. n
    BY <1>6, <2>2 DEF WellNested
  <2>3. QED
    BY <1>6, <2>1, <2>2
<1>8. \A j \in 1 .. n + 1, i \in 1 .. n + 1 : i <= j => SubSeq(new[j].dir, 1, i - 1) = new[i].dir
  <2> TAKE j \in 1 .. n + 1, i \in 1 .. n + 1
  <2> HAVE i <= j
  <2>1. CASE j \in 1 .. n
    <3>1. i \in 1 .. n
      BY <1>1, <2>1
    <3>2. SubSeq(path[j].dir, 1, i - 1) = path[i].dir
      BY <2>1, <3>1 DEF WellNested
    <3>3. QED
      BY <1>6, <2>1, <3>1, <3>2
  <2>2. CASE j = n + 1 /\ i = n + 1
    BY <1>1, <1>3, <1>4, <1>5, <2>2, DirectoryWay
  <2>3. CASE j = n + 1 /\ i \in 1 .. n
    <3>1. n - 1 \in 0 .. Len(d) /\ i - 1 \in 0 .. n - 1
      BY <1>1, <1>3, <2>3
    <3>2. SubSeq(d, 1, i - 1) = SubSeq(path[n].dir, 1, i - 1)
      BY <1>3, <3>1, DirectoryWay
    <3>3. SubSeq(path[n].dir, 1, i - 1) = path[i].dir
      <4>1. n \in 1 .. n /\ i <= n
        BY <1>1, <2>3
      <4>2. QED
        BY <2>3, <4>1 DEF WellNested
    <3>4. QED
      BY <1>4, <1>5, <1>6, <2>3, <3>2, <3>3
  <2>4. QED
    BY <1>6, <2>1, <2>2, <2>3
<1>9. \A i \in 1 .. n + 1, j \in 1 .. n + 1 : j = i + 1 => new[j].dir \notin new[i].dirs
  <2> TAKE i \in 1 .. n + 1, j \in 1 .. n + 1
  <2> HAVE j = i + 1
  <2>1. CASE i = n
    BY <1>2, <1>4, <1>5, <2>1
  <2>2. CASE i # n
    <3>1. i \in 1 .. n /\ j \in 1 .. n
      BY <1>1, <2>2
    <3>2. QED
      BY <1>6, <3>1 DEF WellNested
  <2>3. QED
    BY <2>1, <2>2
<1>10. WellNested(new)
  <2>1. new # << >>
    BY <1>1, <1>5
  <2>2. QED
    BY <1>5, <1>7, <1>8, <1>9, <2>1 DEF WellNested
<1>11. Top(new) = below
  BY <1>5 DEF Top
<1>12. AwaitedAbove(new) = AwaitedAbove(path) \cup Awaited(left)
  <2>1. Len(new) - 1 = n /\ 1 .. n = 1 .. n - 1 \cup {n}
    BY <1>1, <1>5
  <2>2. \A i \in 1 .. n - 1 : Awaited(new[i]) = Awaited(path[i])
    BY <1>5
  <2>3. Awaited(new[n]) = Awaited(left)
    BY <1>5
  <2>4. QED
    BY <2>1, <2>2, <2>3 DEF AwaitedAbove
<1>13. \A i \in 1 .. Len(new) : new[i] = left \/ new[i] = below \/ (i \in 1 .. n /\ new[i] = path[i])
  <2>1. ASSUME NEW i \in 1 .. n + 1
        PROVE  new[i] = left \/ new[i] = below \/ (i \in 1 .. n /\ new[i] = path[i])
    <3>1. CASE i = n + 1
      <4>1. new[i] = new[n + 1]
        BY <3>1
      <4>2. QED
        BY <1>5, <4>1
    <3>2. CASE i = n
      <4>1. new[i] = new[n]
        BY <3>2
      <4>2. QED
        BY <1>5, <4>1
    <3>3. CASE i \in 1 .. n - 1
      <4>1. new[i] = path[i] /\ i \in 1 .. n
        BY <1>1, <1>5, <3>3
      <4>2. QED
        BY <4>1
    <3>4. QED
      BY <1>6, <3>1, <3>2, <3>3
  <2>2. Len(new) = n + 1
    BY <1>5
  <2>3. QED
    BY <2>1, <2>2
<1>14. QED
  BY <1>10, <1>11, <1>12, <1>13 DEF new, left, below

-----------------------------------------------------------------------------
(* Where the walk of p is, between its steps.                              *)
LEMMA WalkIsAt ==
  ASSUME HealthInv, NEW p \in Procs, walk[p].at \in {"read", "next"}
  PROVE  /\ Stands(p, walk[p]) /\ WellNested(walk[p].path) /\ Bounds(p)
         /\ walk[p].sum \in Nat /\ size \in Sizes
         /\ Here(p) = Top(walk[p].path) /\ Above(p) = SubSeq(walk[p].path, 1, Len(walk[p].path) - 1)
         /\ walk[p].at = "read" => Here(p).files = {} /\ Here(p).dirs = {}
         /\ Waiting(walk[p]) = AwaitedAbove(walk[p].path) \cup
              (IF walk[p].at = "read" THEN Below(Here(p).dir) ELSE Awaited(Here(p)))
<1>1. Stands(p, walk[p]) /\ Bounds(p)
  BY DEF HealthInv, WalkInv, WalkStands
<1>2. WellNested(walk[p].path) /\ Here(p) = Top(walk[p].path)
      /\ (walk[p].at = "read" => Here(p).files = {} /\ Here(p).dirs = {})
  BY <1>1 DEF Stands, Here, Top
<1>3. walk[p].sum \in Nat /\ size \in Sizes
  BY SizesKept DEF HealthInv, WalkTypes
<1>4. QED
  BY <1>1, <1>2, <1>3, WaitingAt DEF Above

(* Something less is awaited: nothing that is there.                       *)
LEMMA SumsStand ==
  ASSUME NEW p \in Procs, Bounds(p), NEW js, NEW ks, js \subseteq ks, ks \cap Files \subseteq js,
         size \in Sizes, NEW sum \in Nat,
         Sum(Without(low[p], ks)) <= sum, sum <= Sum(Without(high[p], ks))
  PROVE  Sum(Without(low[p], js)) <= sum /\ sum <= Sum(Without(high[p], js))
<1>1. /\ low[p] \in Sizes /\ high[p] \in Sizes
      /\ \A k \in Keys : low[p][k] <= size[k]
  BY DEF Bounds
<1>2. \A k \in Keys : k \notin js => (k \notin ks /\ low[p][k] <= low[p][k]) \/ low[p][k] = Absent
  BY <1>1 DEF Sizes, Files, Absent
<1>3. \A k \in Keys : k \notin ks => k \notin js /\ high[p][k] <= high[p][k]
  BY <1>1 DEF Sizes, Absent
<1>4. Sum(Without(low[p], js)) <= Sum(Without(low[p], ks))
  BY <1>1, <1>2, WithoutOrdered
<1>5. Sum(Without(high[p], ks)) <= Sum(Without(high[p], js))
  BY <1>1, <1>3, WithoutOrdered
<1>6. /\ Sum(Without(low[p], js)) \in Nat /\ Sum(Without(low[p], ks)) \in Nat
      /\ Sum(Without(high[p], js)) \in Nat /\ Sum(Without(high[p], ks)) \in Nat
  BY <1>1, WithoutType, SumType
<1>7. QED
  BY <1>4, <1>5, <1>6

(* Its entries lead where the directory led, if there is a file there.     *)
LEMMA ReadDirNamesStands ==
  ASSUME HealthInv, NEW p \in Procs, ReadDirNames(p), Observe
  PROVE  WalkStands(p)' /\ ReportHolds(p)'
<1> DEFINE path == walk[p].path
           sum == walk[p].sum
           dir == Here(p).dir
<1>1. /\ walk[p].at = "read" /\ Stands(p, walk[p]) /\ WellNested(path) /\ Bounds(p)
      /\ sum \in Nat /\ size \in Sizes
      /\ Here(p) = Top(path) /\ Above(p) = SubSeq(path, 1, Len(path) - 1)
      /\ Waiting(walk[p]) = AwaitedAbove(path) \cup Below(dir)
  BY WalkIsAt DEF ReadDirNames
<1>2. CASE dir \in dirs
  <2> DEFINE frame == [dir |-> dir, files |-> FilesIn(dir), dirs |-> DirsIn(dir)]
             new == Replaced(path, frame)
             w == [at |-> "next", path |-> new, sum |-> sum]
  <2>1. frame.dir = dir /\ frame.files = FilesIn(dir) /\ frame.dirs = DirsIn(dir)
    OBVIOUS
  <2>2. FrameOf(dir, frame)
    <3>1. dirs \subseteq ParentsOf(Keys) /\ FilesIn(dir) \subseteq Keys
      BY DEF HealthInv, TreeTypes, FilesIn, Files
    <3>2. ASSUME NEW d \in DirsIn(dir)
          PROVE  Len(d) = Len(dir) + 1 /\ SubSeq(d, 1, Len(dir)) = dir /\ d \in ParentsOf(Keys)
      <4>1. d \in ParentsOf(Keys) /\ d # Base /\ SubSeq(d, 1, Len(d) - 1) = dir
        BY <3>1 DEF DirsIn
      <4>2. Len(d) \in Nat /\ Len(d) # 0 /\ Len(d) - 1 \in 0 .. Len(d)
        BY <4>1, DirectoryWay
      <4>3. Len(dir) = Len(d) - 1
        BY <4>1, <4>2, DirectoryWay
      <4>4. QED
        BY <4>1, <4>2, <4>3
    <3>3. \A k \in FilesIn(dir) : DirOf[k] = dir
      BY DEF FilesIn
    <3>4. frame \in Frame
      BY <1>2, <3>1, <3>2 DEF Frame
    <3>5. QED
      BY <2>1, <3>2, <3>3, <3>4 DEF FrameOf
  <2> HIDE DEF frame
  <2>3. WellNested(new) /\ Top(new) = frame /\ AwaitedAbove(new) = AwaitedAbove(path)
        /\ \A i \in 1 .. Len(new) : new[i] = frame \/ (i \in 1 .. Len(path) /\ new[i] = path[i])
    BY <1>1, <2>2, TopChanges
  <2> HIDE DEF new
  <2>4. Waiting(w) = AwaitedAbove(path) \cup Awaited(frame)
    BY <2>3, WaitingAt
  <2>5. Awaited(frame) \subseteq Below(dir)
    BY <2>1, LeadsBack DEF Awaited, Below
  <2>6. Below(dir) \cap Files \subseteq Awaited(frame)
    BY <2>1, LeadsOn DEF Awaited, Below, HealthInv, TreeInv
  <2>7. Sum(Without(low[p], Waiting(w))) <= sum /\ sum <= Sum(Without(high[p], Waiting(w)))
    <3>1. /\ Sum(Without(low[p], Waiting(walk[p]))) <= sum
          /\ sum <= Sum(Without(high[p], Waiting(walk[p])))
      BY <1>1 DEF Stands
    <3>2. Waiting(w) \subseteq Waiting(walk[p]) /\ Waiting(walk[p]) \cap Files \subseteq Waiting(w)
      BY <1>1, <2>4, <2>5, <2>6
    <3> HIDE DEF w
    <3>3. QED
      BY <1>1, <3>1, <3>2, SumsStand
  <2>8. quiet[p] =>
          \A i \in 1 .. Len(new) : new[i].files \subseteq Files /\ new[i].dirs \subseteq dirs
    <3> SUFFICES ASSUME quiet[p], NEW i \in 1 .. Len(new)
                 PROVE  new[i].files \subseteq Files /\ new[i].dirs \subseteq dirs
      OBVIOUS
    <3>1. CASE new[i] = frame
      BY <2>1, <3>1 DEF FilesIn, DirsIn
    <3>2. CASE i \in 1 .. Len(path) /\ new[i] = path[i]
      BY <1>1, <3>2 DEF Stands
    <3>3. QED
      BY <2>3, <3>1, <3>2
  <2>9. Stands(p, w)
    BY <2>3, <2>7, <2>8 DEF Stands
  <2>10. Goto(p, "next", new, sum)
    BY <1>1, <1>2 DEF ReadDirNames, new, frame, Replaced
  <2>11. QED
    BY <2>9, <2>10, WalkGoes
<1>3. CASE dir \notin dirs
  <2>1. ~quiet[p] /\ Reported(p, "error")
    BY <1>1, <1>3 DEF ReadDirNames, Stands, Top
  <2>2. QED
    BY <2>1, WalkEnds
<1>4. QED
  BY <1>2, <1>3

(* A file that is awaited is awaited once.                                 *)
LEMMA AwaitedOnce ==
  ASSUME NEW path, WellNested(path), NEW k \in Keys, k \in Top(path).files
  PROVE  k \notin AwaitedAbove(path) /\ Top(path).dirs \cap Parents[k] = {}
<1> DEFINE n == Len(path)
<1>1. /\ n \in Nat \ {0} /\ Top(path) = path[n] /\ n \in 1 .. n
      /\ DirOf[k] = path[n].dir /\ Len(DirOf[k]) = n - 1
  BY TopIsFrame DEF Top, FrameOf
<1>2. ASSUME NEW i \in 1 .. n, NEW e \in path[i].dirs, e \in Parents[k]
      PROVE  FALSE
  <2>1. Len(e) = i /\ Len(e) \in 0 .. Len(DirOf[k]) /\ e = SubSeq(DirOf[k], 1, i)
    <3>1. Len(e) = i
      BY <1>2 DEF WellNested
    <3>2. QED
      BY <1>2, <3>1, OnTheWay
  <2>2. i + 1 \in 1 .. n /\ i + 1 <= n /\ i + 1 - 1 = i
    BY <1>1, <2>1
  <2>3. SubSeq(path[n].dir, 1, i + 1 - 1) = path[i + 1].dir
    <3>1. \A m \in 1 .. n : m <= n => SubSeq(path[n].dir, 1, m - 1) = path[m].dir
      BY <1>1 DEF WellNested
    <3>2. QED
      BY <2>2, <3>1
  <2>4. path[i + 1].dir \notin path[i].dirs
    BY <2>2 DEF WellNested
  <2>5. QED
    BY <1>1, <1>2, <2>1, <2>2, <2>3, <2>4
<1>3. ASSUME NEW i \in 1 .. n - 1
      PROVE  k \notin path[i].files
  <2>1. i \in 1 .. n /\ i - 1 # n - 1
    BY <1>1
  <2>2. Len(path[i].dir) = i - 1 /\ (k \in path[i].files => DirOf[k] = path[i].dir)
    BY <2>1 DEF WellNested
  <2>3. QED
    BY <1>1, <2>1, <2>2
<1>4. \A i \in 1 .. n - 1 : i \in 1 .. n
  BY <1>1
<1>5. QED
  BY <1>1, <1>2, <1>3, <1>4 DEF AwaitedAbove, Awaited

(* A file that is passed is counted, at the size that it has.              *)
LEMMA LstatFileStands ==
  ASSUME HealthInv, NEW p \in Procs, LstatFile(p), Observe
  PROVE  WalkStands(p)' /\ ReportHolds(p)'
<1> DEFINE path == walk[p].path
           top == Top(path)
<1>1. /\ walk[p].at = "next" /\ Stands(p, walk[p]) /\ WellNested(path) /\ Bounds(p)
      /\ walk[p].sum \in Nat /\ size \in Sizes
      /\ Here(p) = top /\ Above(p) = SubSeq(path, 1, Len(path) - 1)
      /\ Waiting(walk[p]) = AwaitedAbove(path) \cup Awaited(top)
  BY WalkIsAt DEF LstatFile
<1>2. FrameOf(top.dir, top) /\ Len(path) \in 1 .. Len(path) /\ top = path[Len(path)]
  BY <1>1, TopIsFrame DEF Top
<1>3. PICK k \in top.files :
        IF k \in Files
          THEN Goto(p, "next", Append(Above(p), [top EXCEPT !.files = @ \ {k}]),
                    walk[p].sum + size[k])
          ELSE Reported(p, "panic")
  BY <1>1 DEF LstatFile
<1>4. CASE k \in Files
  <2> DEFINE frame == [top EXCEPT !.files = @ \ {k}]
             new == Replaced(path, frame)
             sum == walk[p].sum + size[k]
             w == [at |-> "next", path |-> new, sum |-> sum]
  <2>1. /\ frame \in Frame /\ frame.dir = top.dir
        /\ frame.files = top.files \ {k} /\ frame.dirs = top.dirs
    BY <1>2 DEF FrameOf, Frame
  <2>2. FrameOf(top.dir, frame)
    BY <1>2, <2>1 DEF FrameOf
  <2> HIDE DEF frame
  <2>3. WellNested(new) /\ Top(new) = frame /\ AwaitedAbove(new) = AwaitedAbove(path)
        /\ \A i \in 1 .. Len(new) : new[i] = frame \/ (i \in 1 .. Len(path) /\ new[i] = path[i])
    BY <1>1, <2>2, TopChanges
  <2> HIDE DEF new
  <2>4. Waiting(w) = AwaitedAbove(path) \cup Awaited(frame)
    BY <2>3, WaitingAt
  <2>5. k \in Keys /\ k \notin AwaitedAbove(path) /\ top.dirs \cap Parents[k] = {}
    BY <1>1, <1>4, AwaitedOnce DEF Files
  <2>6. Waiting(w) = Waiting(walk[p]) \ {k} /\ k \in Waiting(walk[p])
    <3>1. Awaited(frame) = Awaited(top) \ {k} /\ k \in Awaited(top)
      BY <2>1, <2>5 DEF Awaited
    <3>2. QED
      BY <1>1, <2>4, <2>5, <3>1
  <2>7. Sum(Without(low[p], Waiting(w))) <= sum /\ sum <= Sum(Without(high[p], Waiting(w)))
    <3> DEFINE ks == Waiting(walk[p])
    <3>1. Sum(Without(low[p], ks)) <= walk[p].sum /\ walk[p].sum <= Sum(Without(high[p], ks))
      BY <1>1 DEF Stands
    <3>2. low[p] \in Sizes /\ high[p] \in Sizes
      BY <1>1 DEF Bounds
    <3>3. /\ Sum(Without(low[p], ks \ {k})) = Sum(Without(low[p], ks)) + Counts(low[p], k)
          /\ Sum(Without(high[p], ks \ {k})) = Sum(Without(high[p], ks)) + Counts(high[p], k)
      BY <2>5, <2>6, <3>2, WithoutOneLess
    <3>4. /\ Counts(low[p], k) \in Nat /\ Counts(high[p], k) \in Nat /\ size[k] \in Nat
          /\ Counts(low[p], k) <= size[k] /\ size[k] <= Counts(high[p], k)
      BY <1>1, <1>4, <2>5, <3>2 DEF Counts, Bounds, Sizes, Files, Absent
    <3>5. Sum(Without(low[p], ks)) \in Nat /\ Sum(Without(high[p], ks)) \in Nat
      BY <3>2, WithoutType, SumType
    <3>6. Waiting(w) = ks \ {k}
      BY <2>6
    <3> HIDE DEF ks, w
    <3>7. QED
      BY <1>1, <3>1, <3>3, <3>4, <3>5, <3>6
  <2>8. quiet[p] =>
          \A i \in 1 .. Len(new) : new[i].files \subseteq Files /\ new[i].dirs \subseteq dirs
    <3> SUFFICES ASSUME quiet[p], NEW i \in 1 .. Len(new)
                 PROVE  new[i].files \subseteq Files /\ new[i].dirs \subseteq dirs
      OBVIOUS
    <3>1. \A j \in 1 .. Len(path) : path[j].files \subseteq Files /\ path[j].dirs \subseteq dirs
      BY <1>1 DEF Stands
    <3>2. QED
      BY <1>2, <2>1, <2>3, <3>1
  <2>9. Stands(p, w)
    BY <2>3, <2>7, <2>8 DEF Stands
  <2>10. Goto(p, "next", new, sum)
    BY <1>1, <1>3, <1>4 DEF new, frame, Replaced
  <2>11. QED
    BY <2>9, <2>10, WalkGoes
<1>5. CASE k \notin Files
  <2>1. ~quiet[p]
    BY <1>1, <1>2, <1>5 DEF Stands
  <2>2. QED
    BY <1>3, <1>5, <2>1, WalkEnds
<1>6. QED
  BY <1>4, <1>5

(* A directory that is entered is awaited where it was.                    *)
LEMMA LstatDirectoryStands ==
  ASSUME HealthInv, NEW p \in Procs, LstatDirectory(p), Observe
  PROVE  WalkStands(p)' /\ ReportHolds(p)'
<1> DEFINE path == walk[p].path
           top == Top(path)
           sum == walk[p].sum
<1>1. /\ walk[p].at = "next" /\ Stands(p, walk[p]) /\ WellNested(path)
      /\ Here(p) = top /\ Above(p) = SubSeq(path, 1, Len(path) - 1)
      /\ Waiting(walk[p]) = AwaitedAbove(path) \cup Awaited(top)
  BY WalkIsAt DEF LstatDirectory
<1>2. FrameOf(top.dir, top) /\ Len(path) \in 1 .. Len(path) /\ top = path[Len(path)]
  BY <1>1, TopIsFrame DEF Top
<1>3. PICK d \in top.dirs :
        IF d \in dirs
          THEN Goto(p, "read", Above(p) \o <<[top EXCEPT !.dirs = @ \ {d}],
                                             [dir |-> d, files |-> {}, dirs |-> {}]>>, sum)
          ELSE Reported(p, "panic")
  BY <1>1 DEF LstatDirectory
<1>4. CASE d \in dirs
  <2> DEFINE left == Left(top, d)
             below == Unread(d)
             new == Followed(path, left, below)
             w == [at |-> "read", path |-> new, sum |-> sum]
  <2>1. /\ left.files = top.files /\ left.dirs = top.dirs \ {d}
        /\ below.dir = d /\ below.files = {} /\ below.dirs = {}
    BY <1>2 DEF FrameOf, Frame, Left, Unread
  <2>2. /\ WellNested(new) /\ Top(new) = below
        /\ AwaitedAbove(new) = AwaitedAbove(path) \cup Awaited(left)
        /\ \A i \in 1 .. Len(new) : \/ new[i] = left \/ new[i] = below
                                     \/ (i \in 1 .. Len(path) /\ new[i] = path[i])
    <3>1. WellNested(path) /\ d \in Top(path).dirs
      BY <1>1
    <3>2. new = Followed(path, Left(Top(path), d), Unread(d))
      OBVIOUS
    <3> HIDE DEF new, path
    <3>3. QED
      BY <3>1, <3>2, PathDeeper
  <2> HIDE DEF left, below, new
  <2>3. Waiting(w) = AwaitedAbove(new) \cup Below(d)
    BY <2>1, <2>2, WaitingAt
  <2>4. Awaited(left) \cup Below(d) = Awaited(top)
    BY <2>1 DEF Awaited, Below
  <2>5. Waiting(w) = Waiting(walk[p])
    BY <1>1, <2>2, <2>3, <2>4
  <2>6. quiet[p] =>
          \A i \in 1 .. Len(new) : new[i].files \subseteq Files /\ new[i].dirs \subseteq dirs
    <3> SUFFICES ASSUME quiet[p], NEW i \in 1 .. Len(new)
                 PROVE  new[i].files \subseteq Files /\ new[i].dirs \subseteq dirs
      OBVIOUS
    <3>1. \A j \in 1 .. Len(path) : path[j].files \subseteq Files /\ path[j].dirs \subseteq dirs
      BY <1>1 DEF Stands
    <3>2. QED
      BY <1>2, <2>1, <2>2, <3>1
  <2>7. Stands(p, w)
    BY <1>1, <1>4, <2>1, <2>2, <2>5, <2>6 DEF Stands, Top
  <2>8. Goto(p, "read", new, sum)
    BY <1>1, <1>3, <1>4 DEF new, left, below, Followed, Left, Unread
  <2>9. QED
    BY <2>7, <2>8, WalkGoes
<1>5. CASE d \notin dirs
  <2>1. ~quiet[p]
    BY <1>1, <1>2, <1>5 DEF Stands
  <2>2. QED
    BY <1>3, <1>5, <2>1, WalkEnds
<1>6. QED
  BY <1>4, <1>5

(* Of a directory that is left nothing is awaited.                         *)
LEMMA LeaveDirectoryStands ==
  ASSUME HealthInv, NEW p \in Procs, LeaveDirectory(p), Observe
  PROVE  WalkStands(p)' /\ ReportHolds(p)'
<1> DEFINE path == walk[p].path
           n == Len(path)
           sum == walk[p].sum
<1>1. /\ walk[p].at = "next" /\ Stands(p, walk[p]) /\ WellNested(path) /\ Bounds(p)
      /\ Here(p) = Top(path) /\ Above(p) = SubSeq(path, 1, n - 1)
      /\ Waiting(walk[p]) = AwaitedAbove(path) \cup Awaited(Top(path))
      /\ Top(path).files = {} /\ Top(path).dirs = {}
  BY WalkIsAt DEF LeaveDirectory
<1>2. Waiting(walk[p]) = AwaitedAbove(path)
  BY <1>1 DEF Awaited
<1>3. /\ Sum(Without(low[p], AwaitedAbove(path))) <= sum
      /\ sum <= Sum(Without(high[p], AwaitedAbove(path)))
  BY <1>1, <1>2 DEF Stands
<1>4. n \in Nat \ {0} /\ Len(Top(path).dir) = n - 1
  BY <1>1, TopIsFrame
<1>5. CASE Top(path).dir = Base
  <2>1. n - 1 = 0
    BY <1>4, <1>5 DEF Base
  <2>2. AwaitedAbove(path) = {}
    <3>1. n - 1 = 0 /\ 1 .. 0 = {}
      BY <2>1
    <3>2. QED
      BY <3>1 DEF AwaitedAbove
  <2>3. Sum(low[p]) <= sum /\ sum <= Sum(high[p])
    BY <1>1, <1>3, <2>2, WithoutNone DEF Bounds
  <2>4. Reported(p, "size")
    BY <1>1, <1>5 DEF LeaveDirectory
  <2>5. QED
    BY <2>3, <2>4, WalkEnds
<1>6. CASE Top(path).dir # Base
  <2> DEFINE above == SubSeq(path, 1, n - 1)
             w == [at |-> "next", path |-> above, sum |-> sum]
  <2>1. n # 1
    <3>1. Top(path).dir \in ParentsOf(Keys)
      BY <1>1, TopIsFrame DEF FrameOf, Frame
    <3>2. Len(Top(path).dir) # 0
      BY <1>6, <3>1, DirectoryWay
    <3>3. QED
      BY <1>4, <3>2
  <2>2. above \in Seq(Frame) /\ Len(above) = n - 1 /\ \A i \in 1 .. n - 1 : above[i] = path[i]
    <3>1. path \in Seq(Frame) /\ path # << >>
      BY <1>1 DEF WellNested
    <3>2. QED
      BY <3>1, PathAbove
  <2> HIDE DEF above
  <2>3. \A i \in 1 .. n - 1 : i \in 1 .. n
    BY <1>4
  <2>4. WellNested(above)
    <3>1. above # << >>
      <4>1. Len(above) # 0 /\ Len(<< >>) = 0
        BY <1>4, <2>1, <2>2
      <4>2. QED
        BY <4>1
    <3>2. \A i \in 1 .. n - 1 :
             /\ Len(above[i].dir) = i - 1
             /\ \A k \in above[i].files : DirOf[k] = above[i].dir
             /\ \A d \in above[i].dirs : Len(d) = i /\ SubSeq(d, 1, i - 1) = above[i].dir
      <4> TAKE i \in 1 .. n - 1
      <4>1. i \in 1 .. n /\ above[i] = path[i]
        BY <2>2, <2>3
      <4>2. QED
        BY <1>1, <4>1 DEF WellNested
    <3>3. \A j \in 1 .. n - 1, i \in 1 .. n - 1 :
             i <= j => SubSeq(above[j].dir, 1, i - 1) = above[i].dir
      <4> TAKE j \in 1 .. n - 1, i \in 1 .. n - 1
      <4>1. i \in 1 .. n /\ j \in 1 .. n /\ above[i] = path[i] /\ above[j] = path[j]
        BY <2>2, <2>3
      <4>2. QED
        BY <1>1, <4>1 DEF WellNested
    <3>4. \A i \in 1 .. n - 1, j \in 1 .. n - 1 : j = i + 1 => above[j].dir \notin above[i].dirs
      <4> TAKE i \in 1 .. n - 1, j \in 1 .. n - 1
      <4>1. i \in 1 .. n /\ j \in 1 .. n /\ above[i] = path[i] /\ above[j] = path[j]
        BY <2>2, <2>3
      <4>2. QED
        BY <1>1, <4>1 DEF WellNested
    <3>5. QED
      BY <2>2, <3>1, <3>2, <3>3, <3>4 DEF WellNested
  <2>5. Waiting(w) = AwaitedAbove(path)
    <3>1. Waiting(w) = UNION {Awaited(above[i]) : i \in 1 .. n - 1}
      BY <2>2 DEF Waiting
    <3>2. QED
      BY <2>2, <3>1 DEF AwaitedAbove
  <2>6. Stands(p, w)
    BY <1>1, <1>3, <2>2, <2>3, <2>4, <2>5 DEF Stands
  <2>7. Goto(p, "next", above, sum)
    BY <1>1, <1>6 DEF LeaveDirectory, above
  <2>8. QED
    BY <2>6, <2>7, WalkGoes
<1>7. QED
  BY <1>5, <1>6

-----------------------------------------------------------------------------
(* The step of a walk.                                                     *)
LEMMA WalkStepStands ==
  ASSUME HealthInv, TreeInv', NEW p \in Procs, Walk(p), Observe
  PROVE  WalkInv' /\ \A q \in Procs : ReportHolds(q)'
<1>1. WalkStands(p)' /\ ReportHolds(p)'
  BY StatRootStands, LstatRootStands, ReadDirNamesStands, LstatFileStands, LstatDirectoryStands,
     LeaveDirectoryStands, Zenon DEF Walk
<1>2. \A q \in Procs : q # p => walk'[q] = walk[q] /\ reported'[q] = reported[q]
  <2>1. CASE \E kind : Reported(p, kind)
    BY <2>1 DEF Reported, HealthInv, TasksInv, WalkTypes
  <2>2. CASE \E place, path, sum : Goto(p, place, path, sum)
    BY <2>2 DEF Goto, HealthInv, TasksInv
  <2>3. QED
    <3>1. CASE StatRoot(p) \/ LstatRoot(p)
      BY <2>1, <2>2, <3>1, Zenon DEF StatRoot, LstatRoot
    <3>2. CASE ReadDirNames(p) \/ LeaveDirectory(p)
      BY <2>1, <2>2, <3>2, Zenon DEF ReadDirNames, LeaveDirectory
    <3>3. CASE LstatFile(p) \/ LstatDirectory(p)
      BY <2>1, <2>2, <3>3, Zenon DEF LstatFile, LstatDirectory
    <3>4. QED
      BY <3>1, <3>2, <3>3 DEF Walk
<1>3. \A q \in Procs : q # p => WalkStands(q)'
  BY <1>2, SizesKept, WalkRests DEF HealthInv
<1>4. \A q \in Procs : q # p => ReportHolds(q)'
  BY <1>2 DEF HealthInv, ReportHolds
<1>5. QED
  BY <1>1, <1>3, <1>4 DEF WalkInv

(* Any step.                                                               *)
LEMMA WalkStep ==
  ASSUME HealthInv, TreeInv', [ServerNext]_allVars
  PROVE  WalkInv' /\ \A p \in Procs : ReportHolds(p)'
<1>1. ASSUME walk' = walk, Observe
      PROVE  WalkInv'
  BY <1>1, SizesKept, WalkRests DEF HealthInv, WalkInv
<1>2. ASSUME reported' = reported
      PROVE  \A p \in Procs : ReportHolds(p)'
  BY <1>2 DEF HealthInv, ReportHolds
<1>3. ASSUME NEW p \in Procs, Task(p), Observe
      PROVE  WalkInv' /\ \A q \in Procs : ReportHolds(q)'
  <2>1. CASE Walk(p)
    BY <1>3, <2>1, WalkStepStands
  <2>2. CASE ReadCounter(p) \/ WriteCounter(p) \/ BeginStoreTask(p) \/ ContinueJob(p)
    BY <1>1, <1>2, <1>3, <2>2
       DEF ReadCounter, WriteCounter, BeginStoreTask, ContinueJob, healthVars
  <2>3. QED
    BY <1>3, <2>1, <2>2 DEF Task
<1>4. ASSUME NEW p \in Procs, Serve(p), Observe
      PROVE  WalkInv' /\ \A q \in Procs : ReportHolds(q)'
  <2>1. CASE Clear(p)
    <3>1. /\ walk' = walk /\ reported' = [reported EXCEPT ![p] = NoReport]
          /\ NoReport.kind = "none"
      BY <2>1 DEF Clear, NoReport
    <3>2. \A q \in Procs : reported'[q] = NoReport \/ reported'[q] = reported[q]
      BY <3>1 DEF HealthInv, WalkTypes
    <3>3. \A q \in Procs : ReportHolds(q)'
      BY <3>1, <3>2 DEF HealthInv, ReportHolds
    <3>4. QED
      BY <1>1, <1>4, <3>1, <3>3
  <2>2. CASE Redirect(p) \/ Match(p) \/ SetVars(p) \/ SetCurrentRoute(p) \/ Answer(p)
    BY <1>1, <1>2, <1>4, <2>2 DEF Redirect, Match, SetVars, SetCurrentRoute, Answer, healthVars
  <2>3. CASE Resizing(p)
    <3>1. walk' = walk /\ reported' = reported
      BY <2>3 DEF Resizing, healthVars
    <3>2. QED
      BY <1>1, <1>2, <1>4, <3>1
  <2>4. CASE OtherHandler(p)
    BY <1>1, <1>2, <1>4, <2>4 DEF OtherHandler, Begin
  <2>5. QED
    BY <1>4, <2>1, <2>2, <2>3, <2>4 DEF Serve
<1>5. ASSUME NEW p \in Procs, Arrive(p)
      PROVE  WalkInv' /\ \A q \in Procs : ReportHolds(q)'
  BY <1>1, <1>2, <1>5 DEF Arrive, Receive, healthVars
<1>6. CASE UNCHANGED allVars
  <2>1. /\ walk' = walk /\ reported' = reported /\ low' = low /\ high' = high /\ quiet' = quiet
        /\ size' = size /\ dirs' = dirs
    BY <1>6 DEF allVars, vars, treeVars, healthVars, seenVars
  <2>2. \A p \in Procs : WalkStands(p)' = WalkStands(p)
    BY <2>1 DEF WalkStands, Bounds, Stands, Files
  <2>3. QED
    BY <1>2, <2>1, <2>2 DEF HealthInv, WalkInv
<1>7. QED
  BY <1>3, <1>4, <1>5, <1>6 DEF ServerNext, Work

(* At first no walk is under way.                                          *)
LEMMA WalksHoldAtFirst ==
  ASSUME ServerInit
  PROVE  WalkInv /\ \A p \in Procs : ReportHolds(p)
<1>1. /\ walk = [p \in Procs |-> Nowhere] /\ reported = [p \in Procs |-> NoReport]
      /\ low = [p \in Procs |-> size] /\ high = low /\ InitTree
      /\ Nowhere.at = "none" /\ NoReport.kind = "none"
  BY DEF ServerInit, Init, Nowhere, NoReport
<1>2. size \in Sizes
  BY <1>1, InitTreeKeeps DEF TreeInv, TreeTypeInv, Sizes
<1>3. \A k \in Keys : size[k] <= size[k]
  BY <1>2 DEF Sizes, Absent
<1>4. QED
  BY <1>1, <1>2, <1>3 DEF WalkInv, WalkStands, Bounds, ReportHolds

(***************************************************************************)
(* The size that a walk reports is between what never was below and what   *)
(* never was above it, and a walk in a tree at rest does not fail, however *)
(* many goroutines change the tree meanwhile (utils.go 134-149).           *)
(***************************************************************************)
THEOREM WalksAlwaysReportWhatWasThere == ServerSpec => []WalkReportsWhatWasThere
<1> DEFINE Inv == ContextInv /\ CountersInv /\ AnswersInv /\ HealthInv
<1>1. ServerInit => Inv
  <2> SUFFICES ASSUME ServerInit
               PROVE  Inv
    OBVIOUS
  <2>1. ContextInv /\ CountersInv /\ AnswersInv /\ TasksInv /\ TreeInv /\ TreeTypes /\ WalkTypes
    BY TypesHoldAtFirst
  <2>2. QED
    BY <2>1, WalksHoldAtFirst DEF HealthInv
<1>2. Inv /\ [ServerNext]_allVars => Inv'
  BY ContextStep, CountersStep, TreeStep, AnswersStep, TreeTypesStep, WalkTypesStep, WalkStep
     DEF ContextInv, HealthInv
<1>3. Inv => WalkReportsWhatWasThere
  BY DEF HealthInv, ReportHolds, WalkReportsWhatWasThere
<1>4. QED
  BY <1>1, <1>2, <1>3, PTL DEF ServerSpec
-----------------------------------------------------------------------------
(***************************************************************************)
(* Nobody who holds d.mu gets stuck.  Each disjunct is a stage of an       *)
(* operation with what its next step needs: a directory to make whose      *)
(* parents are there, a leaf to remove.  FillFile needs nothing, and of    *)
(* PruneDirectory and PrunedAll one is always possible.                    *)
(***************************************************************************)
Missing(p) == Parents[job[p].key] \ dirs

HolderCanGoOn(p) ==
  \/ job[p].at \in {"fill", "prune"}
  \/ /\ job[p].at = "mkdir"
     /\ Missing(p) # {} => \E d \in Missing(p) : \A e \in Missing(p) : Len(d) <= Len(e)
  \/ /\ job[p].at = "removeAll"
     /\ Files # {} \/ dirs = {} \/ \E d \in dirs : EmptyDir(d)

HolderGoesOn == \A p \in Procs : mu = p => HolderCanGoOn(p)

LEMMA DirectoryLength ==
  ASSUME NEW k \in Keys, NEW d \in Parents[k]
  PROVE  /\ Len(d) \in Nat
         /\ d # Base => Len(SubSeq(d, 1, Len(d) - 1)) = Len(d) - 1
<1>1. PICK n \in 0 .. Len(DirOf[k]) : d = Prefix(k, n)
  BY ParentsAreUpTo DEF UpTo
<1>2. Len(DirOf[k]) \in Nat /\ Len(d) = n /\ n \in Nat
  BY <1>1, DirOfType, PrefixProperties
<1>3. ASSUME d # Base
      PROVE  Len(SubSeq(d, 1, n - 1)) = n - 1
  <2>1. n # 0 /\ n - 1 \in 0 .. n /\ n - 1 \in 0 .. Len(DirOf[k])
    BY <1>1, <1>2, <1>3, PrefixProperties
  <2>2. SubSeq(d, 1, n - 1) = Prefix(k, n - 1)
    BY <1>1, <2>1, PrefixProperties
  <2>3. QED
    BY <2>1, <2>2, PrefixProperties
<1>4. QED
  BY <1>2, <1>3

LEMMA DirectoriesAreFinite == IsFiniteSet(ParentsOf(Keys))
<1> DEFINE All == {Parents[k] : k \in Keys}
<1>1. IsFiniteSet(All)
  <2>1. Parents \in Surjection(Keys, All)
    BY DEF Parents, Surjection
  <2> HIDE DEF All
  <2>2. QED
    BY <2>1, FiniteKeysAssumption, FS_Surjection
<1>2. ASSUME NEW k \in Keys
      PROVE  IsFiniteSet(Parents[k])
  <2> DEFINE depths == 0 .. Len(DirOf[k])
             way == [n \in depths |-> Prefix(k, n)]
  <2>1. IsFiniteSet(depths)
    BY DirOfType, FS_Interval
  <2>2. Parents[k] = {Prefix(k, n) : n \in depths}
    BY ParentsAreUpTo DEF UpTo
  <2>3. way \in Surjection(depths, Parents[k])
    BY <2>2 DEF Surjection
  <2> HIDE DEF depths, way
  <2>4. QED
    BY <2>1, <2>3, FS_Surjection
<1>3. \A ds \in All : IsFiniteSet(ds)
  BY <1>2
<1>4. ParentsOf(Keys) = UNION All
  BY DEF ParentsOf
<1> HIDE DEF All
<1>5. QED
  BY <1>1, <1>3, <1>4, FS_UNION

(* When all the files are gone, and directories are left, one is empty:    *)
(* one as far from the base as any.                                        *)
LEMMA SomeLeaf ==
  ASSUME dirs \subseteq ParentsOf(Keys), dirs # {}, Files = {}
  PROVE  \E d \in dirs : EmptyDir(d)
<1> DEFINE Beyond(d) == {e \in dirs : Len(d) <= Len(e)}
           C == {Beyond(d) : d \in dirs}
<1>1. \A d \in dirs : Len(d) \in Nat /\ (d # Base => Len(SubSeq(d, 1, Len(d) - 1)) = Len(d) - 1)
  BY DirectoryLength DEF ParentsOf
<1>2. PICK d \in dirs : \A e \in dirs : Beyond(e) \subseteq Beyond(d) => Beyond(e) = Beyond(d)
  <2>1. IsFiniteSet(dirs)
    BY DirectoriesAreFinite, FS_Subset
  <2>2. C \in SUBSET SUBSET dirs /\ C # {}
    OBVIOUS
  <2>3. PICK s \in C : \A t \in C : t \subseteq s => t = s
    <3> HIDE DEF C
    <3>1. QED
      BY <2>1, <2>2, SmallestSubset
  <2>4. PICK d \in dirs : s = Beyond(d)
    OBVIOUS
  <2>5. \A e \in dirs : Beyond(e) \in C
    OBVIOUS
  <2> HIDE DEF Beyond, C
  <2>6. QED
    BY <2>3, <2>4, <2>5
<1>3. ASSUME NEW e \in DirsIn(d)
      PROVE  FALSE
  <2>1. e \in dirs /\ e # Base /\ SubSeq(e, 1, Len(e) - 1) = d
    BY DEF DirsIn
  <2>2. Len(d) = Len(e) - 1 /\ Len(e) \in Nat /\ Len(d) \in Nat
    BY <1>1, <2>1
  <2>3. \A c \in dirs : Len(e) <= Len(c) => Len(d) <= Len(c)
    BY <1>1, <2>2
  <2>4. d \in Beyond(d) /\ d \notin Beyond(e)
    BY <2>2
  <2>5. QED
    BY <1>2, <2>1, <2>3, <2>4
<1>4. FilesIn(d) = {}
  BY DEF FilesIn
<1>5. QED
  BY <1>3, <1>4 DEF EmptyDir

LEMMA HolderGoes == TreeInv /\ TreeTypes => HolderGoesOn
<1> SUFFICES ASSUME TreeInv, TreeTypes, NEW p \in Procs, mu = p
             PROVE  HolderCanGoOn(p)
  BY DEF HolderGoesOn
<1>1. job[p].at \in Jobs \ {"none"}
  BY DEF TreeInv, MutexInv, TreeTypeInv
<1>2. CASE job[p].at = "mkdir"
  <2>1. job[p].key \in Keys
    BY <1>2 DEF TreeInv, Stage
  <2>2. SUFFICES ASSUME Missing(p) # {}
                 PROVE  \E d \in Missing(p) : \A e \in Missing(p) : Len(d) <= Len(e)
    BY <1>2 DEF HolderCanGoOn
  <2> DEFINE T == {Len(d) : d \in Missing(p)}
  <2>3. T \in SUBSET Nat /\ T # {}
    BY <2>1, <2>2, DirectoryLength DEF Missing
  <2>4. PICK n \in T : \A m \in T : n <= m
    <3> HIDE DEF T
    <3>1. QED
      BY <2>3, LeastNumber
  <2>5. QED
    BY <2>4
<1>3. CASE job[p].at = "removeAll"
  BY <1>3, SomeLeaf DEF HolderCanGoOn, TreeTypes
<1>4. QED
  BY <1>1, <1>2, <1>3 DEF HolderCanGoOn, Jobs

(***************************************************************************)
(* Whoever holds the mutex of the store can take its next step: a write    *)
(* finds a directory to make while any is missing, an erasure prunes or    *)
(* stops, and a purge finds a file or an empty directory as long as the    *)
(* base is there (diskv.go 388-394, 471-480, 518-545).                     *)
(***************************************************************************)
THEOREM MutexHolderAlwaysGoesOn == ServerSpec => []HolderGoesOn
<1> DEFINE Inv == ContextInv /\ CountersInv /\ AnswersInv /\ TasksInv /\ TreeInv /\ TreeTypes
<1>1. ServerInit => Inv
  BY TypesHoldAtFirst
<1>2. Inv /\ [ServerNext]_allVars => Inv'
  BY ContextStep, CountersStep, TreeStep, AnswersStep, TreeTypesStep DEF ContextInv
<1>3. Inv => HolderGoesOn
  BY HolderGoes
<1>4. QED
  BY <1>1, <1>2, <1>3, PTL DEF ServerSpec
=============================================================================
