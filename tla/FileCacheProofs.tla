--------------------------- MODULE FileCacheProofs ---------------------------
(*************************************************************************)
(* What the cached reads keep, for any repositories, paths, threads and  *)
(* contents: no call is without a file to write to, and an answer was    *)
(* fetched for the slot and the namespace of what was asked for, but     *)
(* under a name where a switch of repositories has overtaken a read.  A  *)
(* name never stands for a file half written, if no two paths share a    *)
(* slot (OneToOne); TLC finds that broken when two do.                   *)
(*************************************************************************)
EXTENDS FileCache, FiniteSetTheorems, TLAPS

USE SlotAssumption, SwitchAssumption, BoundsAssumption, InodesAssumption,
    MarksAssumption

\* What a call of get_file_cached has in its hands, by the step it has reached.
Writing == {"write", "replace"}
ReaderOK ==
  \A t \in Threads :
    /\ reader[t].at # "idle" => reader[t].key \in Keys
    /\ reader[t].at \in {"open", "write", "replace"} => reader[t].got \in Content
    /\ reader[t].at \in Writing => reader[t].fd \in Inodes
    /\ reader[t].at \notin Writing => reader[t].fd = None

\* The lock of a key: one thread at a time has its temporary file open.
LockOK ==
  \A t, u \in Threads :
    /\ reader[t].at \in Writing /\ reader[u].at \in Writing
    /\ reader[t].key = reader[u].key
    => t = u

\* A name has an inode for itself, and so has a thread that writes: it stands
\* behind the temporary name, or behind none when the eviction has taken that.
NamesOK ==
  /\ \A n, m \in Names : file[n] # None /\ file[n] = file[m] => n = m
  /\ \A n, m \in Names : tmp[n] # None /\ tmp[n] = tmp[m] => n = m
  /\ \A n, m \in Names : file[n] # None => file[n] # tmp[m]
OpenOK ==
  \A t \in Threads : reader[t].at \in Writing =>
    /\ tmp[Name(reader[t].key)] \in {None, reader[t].fd}
    /\ \A n \in Names : /\ file[n] # reader[t].fd
                        /\ tmp[n] = reader[t].fd => n = Name(reader[t].key)
    /\ \A u \in Threads : u # t => reader[u].fd # reader[t].fd

\* What a writer has put behind its temporary name is whole when it is moved.
DataOK ==
  \A t \in Threads :
    /\ reader[t].at = "write" => data[reader[t].fd] = Torn
    /\ reader[t].at = "replace" => data[reader[t].fd] = reader[t].got

IInv == /\ TypeOK /\ ReaderOK
        /\ LockOK /\ NamesOK /\ OpenOK /\ DataOK /\ NeverTorn

\* Whatever shares a slot, the inodes of a name stay with that name: no other
\* name has one of them, nor has a call that works on another one.
PlaceOK ==
  /\ \A n, m \in Names :
       /\ file[n] # None /\ file[n] = file[m] => n = m
       /\ tmp[n] # None /\ tmp[n] = tmp[m] => n = m
       /\ file[n] # None /\ file[n] = tmp[m] => n = m
  /\ \A t \in Threads : reader[t].at \in Writing =>
       /\ \A n \in Names : file[n] = reader[t].fd \/ tmp[n] = reader[t].fd
                            => n = Name(reader[t].key)
       /\ \A u \in Threads : reader[u].at \in Writing /\ reader[u].fd = reader[t].fd
                              => Name(reader[u].key) = Name(reader[t].key)

\* What a call has in its hands belongs to its name, and so does what lies
\* under a name, unless it is torn.
HoldsOK ==
  /\ \A t \in Threads :
       reader[t].got # None => Belongs(reader[t].got, Name(reader[t].key))
  /\ \A n \in Names :
       /\ file[n] # None => data[file[n]] = Torn \/ Belongs(data[file[n]], n)
       /\ tmp[n] # None => data[tmp[n]] = Torn \/ Belongs(data[tmp[n]], n)

-----------------------------------------------------------------------------
\* A set that a finite one covers is finite and no larger.
LEMMA Covered ==
  ASSUME NEW S, IsFiniteSet(S), NEW T, NEW f, \A y \in T : \E x \in S : f[x] = y
  PROVE  /\ IsFiniteSet(T) /\ Cardinality(T) \in Nat /\ Cardinality(S) \in Nat
         /\ Cardinality(T) <= Cardinality(S)
<1> DEFINE S0 == {x \in S : f[x] \in T}
           g == [x \in S0 |-> f[x]]
<1>1. /\ IsFiniteSet(S0) /\ Cardinality(S0) \in Nat /\ Cardinality(S) \in Nat
      /\ Cardinality(S0) <= Cardinality(S)
  BY FS_Subset, FS_CardinalityType
<1>2. g \in Surjection(S0, T)
  BY DEF Surjection
<1>3. IsFiniteSet(T) /\ Cardinality(T) <= Cardinality(S0)
  BY <1>1, <1>2, FS_Surjection
<1>4. Cardinality(T) \in Nat
  BY <1>3, FS_CardinalityType
<1> QED
  BY <1>1, <1>3, <1>4

LEMMA UnionBound ==
  ASSUME NEW S, IsFiniteSet(S), NEW T, IsFiniteSet(T)
  PROVE  /\ IsFiniteSet(S \cup T) /\ Cardinality(S \cup T) \in Nat
         /\ Cardinality(S \cup T) <= Cardinality(S) + Cardinality(T)
<1>1. /\ IsFiniteSet(S \cup T)
      /\ Cardinality(S \cup T) = Cardinality(S) + Cardinality(T) - Cardinality(S \cap T)
  BY FS_Union
<1>2. /\ Cardinality(S) \in Nat /\ Cardinality(T) \in Nat
      /\ Cardinality(S \cap T) \in Nat /\ Cardinality(S \cup T) \in Nat
  BY <1>1, FS_Intersection, FS_CardinalityType
<1> QED
  BY <1>1, <1>2

\* A thread that is about to open a temporary file finds an inode for it.
LEMMA InodeIsFree ==
  ASSUME NEW t \in Threads, reader[t].fd = None
  PROVE  FreeInodes # {}
<1> SUFFICES ASSUME FreeInodes = {} PROVE FALSE
  OBVIOUS
<1> DEFINE A == {i \in Inodes : \E n \in Names : file[n] = i}
           B == {i \in Inodes : \E n \in Names : tmp[n] = i}
           C == {i \in Inodes : \E u \in Threads \ {t} : reader[u].fd = i}
           a == Cardinality(Names)
           c == Cardinality(Threads)
<1>1. Inodes \subseteq (A \cup B) \cup C
  <2> SUFFICES ASSUME NEW i \in Inodes PROVE i \in A \/ i \in B \/ i \in C
    OBVIOUS
  <2>1. i \notin FreeInodes
    OBVIOUS
  <2>2. reader[t].fd # i
    BY MarksAssumption
  <2> QED
    BY <2>1, <2>2 DEF FreeInodes
<1>2. IsFiniteSet(A) /\ Cardinality(A) \in Nat /\ a \in Nat /\ Cardinality(A) <= a
  <2>1. \A i \in A : \E n \in Names : file[n] = i
    OBVIOUS
  <2> HIDE DEF A
  <2> QED
    BY <2>1, InodesAssumption, Covered
<1>3. IsFiniteSet(B) /\ Cardinality(B) \in Nat /\ Cardinality(B) <= a
  <2>1. \A i \in B : \E n \in Names : tmp[n] = i
    OBVIOUS
  <2> HIDE DEF B
  <2> QED
    BY <2>1, InodesAssumption, Covered
<1>4. IsFiniteSet(C) /\ Cardinality(C) \in Nat /\ c \in Nat /\ Cardinality(C) <= c - 1
  <2> DEFINE f == [u \in Threads |-> reader[u].fd]
  <2>1. \A i \in C : \E u \in Threads \ {t} : f[u] = i
    OBVIOUS
  <2>2. IsFiniteSet(Threads \ {t}) /\ Cardinality(Threads \ {t}) = c - 1 /\ c \in Nat
    BY InodesAssumption, FS_RemoveElement, FS_CardinalityType
  <2> HIDE DEF C, f
  <2> QED
    BY <2>1, <2>2, Covered
<1>5. /\ IsFiniteSet(A \cup B) /\ Cardinality(A \cup B) \in Nat
      /\ Cardinality(A \cup B) <= Cardinality(A) + Cardinality(B)
  <2> HIDE DEF A, B
  <2> QED
    BY <1>2, <1>3, UnionBound
<1>6. /\ IsFiniteSet((A \cup B) \cup C) /\ Cardinality((A \cup B) \cup C) \in Nat
      /\ Cardinality((A \cup B) \cup C) <= Cardinality(A \cup B) + Cardinality(C)
  <2> DEFINE D == A \cup B
  <2>1. IsFiniteSet(D)
    BY <1>5
  <2> HIDE DEF D, C
  <2>2. /\ IsFiniteSet(D \cup C) /\ Cardinality(D \cup C) \in Nat
        /\ Cardinality(D \cup C) <= Cardinality(D) + Cardinality(C)
    BY <1>4, <2>1, UnionBound
  <2> QED
    BY <2>2 DEF D
<1>7. Cardinality(Inodes) <= Cardinality((A \cup B) \cup C) /\ Cardinality(Inodes) \in Nat
  BY <1>1, <1>6, InodesAssumption, FS_Subset, FS_CardinalityType
<1>8. Cardinality(Inodes) >= 2 * a + c
  BY InodesAssumption
<1> HIDE DEF A, B, C, a, c
<1> QED
  BY <1>2, <1>3, <1>4, <1>5, <1>6, <1>7, <1>8

\* One thread takes a step.
LEMMA Moves ==
  ASSUME TypeOK, NEW t \in Threads, NEW r \in Reader, Step(t, r)
  PROVE  /\ reader' \in [Threads -> Reader] /\ reader'[t] = r
         /\ \A u \in Threads : u # t => reader'[u] = reader[u]
BY DEF Step, TypeOK

\* The inode a thread opens: the temporary file's, or a new one.
LEMMA OpensAnInode ==
  ASSUME TypeOK, ReaderOK, NEW t \in Threads, Open(t)
  PROVE  /\ reader[t].key \in Keys /\ Name(reader[t].key) \in Names
         /\ \E i \in Inodes :
              /\ \/ tmp[Name(reader[t].key)] = i
                 \/ tmp[Name(reader[t].key)] = None /\ i \in FreeInodes
              /\ tmp' = [tmp EXCEPT ![Name(reader[t].key)] = i]
              /\ data' = [data EXCEPT ![i] = Torn]
              /\ Step(t, [reader[t] EXCEPT !.at = "write", !.fd = i])
<1> DEFINE n == Name(reader[t].key)
<1>1. reader[t].at = "open" /\ reader[t].key \in Keys /\ reader[t].fd = None
  BY DEF Open, ReaderOK, Writing
<1>2. n \in Names
  BY <1>1, SlotAssumption DEF Name, Names, Keys
<1>3. PICK i \in IF tmp[n] = None THEN NewInode ELSE {tmp[n]} :
        /\ tmp' = [tmp EXCEPT ![n] = i]
        /\ data' = [data EXCEPT ![i] = Torn]
        /\ Step(t, [reader[t] EXCEPT !.at = "write", !.fd = i])
  BY DEF Open
<1>4. FreeInodes # {} /\ FreeInodes \subseteq Inodes
  BY <1>1, InodeIsFree DEF FreeInodes
<1>5. /\ i \in Inodes
      /\ tmp[n] = i \/ (tmp[n] = None /\ i \in FreeInodes)
  BY <1>2, <1>3, <1>4 DEF NewInode, TypeOK
<1> QED
  BY <1>1, <1>2, <1>3, <1>5

-----------------------------------------------------------------------------
LEMMA InitIInv == Init => IInv
<1> SUFFICES ASSUME Init PROVE IInv
  OBVIOUS
<1>1. IdleReader \in Reader /\ IdleReader.at = "idle" /\ IdleReader.fd = None
      /\ IdleReader.got = None
  BY BoundsAssumption DEF IdleReader, Reader, Steps, Versions
<1>2. TypeOK
  BY <1>1, BoundsAssumption DEF Init, TypeOK, Versions, Data
<1> QED
  BY <1>1, <1>2 DEF Init, IInv, ReaderOK, LockOK, NamesOK, OpenOK, DataOK, NeverTorn, Writing

\* What a step of a call changes: one record, and of it what its step says.
LEMMA ReturnMoves ==
  ASSUME TypeOK, ReaderOK, NEW t \in Threads, reader[t].at # "idle",
         NEW c \in Content \cup {None}, Return(t, c)
  PROVE  /\ reader' \in [Threads -> Reader] /\ ReaderOK'
         /\ \A u \in Threads : u # t => reader'[u] = reader[u]
         /\ reader'[t].at = "done" /\ reader'[t].key = reader[t].key
         /\ reader'[t].got = c /\ reader'[t].fd = None
<1> DEFINE r == [reader[t] EXCEPT !.at = "done", !.got = c, !.fd = None]
<1>1. reader[t] \in Reader /\ Step(t, r)
  BY DEF Return, TypeOK
<1>2. /\ r \in Reader /\ r.at = "done" /\ r.key = reader[t].key
      /\ r.got = c /\ r.fd = None
  BY <1>1 DEF Reader, Steps
<1> HIDE DEF r
<1>3. /\ reader' \in [Threads -> Reader] /\ reader'[t] = r
      /\ \A u \in Threads : u # t => reader'[u] = reader[u]
  BY <1>1, <1>2, Moves
<1>4. ReaderOK'
  BY <1>2, <1>3 DEF ReaderOK, Writing
<1> QED
  BY <1>2, <1>3, <1>4

LEMMA StartMoves ==
  ASSUME TypeOK, ReaderOK, NEW t \in Threads, NEW p \in Paths, Start(t, p)
  PROVE  /\ reader' \in [Threads -> Reader] /\ ReaderOK'
         /\ \A u \in Threads : u # t => reader'[u] = reader[u]
         /\ reader'[t].at = "get" /\ reader'[t].fd = None /\ reader'[t].got = None
         /\ reader'[t].key = [repo |-> selected, path |-> p]
<1> DEFINE k == [repo |-> selected, path |-> p]
           r == [IdleReader EXCEPT !.at = "get", !.key = k, !.floor = floor[k]]
<1>1. k \in Keys /\ floor[k] \in Versions /\ Step(t, r)
  BY DEF Start, TypeOK, Keys
<1>2. /\ r \in Reader /\ r.at = "get" /\ r.key = k /\ r.got = None /\ r.fd = None
  BY <1>1 DEF IdleReader, Reader, Steps
<1> HIDE DEF r
<1>3. /\ reader' \in [Threads -> Reader] /\ reader'[t] = r
      /\ \A u \in Threads : u # t => reader'[u] = reader[u]
  BY <1>1, <1>2, Moves
<1>4. ReaderOK'
  BY <1>1, <1>2, <1>3 DEF ReaderOK, Writing
<1> QED
  BY <1>2, <1>3, <1>4

\* A miss goes on to the remote, a fetched content to the cache, an open file
\* to its end.
LEMMA GoesOn ==
  ASSUME TypeOK, ReaderOK, NEW t \in Threads, NEW r,
         \/ /\ reader[t].at = "get" /\ r = [reader[t] EXCEPT !.at = "fetch"]
         \/ /\ reader[t].at = "fetch"
            /\ \E c \in Content : r = [reader[t] EXCEPT !.at = "open", !.got = c]
         \/ /\ reader[t].at = "open"
            /\ \E i \in Inodes : r = [reader[t] EXCEPT !.at = "write", !.fd = i]
         \/ /\ reader[t].at = "write" /\ r = [reader[t] EXCEPT !.at = "replace"],
         Step(t, r)
  PROVE  /\ reader' \in [Threads -> Reader] /\ ReaderOK' /\ reader'[t] = r
         /\ \A u \in Threads : u # t => reader'[u] = reader[u]
         /\ r.key = reader[t].key
         /\ reader[t].at = "get" => r.at = "fetch" /\ r.fd = None /\ r.got = reader[t].got
         /\ reader[t].at = "fetch" => r.at = "open" /\ r.fd = None
         /\ reader[t].at = "open" => r.at = "write" /\ r.got = reader[t].got
         /\ reader[t].at = "write" => /\ r.at = "replace" /\ r.got = reader[t].got
                                      /\ r.fd = reader[t].fd
<1>1. reader[t] \in Reader
  BY DEF TypeOK
<1>2. /\ r \in Reader /\ r.key = reader[t].key
      /\ reader[t].at = "get" => r.at = "fetch" /\ r.fd = reader[t].fd /\ r.got = reader[t].got
      /\ reader[t].at = "fetch" => r.at = "open" /\ r.fd = reader[t].fd /\ r.got \in Content
      /\ reader[t].at = "open" => /\ r.at = "write" /\ r.got = reader[t].got
                                  /\ r.fd \in Inodes
      /\ reader[t].at = "write" => /\ r.at = "replace" /\ r.got = reader[t].got
                                   /\ r.fd = reader[t].fd
  BY <1>1 DEF Reader, Steps
<1>3. /\ reader' \in [Threads -> Reader] /\ reader'[t] = r
      /\ \A u \in Threads : u # t => reader'[u] = reader[u]
  BY <1>2, Moves
<1>4. reader[t].at # "idle"
  OBVIOUS
<1>5. ReaderOK'
  BY <1>2, <1>3, <1>4 DEF ReaderOK, Writing
<1> QED
  BY <1>2, <1>3, <1>5 DEF ReaderOK, Writing

-----------------------------------------------------------------------------
(* The cache's own steps keep the invariant when every path has a slot of  *)
(* its own.                                                                *)

OneToOne == \A p, q \in Paths : SlotOf[p] = SlotOf[q] => p = q

\* Then a name belongs to one file.
LEMMA NamesDiffer ==
  ASSUME OneToOne, NEW k \in Keys, NEW l \in Keys, Name(k) = Name(l)
  PROVE  k = l
<1>1. k.repo = l.repo /\ SlotOf[k.path] = SlotOf[l.path]
  BY DEF Name
<1>2. k.path = l.path
  BY <1>1 DEF OneToOne, Keys
<1> QED
  BY <1>1, <1>2 DEF Keys

Rest == LockOK /\ NamesOK /\ OpenOK /\ DataOK /\ NeverTorn

\* A thread steps, and has no file open behind the step.
LEMMA ReaderKeepsRest ==
  ASSUME ReaderOK, Rest, NEW t \in Threads,
         \A u \in Threads : u # t => reader'[u] = reader[u],
         reader'[t].at \notin Writing, reader'[t].fd = None,
         UNCHANGED <<file, tmp, data>>
  PROVE  Rest'
<1>1. LockOK'
  BY DEF Rest, LockOK
<1>2. NamesOK' /\ NeverTorn'
  BY DEF Rest, NamesOK, NeverTorn
<1>3. OpenOK'
  <2> SUFFICES ASSUME NEW u \in Threads, reader'[u].at \in Writing
               PROVE  /\ tmp[Name(reader'[u].key)] \in {None, reader'[u].fd}
                      /\ \A n \in Names : /\ file[n] # reader'[u].fd
                                          /\ tmp[n] = reader'[u].fd => n = Name(reader'[u].key)
                      /\ \A x \in Threads : x # u => reader'[x].fd # reader'[u].fd
    BY DEF OpenOK, Name
  <2>1. u # t /\ reader'[u] = reader[u] /\ reader[u].fd \in Inodes
    BY DEF ReaderOK
  <2> QED
    BY <2>1, MarksAssumption DEF Rest, OpenOK
<1>4. DataOK'
  BY DEF Rest, DataOK, Writing
<1> QED
  BY <1>1, <1>2, <1>3, <1>4 DEF Rest

\* Names go, and nothing else changes.
LEMMA UnlinksKeepRest ==
  ASSUME ReaderOK, Rest, UNCHANGED <<reader, data>>,
         \A n \in Names : /\ file'[n] \in {None, file[n]}
                          /\ tmp'[n] \in {None, tmp[n]}
  PROVE  Rest'
<1>1. LockOK' /\ DataOK'
  BY DEF Rest, LockOK, DataOK
<1>2. NamesOK'
  BY DEF Rest, NamesOK
<1>3. NeverTorn'
  BY DEF Rest, NeverTorn
<1>4. OpenOK'
  <2> SUFFICES ASSUME NEW u \in Threads, reader[u].at \in Writing
               PROVE  /\ tmp'[Name(reader[u].key)] \in {None, reader[u].fd}
                      /\ \A n \in Names : /\ file'[n] # reader[u].fd
                                          /\ tmp'[n] = reader[u].fd => n = Name(reader[u].key)
                      /\ \A x \in Threads : x # u => reader[x].fd # reader[u].fd
    BY DEF OpenOK, Name
  <2>1. reader[u].fd \in Inodes /\ reader[u].key \in Keys
    BY DEF ReaderOK, Writing
  <2>2. Name(reader[u].key) \in Names
    BY <2>1, SlotAssumption DEF Name, Names, Keys
  <2> QED
    BY <2>1, <2>2, MarksAssumption DEF Rest, OpenOK
<1> QED
  BY <1>1, <1>2, <1>3, <1>4 DEF Rest

\* A thread opens the temporary file.
LEMMA OpenKeepsRest ==
  ASSUME OneToOne, TypeOK, ReaderOK, Rest, NEW t \in Threads, Open(t)
  PROVE  Rest'
<1> DEFINE k == reader[t].key
           n == Name(k)
<1>0. /\ reader[t].at = "open" /\ LockIsFree(k) /\ UNCHANGED file
      /\ k \in Keys /\ n \in Names /\ reader[t].fd = None
  BY OpensAnInode DEF Open, ReaderOK, Writing
<1>1. PICK i \in Inodes :
        /\ tmp[n] = i \/ (tmp[n] = None /\ i \in FreeInodes)
        /\ tmp' = [tmp EXCEPT ![n] = i]
        /\ data' = [data EXCEPT ![i] = Torn]
        /\ Step(t, [reader[t] EXCEPT !.at = "write", !.fd = i])
  BY OpensAnInode
<1> DEFINE r == [reader[t] EXCEPT !.at = "write", !.fd = i]
<1>2. /\ reader' \in [Threads -> Reader] /\ reader'[t] = r
      /\ \A u \in Threads : u # t => reader'[u] = reader[u]
      /\ r.key = k /\ r.at = "write"
  BY <1>0, <1>1, GoesOn
<1>3. r.fd = i
  BY DEF TypeOK, Reader
<1> HIDE DEF r
<1>4. \A u \in Threads : reader[u].at \in Writing =>
        /\ reader[u].key \in Keys /\ reader[u].key # k /\ Name(reader[u].key) # n
        /\ Name(reader[u].key) \in Names /\ reader[u].fd \in Inodes
  <2> SUFFICES ASSUME NEW u \in Threads, reader[u].at \in Writing
               PROVE  /\ reader[u].key \in Keys /\ reader[u].key # k
                      /\ Name(reader[u].key) # n
                      /\ Name(reader[u].key) \in Names /\ reader[u].fd \in Inodes
    OBVIOUS
  <2>1. reader[u].key \in Keys /\ reader[u].key # k /\ reader[u].fd \in Inodes
    BY <1>0 DEF LockIsFree, ReaderOK, Writing
  <2> QED
    BY <1>0, <2>1, NamesDiffer, SlotAssumption DEF Name, Names, Keys
\* Nobody else has the inode.
<1>5. /\ \A m \in Names : file[m] # i /\ (tmp[m] = i => m = n)
      /\ \A u \in Threads : reader[u].fd # i
  <2>1. CASE tmp[n] = i
    <3>1. \A m \in Names : file[m] # i /\ (tmp[m] = i => m = n)
      BY <1>0, <2>1, MarksAssumption DEF Rest, NamesOK
    <3>2. \A u \in Threads : reader[u].at \in Writing => reader[u].fd # i
      BY <1>0, <1>4, <2>1 DEF Rest, OpenOK
    <3> QED
      BY <3>1, <3>2, MarksAssumption DEF ReaderOK
  <2>2. CASE tmp[n] = None /\ i \in FreeInodes
    BY <2>2 DEF FreeInodes
  <2> QED
    BY <1>1, <2>1, <2>2
<1>6. /\ tmp'[n] = i /\ data'[i] = Torn
      /\ \A m \in Names : m # n => tmp'[m] = tmp[m]
      /\ \A j \in Inodes : j # i => data'[j] = data[j]
  BY <1>0, <1>1 DEF TypeOK
<1>7. LockOK'
  BY <1>2, <1>4 DEF Rest, LockOK, Writing
<1>8. NamesOK'
  BY <1>0, <1>5, <1>6 DEF Rest, NamesOK
<1>9. NeverTorn'
  <2>1. \A m \in Names : file[m] # None => file[m] \in Inodes /\ file[m] # i
    BY <1>5 DEF TypeOK
  <2> QED
    BY <1>0, <1>6, <2>1 DEF Rest, NeverTorn
<1>10. OpenOK'
  <2>1. ASSUME NEW u \in Threads, u # t, reader[u].at \in Writing
        PROVE  /\ tmp'[Name(reader[u].key)] \in {None, reader[u].fd}
               /\ \A m \in Names : /\ file[m] # reader[u].fd
                                   /\ tmp'[m] = reader[u].fd => m = Name(reader[u].key)
               /\ \A x \in Threads : x # u => reader'[x].fd # reader[u].fd
    <3>1. /\ Name(reader[u].key) # n /\ Name(reader[u].key) \in Names
          /\ reader[u].fd # i
      BY <1>4, <1>5, <2>1
    <3>2. /\ tmp[Name(reader[u].key)] \in {None, reader[u].fd}
          /\ \A m \in Names : /\ file[m] # reader[u].fd
                              /\ tmp[m] = reader[u].fd => m = Name(reader[u].key)
          /\ \A x \in Threads : x # u => reader[x].fd # reader[u].fd
      BY <2>1 DEF Rest, OpenOK
    <3> QED
      BY <1>2, <1>3, <1>6, <3>1, <3>2
  <2>2. /\ tmp'[n] = i
        /\ \A m \in Names : file[m] # i /\ (tmp'[m] = i => m = n)
        /\ \A x \in Threads : x # t => reader'[x].fd # i
    BY <1>2, <1>5, <1>6
  <2> QED
    BY <1>0, <1>2, <1>3, <2>1, <2>2 DEF OpenOK, Name
<1>11. DataOK'
  <2>1. ASSUME NEW u \in Threads, u # t
        PROVE  /\ reader[u].at = "write" => data'[reader[u].fd] = Torn
               /\ reader[u].at = "replace" => data'[reader[u].fd] = reader[u].got
    BY <1>4, <1>5, <1>6 DEF Rest, DataOK, Writing
  <2> QED
    BY <1>2, <1>3, <1>6, <2>1 DEF DataOK
<1> QED
  BY <1>7, <1>8, <1>9, <1>10, <1>11 DEF Rest

\* A thread writes what it has fetched into an inode nobody else has open.
LEMMA WriteKeepsRest ==
  ASSUME OneToOne, TypeOK, ReaderOK, Rest, NEW t \in Threads, Write(t)
  PROVE  Rest' /\ data' \in [Inodes -> Data]
<1> DEFINE i == reader[t].fd
           r == [reader[t] EXCEPT !.at = "replace"]
<1>0. /\ reader[t].at = "write" /\ i \in Inodes /\ reader[t].got \in Content
      /\ data[i] = Torn
  BY DEF Write, ReaderOK, Writing, Rest, DataOK
<1>1. /\ data' = [data EXCEPT ![i] = reader[t].got]
      /\ Step(t, r) /\ UNCHANGED <<file, tmp>>
  BY <1>0 DEF Write
<1>2. /\ reader'[t] = r /\ \A u \in Threads : u # t => reader'[u] = reader[u]
      /\ r.key = reader[t].key /\ r.at = "replace" /\ r.got = reader[t].got /\ r.fd = i
  BY <1>0, <1>1, GoesOn
<1> HIDE DEF r, i
<1>3. /\ data'[i] = reader[t].got /\ data' \in [Inodes -> Data]
      /\ \A j \in Inodes : j # i => data'[j] = data[j]
  BY <1>0, <1>1 DEF TypeOK, Data
<1>4. \A n \in Names : file[n] # i
  BY <1>0 DEF Rest, OpenOK, Writing, i
<1>5. \A u \in Threads : /\ reader'[u].key = reader[u].key
                         /\ reader'[u].at \in Writing <=> reader[u].at \in Writing
                         /\ reader'[u].fd = reader[u].fd
                         /\ reader'[u].got = reader[u].got
  BY <1>0, <1>2 DEF Writing, i
<1>6. LockOK' /\ NamesOK'
  BY <1>1, <1>5 DEF Rest, LockOK, NamesOK
<1>7. OpenOK'
  BY <1>1, <1>5 DEF Rest, OpenOK, Name
<1>8. NeverTorn'
  <2>1. \A n \in Names : file[n] # None => file[n] \in Inodes /\ file[n] # i
    BY <1>4 DEF TypeOK
  <2> QED
    BY <1>1, <1>3, <2>1 DEF Rest, NeverTorn
<1>9. DataOK'
  <2>1. ASSUME NEW u \in Threads, u # t, reader[u].at \in Writing
        PROVE  reader[u].fd \in Inodes /\ reader[u].fd # i
    BY <1>0, <2>1 DEF Rest, OpenOK, ReaderOK, Writing, i
  <2>2. ASSUME NEW u \in Threads, u # t
        PROVE  /\ reader[u].at = "write" => data'[reader[u].fd] = Torn
               /\ reader[u].at = "replace" => data'[reader[u].fd] = reader[u].got
    BY <1>3, <2>1, <2>2 DEF Rest, DataOK, Writing
  <2> QED
    BY <1>2, <1>3, <2>2 DEF DataOK
<1> QED
  BY <1>3, <1>6, <1>7, <1>8, <1>9 DEF Rest

\* What os.replace puts under the name: the file of this call, or what was
\* there before.
LEMMA ReplaceMoves ==
  ASSUME TypeOK, ReaderOK, Rest, NEW t \in Threads, Replace(t)
  PROVE  LET n == Name(reader[t].key) IN
         /\ n \in Names /\ reader[t].key \in Keys /\ reader[t].got \in Content
         /\ reader[t].at = "replace" /\ reader[t].fd \in Inodes
         /\ data[reader[t].fd] = reader[t].got
         /\ \A m \in Names : m # n => file'[m] = file[m] /\ tmp'[m] = tmp[m]
         /\ tmp'[n] = None
         /\ \/ file'[n] = file[n]
            \/ file'[n] = reader[t].fd /\ tmp[n] = reader[t].fd
         /\ file' \in [Names -> Inodes \cup {None}] /\ tmp' \in [Names -> Inodes \cup {None}]
         /\ Return(t, reader[t].got) /\ UNCHANGED data
<1> DEFINE n == Name(reader[t].key)
<1>1. /\ reader[t].at = "replace" /\ reader[t].key \in Keys
      /\ reader[t].got \in Content /\ reader[t].fd \in Inodes
      /\ data[reader[t].fd] = reader[t].got /\ tmp[n] \in {None, reader[t].fd}
  BY DEF Replace, ReaderOK, Writing, Rest, DataOK, OpenOK
<1>2. n \in Names
  BY <1>1, SlotAssumption DEF Name, Names, Keys
<1>3. /\ file' = IF tmp[n] = None THEN file ELSE [file EXCEPT ![n] = tmp[n]]
      /\ tmp' = [tmp EXCEPT ![n] = None]
      /\ Return(t, reader[t].got) /\ UNCHANGED data
  BY DEF Replace
<1> HIDE DEF n
<1>4. /\ \A m \in Names : m # n => file'[m] = file[m] /\ tmp'[m] = tmp[m]
      /\ tmp'[n] = None
      /\ \/ file'[n] = file[n]
         \/ file'[n] = reader[t].fd /\ tmp[n] = reader[t].fd
      /\ file' \in [Names -> Inodes \cup {None}] /\ tmp' \in [Names -> Inodes \cup {None}]
  BY <1>1, <1>2, <1>3 DEF TypeOK
<1> QED
  BY <1>1, <1>2, <1>3, <1>4 DEF n

LEMMA ReplaceKeepsRest ==
  ASSUME OneToOne, TypeOK, ReaderOK, Rest, NEW t \in Threads, Replace(t)
  PROVE  Rest'
<1> DEFINE n == Name(reader[t].key)
           i == reader[t].fd
<1>1. /\ n \in Names /\ reader[t].key \in Keys /\ reader[t].got \in Content
      /\ reader[t].at = "replace" /\ i \in Inodes /\ data[i] = reader[t].got
      /\ \A m \in Names : m # n => file'[m] = file[m] /\ tmp'[m] = tmp[m]
      /\ tmp'[n] = None
      /\ \/ file'[n] = file[n]
         \/ file'[n] = i /\ tmp[n] = i
      /\ Return(t, reader[t].got) /\ UNCHANGED data
  BY ReplaceMoves
<1>2. /\ \A u \in Threads : u # t => reader'[u] = reader[u]
      /\ reader'[t].at = "done" /\ reader'[t].fd = None
  BY <1>1, ReturnMoves
<1> HIDE DEF i, n
<1>3. /\ \A m \in Names : file[m] # i /\ (tmp[m] = i => m = n)
      /\ \A u \in Threads : u # t => reader[u].fd # i
  BY <1>1 DEF Rest, OpenOK, Writing, i, n
<1>4. LockOK'
  BY <1>2 DEF Rest, LockOK, Writing
<1>5. NamesOK'
  BY <1>1, <1>3, MarksAssumption DEF Rest, NamesOK
<1>6. NeverTorn'
  BY <1>1, MarksAssumption DEF Rest, NeverTorn
<1>7. OpenOK'
  <2> SUFFICES ASSUME NEW u \in Threads, reader'[u].at \in Writing
               PROVE  /\ tmp'[Name(reader'[u].key)] \in {None, reader'[u].fd}
                      /\ \A m \in Names : /\ file'[m] # reader'[u].fd
                                          /\ tmp'[m] = reader'[u].fd => m = Name(reader'[u].key)
                      /\ \A x \in Threads : x # u => reader'[x].fd # reader'[u].fd
    BY DEF OpenOK, Name
  <2>1. /\ u # t /\ reader'[u] = reader[u] /\ reader[u].at \in Writing
        /\ reader[u].fd \in Inodes /\ reader[u].key \in Keys /\ reader[u].fd # i
    BY <1>2, <1>3 DEF ReaderOK, Writing
  <2>2. Name(reader[u].key) \in Names
    BY <2>1, SlotAssumption DEF Name, Names, Keys
  <2>3. /\ tmp[Name(reader[u].key)] \in {None, reader[u].fd}
        /\ \A m \in Names : /\ file[m] # reader[u].fd
                            /\ tmp[m] = reader[u].fd => m = Name(reader[u].key)
        /\ \A x \in Threads : x # u => reader[x].fd # reader[u].fd
    BY <2>1 DEF Rest, OpenOK
  <2>4. \A m \in Names : /\ file'[m] # reader[u].fd
                         /\ tmp'[m] \in {None, tmp[m]}
    BY <1>1, <2>1, <2>3
  <2>5. \A x \in Threads : x # u => reader'[x].fd # reader[u].fd
    BY <1>2, <2>1, <2>3, MarksAssumption
  <2> QED
    BY <2>1, <2>2, <2>3, <2>4, <2>5, MarksAssumption
<1>8. DataOK'
  BY <1>1, <1>2 DEF Rest, DataOK
<1> QED
  BY <1>4, <1>5, <1>6, <1>7, <1>8 DEF Rest

-----------------------------------------------------------------------------
(* Every step keeps the types.                                             *)

Base == TypeOK /\ ReaderOK

LEMMA InitBase == Init => Base
<1> QED
  BY InitIInv DEF IInv, Base

\* The steps of a call.
LEMMA ReadKeepsBase ==
  ASSUME Base, NEW t \in Threads, Read(t)
  PROVE  Base'
<1>0. TypeOK /\ ReaderOK
  BY DEF Base
<1>1. CASE Get(t)
  <2> DEFINE n == Name(reader[t].key)
  <2>0. reader[t].at = "get" /\ UNCHANGED <<selected, remote, file, tmp, data, floor, strayed, switches, crashes>>
    BY <1>1 DEF Get
  <2>1. n \in Names
    BY <1>0, <2>0, SlotAssumption DEF ReaderOK, Name, Names, Keys
  <2>2. CASE file[n] # None /\ data[file[n]] # Torn
    <3>1. Return(t, data[file[n]]) /\ data[file[n]] \in Content
      BY <1>0, <1>1, <2>1, <2>2 DEF Get, TypeOK, Data
    <3>2. reader' \in [Threads -> Reader] /\ ReaderOK'
      BY <1>0, <2>0, <3>1, ReturnMoves
    <3> QED
      BY <1>0, <2>0, <3>2 DEF Base, TypeOK
  <2>3. CASE ~(file[n] # None /\ data[file[n]] # Torn)
    <3>1. Step(t, [reader[t] EXCEPT !.at = "fetch"])
      BY <1>1, <2>3 DEF Get
    <3>2. reader' \in [Threads -> Reader] /\ ReaderOK'
      BY <1>0, <2>0, <3>1, GoesOn
    <3> QED
      BY <1>0, <2>0, <3>2 DEF Base, TypeOK
  <2> QED
    BY <2>2, <2>3
<1>2. CASE Fetch(t)
  <2>0. /\ reader[t].at = "fetch"
        /\ UNCHANGED <<selected, remote, file, tmp, data, floor, switches, crashes>>
    BY <1>2 DEF Fetch
  <2> DEFINE k == [reader[t].key EXCEPT !.repo = selected]
             c == [key |-> k, version |-> remote[k]]
  <2>1. reader[t].key \in Keys
    BY <1>0, <2>0 DEF ReaderOK
  <2>2. k \in Keys
    BY <1>0, <2>1 DEF TypeOK, Keys
  <2>3. c \in Content
    BY <1>0, <2>2 DEF TypeOK, Content
  <2>4. Step(t, [reader[t] EXCEPT !.at = "open", !.got = c]) /\ strayed' \subseteq Names
    <3>1. Name(reader[t].key) \in Names
      BY <2>1, SlotAssumption DEF Name, Names, Keys
    <3> QED
      BY <1>0, <1>2, <3>1 DEF Fetch, TypeOK
  <2> HIDE DEF c
  <2>5. reader' \in [Threads -> Reader] /\ ReaderOK'
    BY <1>0, <2>0, <2>3, <2>4, GoesOn
  <2> QED
    BY <1>0, <2>0, <2>4, <2>5 DEF Base, TypeOK
<1>3. CASE FetchFails(t) \/ WriteFails(t)
  <2>0. /\ reader[t].at \in {"fetch", "write"}
        /\ UNCHANGED <<selected, remote, file, tmp, data, floor, strayed, switches, crashes>>
    BY <1>3 DEF FetchFails, WriteFails
  <2>1. \E c \in Content \cup {None} : Return(t, c)
    BY <1>0, <1>3 DEF FetchFails, WriteFails, ReaderOK
  <2>2. reader' \in [Threads -> Reader] /\ ReaderOK'
    BY <1>0, <2>0, <2>1, ReturnMoves
  <2> QED
    BY <1>0, <2>0, <2>2 DEF Base, TypeOK
<1>4. CASE Open(t)
  <2>1. PICK i \in Inodes :
          /\ tmp' = [tmp EXCEPT ![Name(reader[t].key)] = i]
          /\ data' = [data EXCEPT ![i] = Torn]
          /\ Step(t, [reader[t] EXCEPT !.at = "write", !.fd = i])
    BY <1>0, <1>4, OpensAnInode
  <2>2. reader[t].at = "open" /\ UNCHANGED <<selected, remote, file, floor, strayed, switches, crashes>>
    BY <1>4 DEF Open
  <2>3. reader' \in [Threads -> Reader] /\ ReaderOK'
    BY <1>0, <2>1, <2>2, GoesOn
  <2>4. /\ tmp' \in [Names -> Inodes \cup {None}]
        /\ data' \in [Inodes -> Data]
    BY <1>0, <2>1 DEF TypeOK, Data
  <2> QED
    BY <1>0, <2>2, <2>3, <2>4 DEF Base, TypeOK
<1>5. CASE Write(t)
  <2> DEFINE i == reader[t].fd
  <2>1. /\ reader[t].at = "write" /\ Step(t, [reader[t] EXCEPT !.at = "replace"])
        /\ UNCHANGED <<selected, remote, file, tmp, floor, strayed, switches, crashes>>
        /\ \E d \in {reader[t].got, Torn} : data' = [data EXCEPT ![i] = d]
    BY <1>5 DEF Write
  <2>2. reader' \in [Threads -> Reader] /\ ReaderOK'
    BY <1>0, <2>1, GoesOn
  <2>3. data' \in [Inodes -> Data]
    BY <1>0, <2>1 DEF TypeOK, Data, ReaderOK
  <2> QED
    BY <1>0, <2>1, <2>2, <2>3 DEF Base, TypeOK
<1>6. CASE Replace(t)
  <2> DEFINE n == Name(reader[t].key)
  <2>1. /\ reader[t].at = "replace" /\ Return(t, reader[t].got)
        /\ file' = IF tmp[n] = None THEN file ELSE [file EXCEPT ![n] = tmp[n]]
        /\ tmp' = [tmp EXCEPT ![n] = None]
        /\ UNCHANGED <<selected, remote, data, floor, strayed, switches, crashes>>
    BY <1>6 DEF Replace
  <2>2. n \in Names /\ reader[t].got \in Content
    BY <1>0, <2>1, SlotAssumption DEF ReaderOK, Name, Names, Keys
  <2>3. reader' \in [Threads -> Reader] /\ ReaderOK'
    BY <1>0, <2>1, <2>2, ReturnMoves
  <2> HIDE DEF n
  <2>4. file' \in [Names -> Inodes \cup {None}] /\ tmp' \in [Names -> Inodes \cup {None}]
    BY <1>0, <2>1, <2>2 DEF TypeOK
  <2> QED
    BY <1>0, <2>1, <2>3, <2>4 DEF Base, TypeOK
<1> QED
  BY <1>1, <1>2, <1>3, <1>4, <1>5, <1>6 DEF Read

LEMMA NextBase == Base /\ [Next]_vars => Base'
<1> SUFFICES ASSUME Base, [Next]_vars PROVE Base'
  OBVIOUS
<1>0. TypeOK /\ ReaderOK
  BY DEF Base
<1>1. ASSUME NEW k \in Keys, Push(k) PROVE Base'
  BY <1>0, <1>1, BoundsAssumption DEF Push, Base, TypeOK, ReaderOK, Versions
<1>2. ASSUME NEW r \in Repos, SetRepo(r) PROVE Base'
  BY <1>0, <1>2, BoundsAssumption DEF SetRepo, Base, TypeOK, ReaderOK
<1>3. ASSUME NEW r \in Repos, Clear(r) PROVE Base'
  BY <1>0, <1>3 DEF Clear, Expect, Base, TypeOK, ReaderOK
<1>4. CASE Crash
  <2>1. /\ IdleReader \in Reader /\ IdleReader.at = "idle" /\ IdleReader.fd = None
    BY BoundsAssumption DEF IdleReader, Reader, Steps, Versions
  <2> QED
    BY <1>0, <1>4, <2>1, BoundsAssumption DEF Crash, Base, TypeOK, ReaderOK, Writing
<1>5. CASE DiffInvalidate
  BY <1>0, <1>5 DEF DiffInvalidate, Expect, Base, TypeOK, ReaderOK
<1>6. ASSUME NEW n \in Names, Unlink(n) \/ UnlinkTmp(n) PROVE Base'
  BY <1>0, <1>6 DEF Unlink, UnlinkTmp, Base, TypeOK, ReaderOK
<1>7. ASSUME NEW t \in Threads, NEW p \in Paths, Start(t, p) PROVE Base'
  <2>1. reader' \in [Threads -> Reader] /\ ReaderOK'
    BY <1>0, <1>7, StartMoves
  <2> QED
    BY <1>0, <1>7, <2>1 DEF Start, Base, TypeOK
<1>8. ASSUME NEW t \in Threads, Read(t) PROVE Base'
  BY <1>8, ReadKeepsBase
<1>9. CASE UNCHANGED vars
  BY <1>0, <1>9 DEF vars, Base, TypeOK, ReaderOK
<1> QED
  BY <1>1, <1>2, <1>3, <1>4, <1>5, <1>6, <1>7, <1>8, <1>9 DEF Next

LEMMA AlwaysBase == Spec => []Base
<1> QED
  BY InitBase, NextBase, PTL DEF Spec

\* Every variable keeps its type, and no call ever runs out of inodes.
THEOREM TypeCorrect == Spec => []TypeOK
<1>1. Base => TypeOK
  BY DEF Base
<1> QED
  BY <1>1, AlwaysBase, PTL

-----------------------------------------------------------------------------
(* A cached file is whole.                                                 *)

LEMMA NextRest ==
  ASSUME OneToOne, Base, Rest, [Next]_vars
  PROVE  Rest'
<1>0. TypeOK /\ ReaderOK
  BY DEF Base
<1>1. ASSUME UNCHANGED <<file, tmp, data, reader>> PROVE Rest'
  BY <1>1 DEF Rest, LockOK, NamesOK, OpenOK, DataOK, NeverTorn, Name
<1>2. ASSUME NEW k \in Keys, Push(k) PROVE Rest'
  BY <1>1, <1>2 DEF Push
<1>3. ASSUME NEW r \in Repos, SetRepo(r) PROVE Rest'
  BY <1>1, <1>3 DEF SetRepo
<1>4. ASSUME NEW r \in Repos, Clear(r) PROVE Rest'
  <2>1. /\ UNCHANGED <<reader, data, tmp>>
        /\ \A n \in Names : file'[n] \in {None, file[n]}
    BY <1>4 DEF Clear
  <2> QED
    BY <1>0, <2>1, UnlinksKeepRest
<1>5. CASE Crash
  <2>1. /\ IdleReader.at = "idle" /\ IdleReader.fd = None
    BY DEF IdleReader
  <2>2. \A t \in Threads : reader'[t].at = "idle" /\ reader'[t].fd = None
    BY <1>5, <2>1 DEF Crash
  <2>3. UNCHANGED <<file, tmp, data>>
    BY <1>5 DEF Crash
  <2> QED
    BY <2>2, <2>3 DEF Rest, LockOK, NamesOK, OpenOK, DataOK, NeverTorn, Writing
<1>6. CASE DiffInvalidate
  BY <1>1, <1>6 DEF DiffInvalidate
<1>7. ASSUME NEW n \in Names, Unlink(n) \/ UnlinkTmp(n) PROVE Rest'
  <2>1. /\ UNCHANGED <<reader, data>>
        /\ \A m \in Names : file'[m] \in {None, file[m]} /\ tmp'[m] \in {None, tmp[m]}
    BY <1>0, <1>7 DEF Unlink, UnlinkTmp, TypeOK
  <2> QED
    BY <1>0, <2>1, UnlinksKeepRest
<1>8. ASSUME NEW t \in Threads, NEW p \in Paths, Start(t, p) PROVE Rest'
  <2>1. UNCHANGED <<file, tmp, data>>
    BY <1>8 DEF Start
  <2>2. /\ \A u \in Threads : u # t => reader'[u] = reader[u]
        /\ reader'[t].at = "get" /\ reader'[t].fd = None
    BY <1>0, <1>8, StartMoves
  <2> QED
    BY <1>0, <2>1, <2>2, ReaderKeepsRest DEF Writing
<1>9. ASSUME NEW t \in Threads, Get(t) \/ Fetch(t) \/ FetchFails(t) \/ WriteFails(t)
      PROVE  Rest'
  <2>1. UNCHANGED <<file, tmp, data>>
    BY <1>9 DEF Get, Fetch, FetchFails, WriteFails
  <2>2. /\ \A u \in Threads : u # t => reader'[u] = reader[u]
        /\ reader'[t].at \notin Writing
    <3>1. ASSUME NEW r, r.at \notin Writing, Step(t, r)
          PROVE  /\ \A u \in Threads : u # t => reader'[u] = reader[u]
                 /\ reader'[t].at \notin Writing
      BY <1>0, <3>1 DEF Step, TypeOK
    <3>2. \A c : [reader[t] EXCEPT !.at = "done", !.got = c, !.fd = None].at \notin Writing
      BY <1>0 DEF TypeOK, Reader, Writing
    <3>3. [reader[t] EXCEPT !.at = "fetch"].at \notin Writing
      BY <1>0 DEF TypeOK, Reader, Writing
    <3>4. \A c : [reader[t] EXCEPT !.at = "open", !.got = c].at \notin Writing
      BY <1>0 DEF TypeOK, Reader, Writing
    <3> QED
      BY <1>9, <3>1, <3>2, <3>3, <3>4 DEF Get, Fetch, FetchFails, WriteFails, Return
  <2>3. ReaderOK'
    <3>1. Read(t)
      BY <1>9 DEF Read
    <3> QED
      BY <3>1, ReadKeepsBase DEF Base
  <2>4. reader'[t].fd = None
    BY <2>2, <2>3 DEF ReaderOK, Writing
  <2> QED
    BY <1>0, <2>1, <2>2, <2>4, ReaderKeepsRest
<1>10. ASSUME NEW t \in Threads, Open(t) \/ Write(t) \/ Replace(t) PROVE Rest'
  BY <1>0, <1>10, OpenKeepsRest, WriteKeepsRest, ReplaceKeepsRest
<1>11. CASE UNCHANGED vars
  BY <1>1, <1>11 DEF vars
<1> QED
  BY <1>2, <1>3, <1>4, <1>5, <1>6, <1>7, <1>8, <1>9, <1>10, <1>11 DEF Next, Read

\* With a slot of its own for every path no reader ever finds a half-written
\* file in the cache, whoever reads, writes, evicts, clears or dies meanwhile:
\* a temporary file belongs to the one call that holds the lock of its key.
THEOREM WholeFiles ==
  ASSUME OneToOne
  PROVE  Spec => []NeverTorn
<1>1. Init => Base /\ Rest
  BY InitIInv DEF IInv, Base, Rest
<1>2. Base /\ Rest /\ [Next]_vars => (Base /\ Rest)'
  BY NextBase, NextRest
<1>3. Base /\ Rest => NeverTorn
  BY DEF Rest
<1> QED
  BY <1>1, <1>2, <1>3, PTL DEF Spec

-----------------------------------------------------------------------------
(* An answer belongs to the name it was asked for.                         *)

\* Belongs, for the names that have gone astray by then.
Fits(c, n, names) == /\ SlotOf[c.key.path] = n.slot
                     /\ c.key.repo = n.repo \/ n \in names

\* A thread steps, and has no file open behind the step.
LEMMA ReaderKeepsPlace ==
  ASSUME PlaceOK, NEW t \in Threads,
         \A u \in Threads : u # t => reader'[u] = reader[u],
         reader'[t].at \notin Writing, UNCHANGED <<file, tmp>>
  PROVE  PlaceOK'
BY DEF PlaceOK, Name

\* A thread steps on with an answer of its own name, or with none.
LEMMA ReaderKeepsHolds ==
  ASSUME HoldsOK, NEW t \in Threads,
         \A u \in Threads : u # t => reader'[u] = reader[u],
         reader'[t].key = reader[t].key,
         \/ reader'[t].got \in {None, reader[t].got}
         \/ Fits(reader'[t].got, Name(reader[t].key), strayed'),
         UNCHANGED <<file, tmp, data>>, strayed \subseteq strayed'
  PROVE  HoldsOK'
<1>1. ASSUME NEW c, NEW n, Belongs(c, n) PROVE Fits(c, n, strayed')
  BY <1>1 DEF Belongs, Fits
<1>2. ASSUME NEW u \in Threads, reader'[u].got # None
      PROVE  Fits(reader'[u].got, Name(reader'[u].key), strayed')
  <2>1. CASE u # t \/ reader'[t].got = reader[t].got
    <3>1. reader'[u].got = reader[u].got /\ reader'[u].key = reader[u].key
      BY <2>1
    <3> QED
      BY <1>1, <1>2, <3>1 DEF HoldsOK
  <2>2. CASE u = t /\ Fits(reader'[t].got, Name(reader[t].key), strayed')
    BY <2>2
  <2> QED
    BY <1>2, <2>1, <2>2
<1>3. \A n \in Names :
        /\ file[n] # None => data[file[n]] = Torn \/ Fits(data[file[n]], n, strayed')
        /\ tmp[n] # None => data[tmp[n]] = Torn \/ Fits(data[tmp[n]], n, strayed')
  BY <1>1 DEF HoldsOK
<1> QED
  BY <1>2, <1>3 DEF HoldsOK, Belongs, Fits, Name

\* The steps that touch no file.
LEMMA AnswersKeepOwn ==
  ASSUME Base, PlaceOK, HoldsOK, NEW t \in Threads,
         Get(t) \/ Fetch(t) \/ FetchFails(t) \/ WriteFails(t)
  PROVE  PlaceOK' /\ HoldsOK'
<1> DEFINE k == reader[t].key
           n == Name(k)
<1>0. /\ TypeOK /\ ReaderOK /\ UNCHANGED <<file, tmp, data>>
      /\ reader[t] \in Reader /\ reader[t].at \in {"get", "fetch", "write"}
  BY DEF Base, TypeOK, Get, Fetch, FetchFails, WriteFails
<1>a. k \in Keys /\ n \in Names
  BY <1>0, SlotAssumption DEF ReaderOK, Name, Names, Keys
<1>1. CASE Get(t) /\ file[n] # None /\ data[file[n]] # Torn
  <2>1. Return(t, data[file[n]]) /\ data[file[n]] \in Content /\ UNCHANGED strayed
    BY <1>0, <1>1, <1>a DEF Get, TypeOK, Data
  <2>2. /\ \A u \in Threads : u # t => reader'[u] = reader[u]
        /\ reader'[t].at = "done" /\ reader'[t].key = k /\ reader'[t].got = data[file[n]]
    BY <1>0, <2>1, ReturnMoves
  <2>3. Belongs(data[file[n]], n)
    BY <1>1, <1>a DEF HoldsOK
  <2>4. Fits(reader'[t].got, Name(reader[t].key), strayed')
    BY <2>1, <2>2, <2>3 DEF Belongs, Fits
  <2> QED
    BY <1>0, <2>1, <2>2, <2>4, ReaderKeepsPlace, ReaderKeepsHolds DEF Writing
<1>2. CASE Get(t) /\ ~(file[n] # None /\ data[file[n]] # Torn)
  <2> DEFINE r == [reader[t] EXCEPT !.at = "fetch"]
  <2>1. reader[t].at = "get" /\ Step(t, r) /\ UNCHANGED strayed
    BY <1>2 DEF Get
  <2>2. /\ reader'[t] = r /\ \A u \in Threads : u # t => reader'[u] = reader[u]
        /\ r.key = k /\ r.at = "fetch" /\ r.got = reader[t].got
    BY <1>0, <2>1, GoesOn
  <2> HIDE DEF r
  <2> QED
    BY <1>0, <2>1, <2>2, ReaderKeepsPlace, ReaderKeepsHolds DEF Writing
<1>3. CASE Fetch(t)
  <2> DEFINE l == [k EXCEPT !.repo = selected]
             c == [key |-> l, version |-> remote[l]]
             r == [reader[t] EXCEPT !.at = "open", !.got = c]
  <2>1. /\ reader[t].at = "fetch" /\ Step(t, r)
        /\ strayed' = IF l = k THEN strayed ELSE strayed \cup {n}
    BY <1>3 DEF Fetch
  <2>2. l \in Keys /\ l.path = k.path /\ (l.repo = k.repo \/ l # k)
    BY <1>0, <1>a DEF TypeOK, Keys
  <2>3. c \in Content /\ c.key = l
    BY <1>0, <2>2 DEF TypeOK, Content
  <2>4. n.slot = SlotOf[k.path] /\ n.repo = k.repo
    BY DEF Name
  <2>5. strayed \subseteq strayed' /\ Fits(c, n, strayed')
    BY <2>1, <2>2, <2>3, <2>4 DEF Fits
  <2> HIDE DEF c, l
  <2>6. r.got = c
    BY <1>0 DEF Reader
  <2>7. /\ reader'[t] = r /\ \A u \in Threads : u # t => reader'[u] = reader[u]
        /\ r.key = k /\ r.at = "open"
    BY <1>0, <2>1, <2>3, GoesOn
  <2> HIDE DEF r
  <2>8. Fits(reader'[t].got, Name(reader[t].key), strayed')
    BY <2>5, <2>6, <2>7
  <2> QED
    BY <1>0, <2>5, <2>7, <2>8, ReaderKeepsPlace, ReaderKeepsHolds DEF Writing
<1>4. CASE FetchFails(t) \/ WriteFails(t)
  <2>1. PICK c \in Content \cup {None} : Return(t, c) /\ c \in {None, reader[t].got}
    BY <1>0, <1>4 DEF FetchFails, WriteFails, ReaderOK
  <2>2. /\ \A u \in Threads : u # t => reader'[u] = reader[u]
        /\ reader'[t].at = "done" /\ reader'[t].key = k /\ reader'[t].got = c
    BY <1>0, <2>1, ReturnMoves
  <2>3. UNCHANGED strayed
    BY <1>4 DEF FetchFails, WriteFails
  <2> QED
    BY <1>0, <2>1, <2>2, <2>3, ReaderKeepsPlace, ReaderKeepsHolds DEF Writing
<1> QED
  BY <1>1, <1>2, <1>3, <1>4

\* Opening the temporary file of a name: the one that is there, which another
\* call of that name may have open, or a new one.
LEMMA OpenKeepsOwn ==
  ASSUME Base, PlaceOK, HoldsOK, NEW t \in Threads, Open(t)
  PROVE  PlaceOK' /\ HoldsOK'
<1> DEFINE k == reader[t].key
           n == Name(k)
           r(i) == [reader[t] EXCEPT !.at = "write", !.fd = i]
<1>0. /\ TypeOK /\ ReaderOK /\ UNCHANGED <<file, strayed>> /\ reader[t].at = "open"
      /\ reader[t] \in Reader
  BY DEF Base, TypeOK, Open
<1>1. PICK i \in Inodes :
        /\ n \in Names
        /\ tmp[n] = i \/ (tmp[n] = None /\ i \in FreeInodes)
        /\ tmp' = [tmp EXCEPT ![n] = i]
        /\ data' = [data EXCEPT ![i] = Torn]
        /\ Step(t, r(i))
  BY <1>0, OpensAnInode
<1>2. /\ reader'[t] = r(i) /\ \A u \in Threads : u # t => reader'[u] = reader[u]
      /\ r(i).key = k /\ r(i).at = "write" /\ r(i).got = reader[t].got
  BY <1>0, <1>1, GoesOn
<1>3. r(i).fd = i
  BY <1>0 DEF Reader
<1>4. /\ tmp'[n] = i /\ data'[i] = Torn /\ i # None
      /\ \A m \in Names : m # n => tmp'[m] = tmp[m]
      /\ \A j \in Inodes : j # i => data'[j] = data[j]
  BY <1>0, <1>1, MarksAssumption DEF TypeOK
\* Whoever else has the inode works on this name.
<1>5. /\ \A m \in Names : file[m] = i \/ tmp[m] = i => m = n
      /\ \A u \in Threads : reader[u].at \in Writing /\ reader[u].fd = i
                            => Name(reader[u].key) = n
  <2>1. CASE tmp[n] = i
    BY <1>1, <1>4, <2>1 DEF PlaceOK
  <2>2. CASE i \in FreeInodes
    BY <2>2 DEF FreeInodes
  <2> QED
    BY <1>1, <2>1, <2>2
<1> HIDE DEF r, n
<1>6. \A u \in Threads : u # t /\ reader'[u].at \in Writing =>
        /\ \A m \in Names : file[m] = reader[u].fd \/ tmp'[m] = reader[u].fd
                             => m = Name(reader[u].key)
        /\ \A x \in Threads : reader'[x].at \in Writing /\ reader'[x].fd = reader[u].fd
                              => Name(reader'[x].key) = Name(reader[u].key)
  <2> SUFFICES ASSUME NEW u \in Threads, u # t, reader[u].at \in Writing
               PROVE  /\ \A m \in Names : file[m] = reader[u].fd \/ tmp'[m] = reader[u].fd
                                           => m = Name(reader[u].key)
                      /\ \A x \in Threads : reader'[x].at \in Writing /\ reader'[x].fd = reader[u].fd
                                            => Name(reader'[x].key) = Name(reader[u].key)
    BY <1>2
  <2>1. ASSUME NEW m \in Names, file[m] = reader[u].fd \/ tmp'[m] = reader[u].fd
        PROVE  m = Name(reader[u].key)
    BY <1>4, <1>5, <2>1 DEF PlaceOK
  <2>2. ASSUME NEW x \in Threads, reader'[x].at \in Writing, reader'[x].fd = reader[u].fd
        PROVE  Name(reader'[x].key) = Name(reader[u].key)
    <3>1. CASE x = t
      BY <1>2, <1>3, <1>5, <2>2, <3>1 DEF n
    <3>2. CASE x # t
      BY <1>2, <2>2, <3>2 DEF PlaceOK
    <3> QED
      BY <3>1, <3>2
  <2> QED
    BY <2>1, <2>2
<1>7. /\ \A m \in Names : file[m] = i \/ tmp'[m] = i => m = n
      /\ \A x \in Threads : reader'[x].at \in Writing /\ reader'[x].fd = i
                            => Name(reader'[x].key) = n
  BY <1>2, <1>4, <1>5 DEF n
<1>8. PlaceOK'
  <2>1. \A l, m \in Names :
          /\ file[l] # None /\ file[l] = file[m] => l = m
          /\ tmp'[l] # None /\ tmp'[l] = tmp'[m] => l = m
          /\ file[l] # None /\ file[l] = tmp'[m] => l = m
    BY <1>4, <1>5 DEF PlaceOK
  <2>2. ASSUME NEW u \in Threads, reader'[u].at \in Writing
        PROVE  /\ \A m \in Names : file[m] = reader'[u].fd \/ tmp'[m] = reader'[u].fd
                                    => m = Name(reader'[u].key)
               /\ \A x \in Threads : reader'[x].at \in Writing /\ reader'[x].fd = reader'[u].fd
                                     => Name(reader'[x].key) = Name(reader'[u].key)
    <3>1. CASE u = t
      BY <1>2, <1>3, <1>7, <3>1 DEF n
    <3>2. CASE u # t
      BY <1>2, <1>6, <2>2, <3>2
    <3> QED
      BY <3>1, <3>2
  <2> QED
    BY <1>0, <2>1, <2>2 DEF PlaceOK, Name
<1>9. HoldsOK'
  <2>1. ASSUME NEW u \in Threads, reader'[u].got # None
        PROVE  Belongs(reader'[u].got, Name(reader'[u].key))
    BY <1>2, <2>1 DEF HoldsOK
  <2>2. ASSUME NEW m \in Names
        PROVE  /\ file[m] # None => data'[file[m]] = Torn \/ Belongs(data'[file[m]], m)
               /\ tmp'[m] # None => data'[tmp'[m]] = Torn \/ Belongs(data'[tmp'[m]], m)
    <3>1. file[m] # None => file[m] \in Inodes
      BY <1>0 DEF TypeOK
    <3>2. tmp[m] # None => tmp[m] \in Inodes
      BY <1>0 DEF TypeOK
    <3>3. tmp'[m] = i \/ tmp'[m] = tmp[m]
      BY <1>4
    <3> QED
      BY <1>4, <3>1, <3>2, <3>3 DEF HoldsOK
  <2> QED
    BY <1>0, <2>1, <2>2 DEF HoldsOK, Belongs, Name
<1> QED
  BY <1>8, <1>9

\* A write changes what lies under the name of the call, or under none.
LEMMA WriteKeepsOwn ==
  ASSUME Base, PlaceOK, HoldsOK, NEW t \in Threads, Write(t)
  PROVE  PlaceOK' /\ HoldsOK'
<1> DEFINE i == reader[t].fd
           n == Name(reader[t].key)
           r == [reader[t] EXCEPT !.at = "replace"]
<1>0. /\ TypeOK /\ ReaderOK /\ reader[t].at = "write" /\ Step(t, r)
      /\ UNCHANGED <<file, tmp, strayed>>
  BY DEF Base, Write
<1>1. PICK d \in {reader[t].got, Torn} : data' = [data EXCEPT ![i] = d]
  BY DEF Write
<1>2. reader[t].got \in Content /\ i \in Inodes
  BY <1>0 DEF ReaderOK, Writing
<1>3. /\ reader'[t] = r /\ \A u \in Threads : u # t => reader'[u] = reader[u]
      /\ r.key = reader[t].key /\ r.at = "replace" /\ r.got = reader[t].got /\ r.fd = i
  BY <1>0, GoesOn
<1> HIDE DEF r
<1>4. \A u \in Threads : /\ reader'[u].key = reader[u].key
                         /\ reader'[u].at \in Writing <=> reader[u].at \in Writing
                         /\ reader'[u].fd = reader[u].fd
                         /\ reader'[u].got = reader[u].got
  BY <1>0, <1>3 DEF Writing
<1>5. PlaceOK'
  BY <1>0, <1>4 DEF PlaceOK, Name
<1>6. /\ data'[i] = d /\ (d = Torn \/ Belongs(d, n))
      /\ \A j \in Inodes : j # i => data'[j] = data[j]
  <2>1. Belongs(reader[t].got, n)
    BY <1>2, MarksAssumption DEF HoldsOK
  <2> QED
    BY <1>0, <1>1, <1>2, <2>1 DEF TypeOK
<1>7. \A m \in Names : file[m] = i \/ tmp[m] = i => m = n
  BY <1>0 DEF PlaceOK, Writing
<1>8. HoldsOK'
  <2>1. ASSUME NEW m \in Names
        PROVE  /\ file[m] # None => data'[file[m]] = Torn \/ Belongs(data'[file[m]], m)
               /\ tmp[m] # None => data'[tmp[m]] = Torn \/ Belongs(data'[tmp[m]], m)
    <3>1. /\ file[m] # None => file[m] \in Inodes
          /\ tmp[m] # None => tmp[m] \in Inodes
      BY <1>0 DEF TypeOK
    <3> HIDE DEF i, n
    <3> QED
      BY <1>6, <1>7, <3>1 DEF HoldsOK
  <2>2. \A u \in Threads : reader'[u].got # None
                           => Belongs(reader'[u].got, Name(reader'[u].key))
    BY <1>4 DEF HoldsOK
  <2> QED
    BY <1>0, <2>1, <2>2 DEF HoldsOK, Belongs, Name
<1> QED
  BY <1>5, <1>8

\* os.replace moves what lies under the temporary name, whoever has put it
\* there.
LEMMA ReplaceKeepsOwn ==
  ASSUME Base, PlaceOK, HoldsOK, NEW t \in Threads, Replace(t)
  PROVE  PlaceOK' /\ HoldsOK'
<1> DEFINE n == Name(reader[t].key)
<1>0. /\ TypeOK /\ ReaderOK /\ reader[t].at = "replace" /\ Return(t, reader[t].got)
      /\ UNCHANGED <<data, strayed>>
      /\ file' = IF tmp[n] = None THEN file ELSE [file EXCEPT ![n] = tmp[n]]
      /\ tmp' = [tmp EXCEPT ![n] = None]
  BY DEF Base, Replace
<1>1. n \in Names /\ reader[t].got \in Content /\ reader[t].key \in Keys
  BY <1>0, SlotAssumption DEF ReaderOK, Name, Names, Keys
<1>2. /\ \A u \in Threads : u # t => reader'[u] = reader[u]
      /\ reader'[t].at = "done" /\ reader'[t].key = reader[t].key
      /\ reader'[t].got = reader[t].got
  BY <1>0, <1>1, ReturnMoves
<1> HIDE DEF n
<1>3. /\ \A m \in Names : m # n => file'[m] = file[m] /\ tmp'[m] = tmp[m]
      /\ tmp'[n] = None
      /\ \/ file'[n] = file[n]
         \/ file'[n] = tmp[n] /\ tmp[n] # None
  BY <1>0, <1>1 DEF TypeOK
<1>4. \A l, m \in Names :
        /\ file'[l] # None /\ file'[l] = file'[m] => l = m
        /\ tmp'[l] # None /\ tmp'[l] = tmp'[m] => l = m
        /\ file'[l] # None /\ file'[l] = tmp'[m] => l = m
  BY <1>1, <1>3 DEF PlaceOK
<1>5. ASSUME NEW u \in Threads, reader'[u].at \in Writing
      PROVE  /\ \A m \in Names : file'[m] = reader'[u].fd \/ tmp'[m] = reader'[u].fd
                                  => m = Name(reader'[u].key)
             /\ \A x \in Threads : reader'[x].at \in Writing /\ reader'[x].fd = reader'[u].fd
                                   => Name(reader'[x].key) = Name(reader'[u].key)
  <2>1. u # t /\ reader'[u] = reader[u] /\ reader[u].fd # None
    BY <1>0, <1>2, <1>5, MarksAssumption DEF Writing, ReaderOK
  <2>2. \A m \in Names : file'[m] = reader[u].fd \/ tmp'[m] = reader[u].fd
                          => file[m] = reader[u].fd \/ tmp[m] = reader[u].fd
    BY <1>3, <2>1
  <2>3. \A x \in Threads : reader'[x].at \in Writing => reader'[x] = reader[x]
    BY <1>2 DEF Writing
  <2> QED
    BY <1>5, <2>1, <2>2, <2>3 DEF PlaceOK
<1>6. PlaceOK'
  BY <1>4, <1>5 DEF PlaceOK, Name
<1>7. HoldsOK'
  <2>1. ASSUME NEW u \in Threads, reader'[u].got # None
        PROVE  Belongs(reader'[u].got, Name(reader'[u].key))
    BY <1>2, <2>1 DEF HoldsOK
  <2>2. ASSUME NEW m \in Names
        PROVE  /\ file'[m] # None => data[file'[m]] = Torn \/ Belongs(data[file'[m]], m)
               /\ tmp'[m] # None => data[tmp'[m]] = Torn \/ Belongs(data[tmp'[m]], m)
    BY <1>3 DEF HoldsOK
  <2> QED
    BY <1>0, <2>1, <2>2 DEF HoldsOK, Belongs, Name
<1> QED
  BY <1>6, <1>7

LEMMA NextOwn ==
  ASSUME Base, PlaceOK, HoldsOK, [Next]_vars
  PROVE  PlaceOK' /\ HoldsOK'
<1>0. TypeOK /\ ReaderOK
  BY DEF Base
\* Names go, and nothing else changes.
<1>1. ASSUME UNCHANGED <<data, reader, strayed>>,
             \A n \in Names : file'[n] \in {None, file[n]} /\ tmp'[n] \in {None, tmp[n]}
      PROVE  PlaceOK' /\ HoldsOK'
  <2>1. ASSUME NEW u \in Threads, reader[u].at \in Writing
        PROVE  reader[u].fd # None
    BY <1>0, <2>1, MarksAssumption DEF ReaderOK
  <2>2. PlaceOK'
    BY <1>1, <2>1 DEF PlaceOK, Name
  <2>3. HoldsOK'
    BY <1>1 DEF HoldsOK, Belongs, Name
  <2> QED
    BY <2>2, <2>3
<1>2. ASSUME UNCHANGED <<file, tmp, data, reader, strayed>> PROVE PlaceOK' /\ HoldsOK'
  BY <1>1, <1>2
<1>3. ASSUME NEW k \in Keys, Push(k) PROVE PlaceOK' /\ HoldsOK'
  BY <1>2, <1>3 DEF Push
<1>4. ASSUME NEW r \in Repos, SetRepo(r) PROVE PlaceOK' /\ HoldsOK'
  BY <1>2, <1>4 DEF SetRepo
<1>5. ASSUME NEW r \in Repos, Clear(r) PROVE PlaceOK' /\ HoldsOK'
  BY <1>1, <1>5 DEF Clear
<1>6. CASE Crash
  <2>1. /\ IdleReader.at = "idle" /\ IdleReader.got = None
    BY DEF IdleReader
  <2>2. \A t \in Threads : reader'[t].at = "idle" /\ reader'[t].got = None
    BY <1>6, <2>1 DEF Crash
  <2>3. UNCHANGED <<file, tmp, data, strayed>>
    BY <1>6 DEF Crash
  <2> QED
    BY <2>2, <2>3 DEF PlaceOK, HoldsOK, Belongs, Name, Writing
<1>7. CASE DiffInvalidate
  BY <1>2, <1>7 DEF DiffInvalidate
<1>8. ASSUME NEW n \in Names, Unlink(n) \/ UnlinkTmp(n) PROVE PlaceOK' /\ HoldsOK'
  <2>1. \A m \in Names : file'[m] \in {None, file[m]} /\ tmp'[m] \in {None, tmp[m]}
    BY <1>0, <1>8 DEF Unlink, UnlinkTmp, TypeOK
  <2>2. UNCHANGED <<data, reader, strayed>>
    BY <1>8 DEF Unlink, UnlinkTmp
  <2> QED
    BY <1>1, <2>1, <2>2
<1>9. ASSUME NEW t \in Threads, NEW p \in Paths, Start(t, p) PROVE PlaceOK' /\ HoldsOK'
  <2>1. UNCHANGED <<file, tmp, data, strayed>>
    BY <1>9 DEF Start
  <2>2. /\ \A u \in Threads : u # t => reader'[u] = reader[u]
        /\ reader'[t].at = "get" /\ reader'[t].got = None
    BY <1>0, <1>9, StartMoves
  <2>3. PlaceOK'
    BY <2>1, <2>2, ReaderKeepsPlace DEF Writing
  <2>4. HoldsOK'
    BY <2>1, <2>2 DEF HoldsOK, Belongs, Name
  <2> QED
    BY <2>3, <2>4
<1>10. ASSUME NEW t \in Threads, Read(t) PROVE PlaceOK' /\ HoldsOK'
  BY <1>10, AnswersKeepOwn, OpenKeepsOwn, WriteKeepsOwn, ReplaceKeepsOwn DEF Read
<1>11. CASE UNCHANGED vars
  BY <1>2, <1>11 DEF vars
<1> QED
  BY <1>3, <1>4, <1>5, <1>6, <1>7, <1>8, <1>9, <1>10, <1>11 DEF Next

\* A read answers what was fetched for the slot it was asked for, and for the
\* repository it was asked for unless a switch has come between some call of
\* that name and its fetch, whoever shares the slot, switches, evicts, clears
\* or dies meanwhile.
THEOREM OwnAnswers == Spec => []AnswersBelong
<1>1. Init => Base /\ PlaceOK /\ HoldsOK
  <2>1. Init => PlaceOK /\ HoldsOK
    BY DEF Init, PlaceOK, HoldsOK, IdleReader, Writing
  <2> QED
    BY <2>1, InitBase
<1>2. Base /\ PlaceOK /\ HoldsOK /\ [Next]_vars => (Base /\ PlaceOK /\ HoldsOK)'
  BY NextBase, NextOwn
<1>3. Base /\ PlaceOK /\ HoldsOK => AnswersBelong
  BY DEF HoldsOK, AnswersBelong
<1> QED
  BY <1>1, <1>2, <1>3, PTL DEF Spec
=============================================================================
