--------------------------- MODULE SeqLockProofs ----------------------------
(***************************************************************************)
(* The sequence lock is an atomic register, for any type, any number of    *)
(* readers and any number of writes.                                       *)
(***************************************************************************)
EXTENDS SeqLock, TLAPS

(* The two increments of a write toggle the parity of the version. *)
LEMMA Parity == ASSUME NEW v \in Nat PROVE Odd(v + 1) <=> ~Odd(v)
  BY DEF Odd

LEMMA InitInv == Init => Inv
  BY InitialAssumption
  DEF Init, Inv, TypeOK, DataCommitted, CopiesCurrent, Odd

(***************************************************************************)
(* The writer.  Its first increment makes the version differ from every    *)
(* version a reader may hold, so that the stores in between can disturb no *)
(* copy that will be believed.                                             *)
(***************************************************************************)
LEMMA BeginWriteInv ==
  ASSUME Inv, NEW ws \in SUBSET Words, NEW val \in [Words -> Values],
         BeginWrite(ws, val)
  PROVE  Inv'
<1>1. Odd(version + 1)
  BY Parity DEF Inv, TypeOK, BeginWrite
<1>2. TypeOK'
  BY <1>1 DEF Inv, TypeOK, BeginWrite, rvars
<1>3. DataCommitted'
  BY DEF Inv, BeginWrite, DataCommitted
<1>4. CopiesCurrent'
  BY DEF Inv, TypeOK, BeginWrite, CopiesCurrent, rvars
<1> QED
  BY <1>2, <1>3, <1>4 DEF Inv

LEMMA StoreWordInv ==
  ASSUME Inv, NEW w \in Words, StoreWord(w)
  PROVE  Inv'
<1>1. TypeOK'
  BY DEF Inv, TypeOK, StoreWord, rvars
<1>2. DataCommitted'
  BY DEF Inv, StoreWord, DataCommitted
<1>3. ASSUME NEW r \in Readers, rpc[r] = "copy"
      PROVE  rv1[r] # version
  BY <1>3 DEF Inv, TypeOK, CopiesCurrent, StoreWord
<1>4. CopiesCurrent'
  BY <1>3 DEF Inv, StoreWord, CopiesCurrent, rvars
<1> QED
  BY <1>1, <1>2, <1>4 DEF Inv

LEMMA EndWriteInv ==
  ASSUME Inv, EndWrite
  PROVE  Inv'
<1>1. ~Odd(version + 1)
  BY Parity DEF Inv, TypeOK, EndWrite
<1>2. TypeOK'
  BY <1>1 DEF Inv, TypeOK, EndWrite, rvars
<1>3. DataCommitted'
  BY DEF EndWrite, DataCommitted
<1>4. CopiesCurrent'
  BY DEF Inv, TypeOK, EndWrite, CopiesCurrent, rvars
<1> QED
  BY <1>2, <1>3, <1>4 DEF Inv

(***************************************************************************)
(* A reader                                                                *)
(***************************************************************************)
LEMMA BeginReadInv ==
  ASSUME Inv, NEW r \in Readers, NEW ws \in SUBSET Words, NEW spin \in BOOLEAN,
         BeginRead(r, ws, spin)
  PROVE  Inv'
<1>1. TypeOK'
  BY DEF Inv, TypeOK, BeginRead, lock, wvars
<1>2. DataCommitted'
  BY DEF Inv, BeginRead, DataCommitted, lock, wvars
<1>3. CopiesCurrent'
  BY DEF Inv, TypeOK, BeginRead, CopiesCurrent, lock
<1> QED
  BY <1>1, <1>2, <1>3 DEF Inv

LEMMA LoadVersionInv ==
  ASSUME Inv, NEW r \in Readers, LoadVersion(r)
  PROVE  Inv'
<1>1. TypeOK'
  BY DEF Inv, TypeOK, LoadVersion, Interrupted, lock, wvars
<1>2. DataCommitted'
  BY DEF Inv, LoadVersion, DataCommitted, lock, wvars
<1>3. ASSUME Odd(version) PROVE CopiesCurrent'
  <2>1. rpc'[r] # "copy" /\ \A s \in Readers \ {r} : rpc'[s] = rpc[s]
    BY <1>3 DEF Inv, TypeOK, LoadVersion, Interrupted
  <2>2. UNCHANGED <<version, data, rwords, rv1, rcopied, rcopy>>
    BY <1>3 DEF LoadVersion, lock
  <2> QED
    BY <2>1, <2>2 DEF Inv, CopiesCurrent
<1>4. ASSUME ~Odd(version) PROVE CopiesCurrent'
  <2>1. /\ rv1' = [rv1 EXCEPT ![r] = version]
        /\ rcopied' = [rcopied EXCEPT ![r] = {}]
        /\ rpc' = [rpc EXCEPT ![r] = "copy"]
        /\ UNCHANGED <<version, data, rwords, rcopy>>
    BY <1>4 DEF LoadVersion, lock
  <2> QED
    BY <1>4, <2>1 DEF Inv, TypeOK, CopiesCurrent
<1>5. CopiesCurrent'
  BY <1>3, <1>4
<1> QED
  BY <1>1, <1>2, <1>5 DEF Inv

LEMMA CopyWordInv ==
  ASSUME Inv, NEW r \in Readers, NEW w \in Words, CopyWord(r, w)
  PROVE  Inv'
<1>1. TypeOK'
  BY DEF Inv, TypeOK, CopyWord, lock, wvars
<1>2. DataCommitted'
  BY DEF Inv, CopyWord, DataCommitted, lock, wvars
<1>3. CopiesCurrent'
  BY DEF Inv, TypeOK, CopyWord, CopiesCurrent, lock
<1> QED
  BY <1>1, <1>2, <1>3 DEF Inv

LEMMA CheckVersionInv ==
  ASSUME Inv, NEW r \in Readers, CheckVersion(r)
  PROVE  Inv'
<1>1. TypeOK'
  BY DEF Inv, TypeOK, CheckVersion, Interrupted, lock, wvars
<1>2. DataCommitted'
  BY DEF Inv, CheckVersion, DataCommitted, lock, wvars
<1>3. CopiesCurrent'
  BY DEF Inv, TypeOK, CheckVersion, Interrupted, CopiesCurrent, lock
<1> QED
  BY <1>1, <1>2, <1>3 DEF Inv

(* Inv holds in every reachable state. *)
THEOREM Invariance == Spec => []Inv
<1>1. Inv /\ [Next]_vars => Inv'
  <2> SUFFICES ASSUME Inv, [Next]_vars PROVE Inv'
    OBVIOUS
  <2>1. CASE Next
    BY <2>1, BeginWriteInv, StoreWordInv, EndWriteInv, BeginReadInv,
       LoadVersionInv, CopyWordInv, CheckVersionInv
    DEF Next, WriterStep, ReaderStep
  <2>2. CASE UNCHANGED vars
    BY <2>2 DEF vars, lock, wvars, rvars, Inv, TypeOK, DataCommitted, CopiesCurrent
  <2> QED
    BY <2>1, <2>2
<1> QED
  BY <1>1, InitInv, PTL DEF Spec

(* The version is odd exactly between the two increments of a write, and   *)
(* every variable of the lock, of its writer and of its readers keeps its  *)
(* type.                                                                   *)
THEOREM TypeCorrect == Spec => []TypeOK
<1>1. Inv => TypeOK
  BY DEF Inv
<1> QED
  BY <1>1, Invariance, PTL

(***************************************************************************)
(* Refinement                                                              *)
(***************************************************************************)

(* When v2 equals v1 no write is in progress, so that the copy is the      *)
(* register's value at that moment.                                        *)
LEMMA CopyIsValue ==
  ASSUME Inv, NEW r \in Readers, CheckVersion(r), version = rv1[r]
  PROVE  \A w \in rwords[r] : rcopy[r][w] = committed[w]
<1>1. wpc = "idle"
  BY DEF Inv, TypeOK, CopiesCurrent, CheckVersion
<1> QED
  BY <1>1 DEF Inv, TypeOK, DataCommitted, CopiesCurrent, CheckVersion

(* try_read, read, try_read_with and read_with return what the register    *)
(* held at one moment of the call, however the stores of write and update  *)
(* and the loads of the copy interleave.                                   *)
THEOREM AtomicReads == Spec => ReadsAreAtomic
<1>1. Init => Reg!Init
  BY DEF Init, Reg!Init, Reg!Nothing
<1>2. Inv /\ [Next]_vars => [Reg!Next]_<<committed, got>>
  <2> SUFFICES ASSUME Inv, [Next]_vars
               PROVE  Reg!Next \/ UNCHANGED <<committed, got>>
    OBVIOUS
  <2>1. CASE EndWrite
    BY <2>1 DEF EndWrite, Inv, TypeOK, Reg!Next, Reg!Write
  <2>2. ASSUME NEW r \in Readers, CheckVersion(r)
        PROVE  Reg!Next \/ UNCHANGED <<committed, got>>
    <3>1. CASE version = rv1[r]
      <4>1. got' = [got EXCEPT ![r] = [w \in rwords[r] |-> rcopy[r][w]]]
        BY <2>2, <3>1 DEF CheckVersion
      <4>2. [w \in rwords[r] |-> rcopy[r][w]] = [w \in rwords[r] |-> committed[w]]
        BY <2>2, <3>1, CopyIsValue
      <4>3. rwords[r] \in SUBSET Words
        BY DEF Inv, TypeOK
      <4>4. Reg!Read(r)
        BY <2>2, <4>1, <4>2, <4>3 DEF Reg!Read, CheckVersion
      <4> QED
        BY <4>4 DEF Reg!Next
    <3>2. CASE version # rv1[r]
      BY <2>2, <3>2 DEF CheckVersion
    <3> QED
      BY <3>1, <3>2
  <2>3. CASE UNCHANGED vars
    BY <2>3 DEF vars
  <2>4. ASSUME NEW w \in Words, StoreWord(w) PROVE UNCHANGED <<committed, got>>
    BY <2>4 DEF StoreWord
  <2>5. ASSUME NEW ws \in SUBSET Words, NEW val \in [Words -> Values],
               BeginWrite(ws, val)
        PROVE  UNCHANGED <<committed, got>>
    BY <2>5 DEF BeginWrite
  <2>6. ASSUME NEW r \in Readers, LoadVersion(r) PROVE UNCHANGED <<committed, got>>
    BY <2>6 DEF LoadVersion
  <2>7. ASSUME NEW r \in Readers, NEW w \in Words, CopyWord(r, w)
        PROVE  UNCHANGED <<committed, got>>
    BY <2>7 DEF CopyWord
  <2>8. ASSUME NEW r \in Readers, NEW ws \in SUBSET Words, NEW spin \in BOOLEAN,
               BeginRead(r, ws, spin)
        PROVE  UNCHANGED <<committed, got>>
    BY <2>8 DEF BeginRead
  <2> QED
    BY <2>1, <2>2, <2>3, <2>4, <2>5, <2>6, <2>7, <2>8
    DEF Next, WriterStep, ReaderStep
<1> QED
  BY <1>1, <1>2, Invariance, PTL DEF Spec, ReadsAreAtomic, Reg!Spec
=============================================================================
