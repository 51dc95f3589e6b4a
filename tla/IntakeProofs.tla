---------------------------- MODULE IntakeProofs ----------------------------
(***************************************************************************)
(* What taking an item into the vault guarantees for any workers, intakes   *)
(* and limits.  Two facts carry the rest: a row with the version a request  *)
(* read is the row it read, so that a save never undoes another's; and only *)
(* the holder of the vault's row lock inserts receipts, so that what it     *)
(* found missing stays missing until it inserts it.                         *)
(***************************************************************************)
EXTENDS Intake, SumProofs

Writing == {"attach_photo", "update", "seal"}

HashIfSealed(record) == IsSealed(record) => record.sealedHash \in Hash

(* The version a request read tells whether the row has changed since.      *)
KnowsItsRow(job) ==
    /\ job.intake \in DOMAIN intakes
    /\ job.record.version <= intakes[job.intake].version
    /\ job.record.version = intakes[job.intake].version => job.record = intakes[job.intake]

(* What is to be written only adds to the evidence of a draft.               *)
WritesADraft(job) ==
    job.operation \in Writing =>
        /\ ~IsSealed(job.record)
        /\ job.record.version < MaxVersion
        /\ job.record.evidence \subseteq job.written.evidence

HasAppraisal(job) ==
    job.operation = "appraise" \/ (job.operation = "issue" /\ job.next # "list") =>
        job.appraisal \in Appraisal

(* A request past the lock holds the vault, and before it inserts a receipt  *)
(* there is none.                                                           *)
IssuesOnce(w) ==
    jobs[w].operation = "issue" =>
        /\ IsSealed(jobs[w].record)
        /\ jobs[w].next \in {"check", "write"} => vaultLock = w
        /\ jobs[w].next = "write" => ~Indexed(jobs[w].record.sealedHash)

JobInOrder(w) ==
    /\ KnowsItsRow(jobs[w]) /\ WritesADraft(jobs[w]) /\ HasAppraisal(jobs[w])
    /\ HashIfSealed(jobs[w].record) /\ HashIfSealed(jobs[w].written)
    /\ IssuesOnce(w)

IInv == /\ IntakeTypeOK
        /\ \A w \in DOMAIN jobs : JobInOrder(w)
        /\ \A i \in DOMAIN intakes : HashIfSealed(intakes[i])
        /\ \A i \in Intakes \ DOMAIN intakes : attached[i] = {}
        /\ AttachedIsKept
        /\ RepeatsReplay

-----------------------------------------------------------------------------
(* Appraisals are numbered, so of some there is a last.                     *)
LEMMA LastAppraisal ==
    ASSUME NEW S \in SUBSET Appraisal, S # {}
    PROVE  \E a \in S : \A b \in S : b.id <= a.id
  <1> DEFINE Below == {pair \in Nat \X Nat : pair[1] < pair[2]}
             Left == {MaxAppraisals - a.id : a \in S}
  <1>1. IsWellFoundedOn(Below, Nat)
    BY NatLessThanWellFounded DEF OpToRel
  <1>2. \A x, y \in Nat : y < x => <<y, x>> \in Below
    OBVIOUS
  <1>3. MaxAppraisals \in Nat /\ \A a \in S : a.id \in 1..MaxAppraisals
    BY IntakeAssumption DEF Appraisal
  <1>4. Left \subseteq Nat /\ Left # {}
    BY <1>3
  <1>5. PICK a \in S : \A b \in S :
           ~ (<<MaxAppraisals - b.id, MaxAppraisals - a.id>> \in Below)
    <2> HIDE DEF Below
    <2>1. PICK x \in Left : \A y \in Left : ~ (<<y, x>> \in Below)
      <3> HIDE DEF Left
      <3> QED
        BY <1>1, <1>4, WFMin
    <2> QED
      BY <2>1
  <1>6. ASSUME NEW b \in S PROVE b.id <= a.id
    <2>1. MaxAppraisals - b.id \in Nat /\ MaxAppraisals - a.id \in Nat
      BY <1>3
    <2>2. ~ (MaxAppraisals - b.id < MaxAppraisals - a.id)
      BY <1>2, <1>5, <2>1
    <2> QED
      BY <1>3, <2>2
  <1> QED
    BY <1>6

-----------------------------------------------------------------------------
LEMMA StartsTrue == Init => IInv
  BY IntakeAssumption DEF Init, IInv, IntakeTypeOK, AttachedIsKept, RepeatsReplay

LEMMA BeginIntakeKeeps ==
    ASSUME IInv, NEW i \in Intakes, BeginIntake(i)
    PROVE  IInv'
  <1> USE IntakeAssumption DEF IInv, BeginIntake
  <1>1. Fresh \in IntakeRecord /\ ~IsSealed(Fresh) /\ Fresh.evidence = {}
    BY DEF Fresh, IntakeRecord, IsSealed
  <1>2. /\ DOMAIN intakes' = DOMAIN intakes \cup {i}
        /\ \A j \in DOMAIN intakes : intakes'[j] = intakes[j]
        /\ intakes'[i] = Fresh
        /\ intakes' = [j \in DOMAIN intakes' |-> intakes'[j]]
    OBVIOUS
  <1> HIDE DEF Fresh
  <1>3. IntakeTypeOK'
    BY <1>1, <1>2 DEF IntakeTypeOK
  <1>4. \A w \in DOMAIN jobs' : JobInOrder(w)'
    BY <1>2 DEF JobInOrder, KnowsItsRow, WritesADraft, HasAppraisal, HashIfSealed, IsSealed,
                IssuesOnce, Indexed
  <1>5. (\A j \in DOMAIN intakes : HashIfSealed(intakes[j]))'
    BY <1>1, <1>2 DEF HashIfSealed
  <1>6. (\A j \in Intakes \ DOMAIN intakes : attached[j] = {})'
    BY <1>2
  <1>7. AttachedIsKept'
    BY <1>1, <1>2 DEF AttachedIsKept
  <1> QED
    BY <1>3, <1>4, <1>5, <1>6, <1>7 DEF RepeatsReplay

(* A request that begins knows its row, whatever it is for.                 *)
LEMMA StartKeeps ==
    ASSUME IInv, NEW w \in Workers, NEW i \in DOMAIN intakes,
           NEW operation \in Operations, NEW step \in {"list", "write"},
           NEW written \in IntakeRecord, NEW appraisal \in Appraisal \cup {None},
           Start(w, operation, i, step, written, appraisal),
           UNCHANGED <<intakes, appraisals, receipts, vaultLock, attached, clashes>>,
           lastId' \in 0..MaxAppraisals,
           operation \in Writing => /\ ~IsSealed(intakes[i])
                                    /\ intakes[i].version < MaxVersion
                                    /\ intakes[i].evidence \subseteq written.evidence,
           operation = "appraise" => appraisal \in Appraisal,
           operation = "issue" => IsSealed(intakes[i]) /\ step = "list",
           HashIfSealed(written)
    PROVE  IInv'
  <1> USE IntakeAssumption DEF IInv
  <1>1. i \in Intakes /\ intakes[i] \in IntakeRecord
    BY DEF IntakeTypeOK
  <1> DEFINE job == [operation |-> operation, next |-> step, intake |-> i,
                     record |-> intakes[i], written |-> written, appraisal |-> appraisal]
  <1>2. job \in Job
    BY <1>1 DEF Job
  <1>3. /\ DOMAIN jobs' = DOMAIN jobs \cup {w}
        /\ w \notin DOMAIN jobs
        /\ jobs'[w] = job
        /\ \A v \in DOMAIN jobs : jobs'[v] = jobs[v]
        /\ jobs' = [v \in DOMAIN jobs' |-> jobs'[v]]
    BY DEF Start, Idle
  <1>4. IntakeTypeOK'
    <2> HIDE DEF job
    <2> QED
      BY <1>2, <1>3 DEF IntakeTypeOK
  <1>5. ASSUME NEW v \in DOMAIN jobs PROVE JobInOrder(v)'
    BY <1>3 DEF JobInOrder, KnowsItsRow, WritesADraft, HasAppraisal, HashIfSealed, IsSealed,
                IssuesOnce, Indexed
  <1>6. JobInOrder(w)'
    <2>1. KnowsItsRow(jobs[w])'
      BY <1>1, <1>3 DEF KnowsItsRow, IntakeRecord
    <2>2. WritesADraft(jobs[w])'
      BY <1>3 DEF WritesADraft, IsSealed
    <2>3. HasAppraisal(jobs[w])'
      BY <1>3 DEF HasAppraisal
    <2>4. HashIfSealed(jobs[w].record)' /\ HashIfSealed(jobs[w].written)'
      BY <1>3 DEF HashIfSealed, IsSealed
    <2>5. IssuesOnce(w)'
      BY <1>3 DEF IssuesOnce, IsSealed
    <2> QED
      BY <2>1, <2>2, <2>3, <2>4, <2>5 DEF JobInOrder
  <1> QED
    BY <1>3, <1>4, <1>5, <1>6 DEF AttachedIsKept, RepeatsReplay, HashIfSealed, IsSealed

LEMMA ReadKeeps ==
    ASSUME IInv, NEW w \in Workers, NEW i \in Intakes, Read(w, i)
    PROVE  IInv'
  <1> USE IntakeAssumption
  <1>1. i \in DOMAIN intakes
    BY DEF Read, Writable
  <1>2. intakes[i] \in IntakeRecord /\ HashIfSealed(intakes[i]) /\ lastId \in 0..MaxAppraisals
    BY <1>1 DEF IInv, IntakeTypeOK
  <1>3. ASSUME Writable(i), NEW photo \in Photos, ReadToAttach(w, i, photo) PROVE IInv'
    <2> DEFINE written == [intakes[i] EXCEPT !.evidence = @ \cup {photo}]
    <2>1. /\ written \in IntakeRecord /\ HashIfSealed(written)
          /\ intakes[i].evidence \subseteq written.evidence
      BY <1>2, <1>3 DEF IntakeRecord, HashIfSealed, IsSealed
    <2>2. /\ ~IsSealed(intakes[i]) /\ intakes[i].version < MaxVersion
          /\ Start(w, "attach_photo", i, "write", written, None)
          /\ UNCHANGED <<intakes, appraisals, receipts, vaultLock, lastId, attached, clashes>>
      BY <1>3 DEF ReadToAttach, Writable
    <2> HIDE DEF written
    <2> QED
      BY <1>1, <1>2, <2>1, <2>2, StartKeeps DEF Operations, Writing
  <1>4. ASSUME Writable(i), NEW sealNumber \in Seals, ReadToUpdate(w, i, sealNumber) PROVE IInv'
    <2> DEFINE written == [intakes[i] EXCEPT !.sealNumber = sealNumber]
    <2>1. /\ written \in IntakeRecord /\ HashIfSealed(written)
          /\ intakes[i].evidence \subseteq written.evidence
      BY <1>2, <1>4 DEF IntakeRecord, HashIfSealed, IsSealed
    <2>2. /\ ~IsSealed(intakes[i]) /\ intakes[i].version < MaxVersion
          /\ Start(w, "update", i, "write", written, None)
          /\ UNCHANGED <<intakes, appraisals, receipts, vaultLock, lastId, attached, clashes>>
      BY <1>4 DEF ReadToUpdate, Writable
    <2> HIDE DEF written
    <2> QED
      BY <1>1, <1>2, <2>1, <2>2, StartKeeps DEF Operations, Writing
  <1>5. ASSUME Writable(i), ReadToSeal(w, i) PROVE IInv'
    <2> DEFINE hash == [intake |-> i, evidence |-> intakes[i].evidence,
                        sealNumber |-> intakes[i].sealNumber]
               written == [intakes[i] EXCEPT !.status = "SEALED", !.sealedHash = hash]
    <2>1. hash \in Hash
      BY <1>2, <1>5 DEF Hash, IntakeRecord, ReadToSeal
    <2>2. /\ ~IsSealed(intakes[i]) /\ intakes[i].version < MaxVersion
          /\ Start(w, "seal", i, "list", written, None)
          /\ UNCHANGED <<intakes, appraisals, receipts, vaultLock, lastId, attached, clashes>>
      BY <1>5 DEF ReadToSeal, Writable
    <2> HIDE DEF hash
    <2>3. /\ written \in IntakeRecord /\ HashIfSealed(written)
          /\ intakes[i].evidence \subseteq written.evidence
      BY <1>2, <2>1 DEF IntakeRecord, HashIfSealed, IsSealed
    <2> HIDE DEF written
    <2> QED
      BY <1>1, <1>2, <2>2, <2>3, StartKeeps DEF Operations, Writing
  <1>6. ASSUME NEW appraiser \in Appraisers, NEW value \in Values,
               ReadToAppraise(w, i, appraiser, value)
        PROVE  IInv'
    <2> DEFINE appraisal == [id |-> lastId', intake |-> i, appraiser |-> appraiser, value |-> value]
    <2>1. lastId' \in 1..MaxAppraisals
      BY <1>2, <1>6 DEF ReadToAppraise
    <2>2. appraisal \in Appraisal
      BY <2>1 DEF Appraisal
    <2>3. /\ Start(w, "appraise", i, "write", intakes[i], appraisal)
          /\ UNCHANGED <<intakes, appraisals, receipts, vaultLock, attached, clashes>>
      BY <1>6 DEF ReadToAppraise
    <2> HIDE DEF appraisal
    <2> QED
      BY <1>1, <1>2, <2>1, <2>2, <2>3, StartKeeps DEF Operations, Writing
  <1>7. ASSUME ReadToIssue(w, i) PROVE IInv'
    <2>1. /\ IsSealed(intakes[i])
          /\ Start(w, "issue", i, "list", intakes[i], None)
          /\ UNCHANGED <<intakes, appraisals, receipts, vaultLock, lastId, attached, clashes>>
      BY <1>7 DEF ReadToIssue
    <2> QED
      BY <1>1, <1>2, <2>1, StartKeeps DEF Operations, Writing
  <1> QED
    BY <1>3, <1>4, <1>5, <1>6, <1>7 DEF Read

-----------------------------------------------------------------------------
LEMMA FinishFacts ==
    ASSUME IntakeTypeOK, NEW w \in DOMAIN jobs, Finish(w)
    PROVE  /\ DOMAIN jobs' = DOMAIN jobs \ {w}
           /\ \A v \in DOMAIN jobs \ {w} : jobs'[v] = jobs[v]
           /\ jobs' \in [DOMAIN jobs' -> Job]
           /\ vaultLock' \in DOMAIN jobs' \cup {None}
           /\ \A v \in DOMAIN jobs \ {w} : vaultLock = v => vaultLock' = v
  BY IntakeAssumption DEF Finish, IntakeTypeOK

LEMMA ContinueFacts ==
    ASSUME IntakeTypeOK, NEW w \in DOMAIN jobs, NEW step \in {"list", "lock", "check", "write"},
           Continue(w, step)
    PROVE  /\ DOMAIN jobs' = DOMAIN jobs
           /\ jobs' \in [DOMAIN jobs -> Job]
           /\ \A v \in DOMAIN jobs \ {w} : jobs'[v] = jobs[v]
           /\ jobs'[w].next = step
           /\ jobs'[w].operation = jobs[w].operation /\ jobs'[w].intake = jobs[w].intake
           /\ jobs'[w].record = jobs[w].record /\ jobs'[w].written = jobs[w].written
           /\ jobs'[w].appraisal = jobs[w].appraisal
  BY DEF Continue, IntakeTypeOK, Job

(* A request that ends and writes nothing leaves the others as they were.    *)
LEMMA FinishKeeps ==
    ASSUME IInv, NEW w \in DOMAIN jobs, Finish(w), appraisals' \subseteq Appraisal,
           UNCHANGED <<intakes, receipts, lastId, attached, clashes>>
    PROVE  IInv'
  <1> USE IntakeAssumption DEF IInv
  <1>1. IntakeTypeOK'
    BY FinishFacts DEF IntakeTypeOK
  <1>2. ASSUME NEW v \in DOMAIN jobs' PROVE JobInOrder(v)'
    <2>1. /\ v \in DOMAIN jobs /\ jobs'[v] = jobs[v]
          /\ vaultLock = v => vaultLock' = v
      BY FinishFacts
    <2> QED
      BY <2>1 DEF JobInOrder, KnowsItsRow, WritesADraft, HasAppraisal, HashIfSealed, IsSealed,
                  IssuesOnce, Indexed
  <1> QED
    BY <1>1, <1>2 DEF AttachedIsKept, RepeatsReplay, HashIfSealed, IsSealed

(* So does a request that goes on, if it is in order itself.                *)
LEMMA ContinueKeeps ==
    ASSUME IInv, NEW w \in DOMAIN jobs, DOMAIN jobs' = DOMAIN jobs,
           jobs' \in [DOMAIN jobs -> Job],
           \A v \in DOMAIN jobs \ {w} : jobs'[v] = jobs[v] /\ (vaultLock = v => vaultLock' = v),
           vaultLock' \in DOMAIN jobs \cup {None},
           JobInOrder(w)',
           UNCHANGED <<intakes, appraisals, receipts, lastId, attached, clashes>>
    PROVE  IInv'
  <1> USE IntakeAssumption DEF IInv
  <1>1. IntakeTypeOK'
    BY DEF IntakeTypeOK
  <1>2. ASSUME NEW v \in DOMAIN jobs \ {w} PROVE JobInOrder(v)'
    BY DEF JobInOrder, KnowsItsRow, WritesADraft, HasAppraisal, HashIfSealed, IsSealed,
           IssuesOnce, Indexed
  <1> QED
    BY <1>1, <1>2 DEF AttachedIsKept, RepeatsReplay, HashIfSealed, IsSealed

-----------------------------------------------------------------------------
(* The optimistic save.  If the version is that which was read, the row is    *)
(* the draft that was read; and nobody else knows the new version.          *)
LEMMA WriteIntakeKeeps ==
    ASSUME IInv, NEW w \in Workers, WriteIntake(w)
    PROVE  IInv'
  <1> USE IntakeAssumption DEF IInv
  <1> DEFINE i == jobs[w].intake
             read == jobs[w].record
             written == jobs[w].written
  <1>1. /\ w \in DOMAIN jobs /\ jobs[w] \in Job /\ JobInOrder(w)
        /\ jobs[w].operation \in Writing
    BY DEF WriteIntake, At, Idle, IntakeTypeOK, Writing
  <1>2. /\ i \in DOMAIN intakes /\ i \in Intakes
        /\ read \in IntakeRecord /\ written \in IntakeRecord
        /\ intakes[i] \in IntakeRecord
    BY <1>1 DEF Job, JobInOrder, KnowsItsRow, IntakeTypeOK
  <1>3. Finish(w) /\ UNCHANGED <<appraisals, receipts, lastId, clashes>>
    BY DEF WriteIntake
  <1>4. CASE ~SameVersion(w)
    <2>1. UNCHANGED <<intakes, attached>>
      BY <1>4 DEF WriteIntake, Save
    <2> QED
      BY <1>1, <1>3, <2>1, FinishKeeps DEF IntakeTypeOK
  <1>5. CASE SameVersion(w)
    <2> DEFINE row == [written EXCEPT !.version = read.version + 1]
    <2>1. /\ intakes[i] = read /\ ~IsSealed(read) /\ read.version < MaxVersion
          /\ read.evidence \subseteq written.evidence /\ HashIfSealed(written)
      BY <1>1, <1>5 DEF SameVersion, JobInOrder, KnowsItsRow, WritesADraft
    <2>2. /\ row \in IntakeRecord /\ row.evidence = written.evidence
          /\ row.version = read.version + 1 /\ HashIfSealed(row)
      BY <1>2, <2>1 DEF IntakeRecord, HashIfSealed, IsSealed
    <2>3. intakes' = [intakes EXCEPT ![i] = row]
      BY <1>5 DEF WriteIntake, Save
    <2> HIDE DEF row
    <2>4. /\ DOMAIN intakes' = DOMAIN intakes
          /\ intakes' \in [DOMAIN intakes -> IntakeRecord]
          /\ intakes'[i] = row
          /\ \A k \in DOMAIN intakes \ {i} : intakes'[k] = intakes[k]
      BY <1>2, <2>2, <2>3 DEF IntakeTypeOK
    <2>5. /\ attached' \in [Intakes -> SUBSET Photos]
          /\ \A k \in Intakes \ {i} : attached'[k] = attached[k]
          /\ attached'[i] \subseteq attached[i] \cup written.evidence
      BY <1>2, <1>5 DEF WriteIntake, IntakeTypeOK, IntakeRecord
    <2>6. IntakeTypeOK'
      BY <1>1, <1>3, <2>4, <2>5, FinishFacts DEF IntakeTypeOK
    <2>7. ASSUME NEW v \in DOMAIN jobs' PROVE JobInOrder(v)'
      <3>1. /\ v \in DOMAIN jobs /\ jobs'[v] = jobs[v]
            /\ vaultLock = v => vaultLock' = v
        BY <1>1, <1>3, FinishFacts
      <3>2. KnowsItsRow(jobs[v])'
        <4>1. KnowsItsRow(jobs[v]) /\ jobs[v].record.version \in Nat
          BY <3>1 DEF JobInOrder, IntakeTypeOK, Job, IntakeRecord
        <4>2. intakes[i].version = read.version /\ read.version \in Nat
          BY <1>2, <2>1 DEF IntakeRecord
        <4> QED
          BY <2>2, <2>4, <3>1, <4>1, <4>2 DEF KnowsItsRow
      <3> QED
        BY <1>3, <3>1, <3>2 DEF JobInOrder, WritesADraft, HasAppraisal, HashIfSealed, IsSealed,
                                IssuesOnce, Indexed
    <2>8. (\A k \in DOMAIN intakes : HashIfSealed(intakes[k]))'
      BY <2>2, <2>4 DEF HashIfSealed, IsSealed
    <2>9. (\A k \in Intakes \ DOMAIN intakes : attached[k] = {})'
      BY <1>2, <2>4, <2>5
    <2>10. AttachedIsKept'
      <3>1. attached[i] \subseteq read.evidence
        BY <1>2, <2>1 DEF AttachedIsKept
      <3>2. attached'[i] \subseteq intakes'[i].evidence
        BY <2>1, <2>2, <2>4, <2>5, <3>1
      <3> QED
        BY <2>4, <2>5, <3>2 DEF AttachedIsKept, IntakeTypeOK
    <2> QED
      BY <1>3, <2>6, <2>7, <2>8, <2>9, <2>10 DEF RepeatsReplay
  <1> QED
    BY <1>4, <1>5

LEMMA InsertAppraisalKeeps ==
    ASSUME IInv, NEW w \in Workers, InsertAppraisal(w)
    PROVE  IInv'
  <1>1. w \in DOMAIN jobs /\ jobs[w].appraisal \in Appraisal
    BY DEF InsertAppraisal, Has, At, Idle, IInv, JobInOrder, HasAppraisal
  <1>2. /\ Finish(w) /\ appraisals' \subseteq Appraisal
        /\ UNCHANGED <<intakes, receipts, lastId, attached, clashes>>
    BY <1>1 DEF InsertAppraisal, IInv, IntakeTypeOK
  <1> QED
    BY <1>1, <1>2, FinishKeeps

LEMMA AbortKeeps ==
    ASSUME IInv, NEW w \in Workers, Abort(w)
    PROVE  IInv'
  BY FinishKeeps DEF Abort, Idle, IInv, IntakeTypeOK

LEMMA ListToSealKeeps ==
    ASSUME IInv, NEW w \in Workers, ListToSeal(w)
    PROVE  IInv'
  <1>1. w \in DOMAIN jobs /\ JobInOrder(w) /\ IntakeTypeOK /\ jobs[w].operation = "seal"
    BY DEF ListToSeal, Has, At, Idle, IInv
  <1>2. UNCHANGED <<intakes, appraisals, receipts, lastId, attached, clashes>>
    BY DEF ListToSeal
  <1>3. CASE Finish(w)
    BY <1>1, <1>2, <1>3, FinishKeeps DEF IntakeTypeOK
  <1>4. CASE Continue(w, "write") /\ UNCHANGED vaultLock
    <2>1. /\ jobs' \in [DOMAIN jobs -> Job] /\ DOMAIN jobs' = DOMAIN jobs
          /\ \A v \in DOMAIN jobs \ {w} : jobs'[v] = jobs[v]
          /\ jobs'[w].operation = "seal" /\ jobs'[w].intake = jobs[w].intake
          /\ jobs'[w].record = jobs[w].record /\ jobs'[w].written = jobs[w].written
      BY <1>1, <1>4, ContinueFacts
    <2>2. JobInOrder(w)'
      BY <1>1, <1>2, <2>1 DEF JobInOrder, KnowsItsRow, WritesADraft, HasAppraisal, HashIfSealed,
                              IsSealed, IssuesOnce
    <2> QED
      BY <1>1, <1>2, <1>4, <2>1, <2>2, ContinueKeeps DEF IntakeTypeOK
  <1> QED
    BY <1>3, <1>4 DEF ListToSeal

LEMMA ListToIssueKeeps ==
    ASSUME IInv, NEW w \in Workers, ListToIssue(w)
    PROVE  IInv'
  <1> DEFINE rows == AppraisalsOf(jobs[w].intake)
             last == CHOOSE a \in rows : \A b \in rows : b.id <= a.id
  <1>1. w \in DOMAIN jobs /\ JobInOrder(w) /\ IntakeTypeOK /\ jobs[w].operation = "issue"
    BY DEF ListToIssue, Has, At, Idle, IInv
  <1>2. UNCHANGED <<intakes, appraisals, receipts, lastId, attached, clashes>>
    BY DEF ListToIssue
  <1>3. CASE rows = {}
    <2>1. Finish(w)
      BY <1>3 DEF ListToIssue
    <2> QED
      BY <1>1, <1>2, <2>1, FinishKeeps DEF IntakeTypeOK
  <1>4. CASE rows # {}
    <2>1. rows \subseteq Appraisal
      BY <1>1 DEF AppraisalsOf, IntakeTypeOK
    <2>2. last \in Appraisal
      <3> HIDE DEF rows
      <3> QED
        BY <1>4, <2>1, LastAppraisal
    <2>3. jobs' = [jobs EXCEPT ![w].next = "lock", ![w].appraisal = last] /\ UNCHANGED vaultLock
      BY <1>4 DEF ListToIssue
    <2> HIDE DEF last
    <2>4. /\ jobs' \in [DOMAIN jobs -> Job] /\ DOMAIN jobs' = DOMAIN jobs
          /\ \A v \in DOMAIN jobs \ {w} : jobs'[v] = jobs[v]
          /\ jobs'[w].operation = "issue" /\ jobs'[w].intake = jobs[w].intake
          /\ jobs'[w].next = "lock" /\ jobs'[w].appraisal = last
          /\ jobs'[w].record = jobs[w].record /\ jobs'[w].written = jobs[w].written
      BY <1>1, <2>2, <2>3 DEF IntakeTypeOK, Job
    <2>5. JobInOrder(w)'
      BY <1>1, <1>2, <2>2, <2>4 DEF JobInOrder, KnowsItsRow, WritesADraft, Writing, HasAppraisal,
                                    HashIfSealed, IsSealed, IssuesOnce
    <2> QED
      BY <1>1, <1>2, <2>3, <2>4, <2>5, ContinueKeeps DEF IntakeTypeOK
  <1> QED
    BY <1>3, <1>4

LEMMA LockVaultKeeps ==
    ASSUME IInv, NEW w \in Workers, LockVault(w)
    PROVE  IInv'
  <1>1. /\ w \in DOMAIN jobs /\ JobInOrder(w) /\ IntakeTypeOK
        /\ jobs[w].operation = "issue" /\ jobs[w].next = "lock"
    BY DEF LockVault, Has, At, Idle, IInv
  <1>2. /\ vaultLock = None /\ vaultLock' = w /\ Continue(w, "check")
        /\ UNCHANGED <<intakes, appraisals, receipts, lastId, attached, clashes>>
    BY DEF LockVault
  <1>3. /\ jobs' \in [DOMAIN jobs -> Job] /\ DOMAIN jobs' = DOMAIN jobs
        /\ \A v \in DOMAIN jobs \ {w} : jobs'[v] = jobs[v]
        /\ jobs'[w].operation = "issue" /\ jobs'[w].intake = jobs[w].intake
        /\ jobs'[w].next = "check" /\ jobs'[w].appraisal = jobs[w].appraisal
        /\ jobs'[w].record = jobs[w].record /\ jobs'[w].written = jobs[w].written
    BY <1>1, <1>2, ContinueFacts
  <1>4. JobInOrder(w)'
    BY <1>1, <1>2, <1>3 DEF JobInOrder, KnowsItsRow, WritesADraft, Writing, HasAppraisal,
                            HashIfSealed, IsSealed, IssuesOnce
  <1>5. \A v \in DOMAIN jobs : v # None
    BY <1>1, IntakeAssumption DEF IntakeTypeOK
  <1> QED
    BY <1>1, <1>2, <1>3, <1>4, <1>5, ContinueKeeps

LEMMA CheckExposureKeeps ==
    ASSUME IInv, NEW w \in Workers, CheckExposure(w)
    PROVE  IInv'
  <1>1. /\ w \in DOMAIN jobs /\ JobInOrder(w) /\ IntakeTypeOK
        /\ jobs[w].operation = "issue" /\ jobs[w].next = "check"
    BY DEF CheckExposure, Has, At, Idle, IInv
  <1>2. UNCHANGED <<intakes, appraisals, receipts, lastId, attached, clashes>>
    BY DEF CheckExposure
  <1>3. CASE Finish(w)
    BY <1>1, <1>2, <1>3, FinishKeeps DEF IntakeTypeOK
  <1>4. CASE /\ ReceiptsOf(jobs[w].record.sealedHash) = {}
             /\ Continue(w, "write") /\ UNCHANGED vaultLock
    <2>1. /\ jobs' \in [DOMAIN jobs -> Job] /\ DOMAIN jobs' = DOMAIN jobs
          /\ \A v \in DOMAIN jobs \ {w} : jobs'[v] = jobs[v]
          /\ jobs'[w].operation = "issue" /\ jobs'[w].intake = jobs[w].intake
          /\ jobs'[w].next = "write" /\ jobs'[w].appraisal = jobs[w].appraisal
          /\ jobs'[w].record = jobs[w].record /\ jobs'[w].written = jobs[w].written
      BY <1>1, <1>4, ContinueFacts
    <2>2. ~Indexed(jobs[w].record.sealedHash)
      BY <1>4 DEF ReceiptsOf, Indexed
    <2>3. JobInOrder(w)'
      BY <1>1, <1>2, <1>4, <2>1, <2>2 DEF JobInOrder, KnowsItsRow, WritesADraft, Writing,
                 HasAppraisal, HashIfSealed, IsSealed, IssuesOnce, Indexed
    <2> QED
      BY <1>1, <1>2, <1>4, <2>1, <2>3, ContinueKeeps DEF IntakeTypeOK
  <1> QED
    BY <1>3, <1>4 DEF CheckExposure

(* The receipt is inserted under the lock, and only its holder had found it   *)
(* missing.                                                                 *)
LEMMA InsertReceiptKeeps ==
    ASSUME IInv, NEW w \in Workers, InsertReceipt(w)
    PROVE  IInv'
  <1> USE IntakeAssumption DEF IInv
  <1> DEFINE hash == jobs[w].record.sealedHash
             receipt == [intakeRecordHash |-> hash,
                         appraisedValue |-> jobs[w].appraisal.value, live |-> TRUE]
  <1>1. /\ w \in DOMAIN jobs /\ jobs[w] \in Job /\ JobInOrder(w)
        /\ jobs[w].operation = "issue" /\ jobs[w].next = "write"
    BY DEF InsertReceipt, Has, At, Idle, IntakeTypeOK
  <1>2. /\ vaultLock = w /\ ~Indexed(hash) /\ hash \in Hash
        /\ jobs[w].appraisal \in Appraisal
    BY <1>1 DEF JobInOrder, IssuesOnce, HashIfSealed, HasAppraisal
  <1>3. receipt \in Receipt
    BY <1>2 DEF Receipt, Appraisal
  <1>4. /\ receipts' = receipts \cup {receipt} /\ Finish(w)
        /\ UNCHANGED <<intakes, appraisals, lastId, attached, clashes>>
    BY <1>2 DEF InsertReceipt
  <1> HIDE DEF receipt
  <1>5. /\ DOMAIN jobs' = DOMAIN jobs \ {w} /\ jobs' \in [DOMAIN jobs' -> Job]
        /\ \A v \in DOMAIN jobs \ {w} : jobs'[v] = jobs[v]
        /\ vaultLock' \in DOMAIN jobs' \cup {None}
    <2>1. IntakeTypeOK /\ Finish(w) /\ w \in DOMAIN jobs
      BY <1>1, <1>4
    <2> QED
      BY <2>1, FinishFacts
  <1>6. IntakeTypeOK'
    BY <1>3, <1>4, <1>5 DEF IntakeTypeOK
  <1>7. ASSUME NEW v \in DOMAIN jobs' PROVE JobInOrder(v)'
    <2>1. v \in DOMAIN jobs /\ jobs'[v] = jobs[v] /\ v # w
      BY <1>5
    <2>2. IssuesOnce(v)'
      BY <1>2, <2>1 DEF JobInOrder, IssuesOnce, IsSealed
    <2> QED
      BY <1>4, <2>1, <2>2 DEF JobInOrder, KnowsItsRow, WritesADraft, HasAppraisal, HashIfSealed,
                              IsSealed
  <1> QED
    BY <1>4, <1>6, <1>7 DEF AttachedIsKept, RepeatsReplay, HashIfSealed, IsSealed

(* A burned receipt still answers for its hash.                             *)
LEMMA BurnKeeps ==
    ASSUME IInv, NEW r \in receipts, Burn(r)
    PROVE  IInv'
  <1> USE IntakeAssumption DEF IInv
  <1>1. /\ receipts' = (receipts \ {r}) \cup {[r EXCEPT !.live = FALSE]}
        /\ UNCHANGED <<intakes, appraisals, vaultLock, jobs, lastId, attached, clashes>>
    BY DEF Burn
  <1>2. r \in Receipt /\ [r EXCEPT !.live = FALSE] \in Receipt
    BY DEF IntakeTypeOK, Receipt
  <1>3. IntakeTypeOK'
    BY <1>1, <1>2 DEF IntakeTypeOK
  <1>4. \A hash : Indexed(hash)' => Indexed(hash)
    BY <1>1, <1>2 DEF Indexed, Receipt
  <1>5. ASSUME NEW v \in DOMAIN jobs' PROVE JobInOrder(v)'
    BY <1>1, <1>4 DEF JobInOrder, KnowsItsRow, WritesADraft, HasAppraisal, HashIfSealed, IsSealed,
                      IssuesOnce
  <1> QED
    BY <1>1, <1>3, <1>5 DEF AttachedIsKept, RepeatsReplay, HashIfSealed, IsSealed

LEMMA StaysTrue ==
    ASSUME IInv, [Next]_vars
    PROVE  IInv'
  <1>1. CASE UNCHANGED vars
    BY <1>1 DEF vars, IInv, IntakeTypeOK, JobInOrder, KnowsItsRow, WritesADraft, HasAppraisal,
                HashIfSealed, IsSealed, IssuesOnce, Indexed, AttachedIsKept, RepeatsReplay
  <1>2. CASE Next
    BY <1>2, BeginIntakeKeeps, ReadKeeps, WriteIntakeKeeps, InsertAppraisalKeeps, ListToSealKeeps,
       ListToIssueKeeps, LockVaultKeeps, CheckExposureKeeps, InsertReceiptKeeps, BurnKeeps,
       AbortKeeps DEF Next
  <1> QED
    BY <1>1, <1>2

LEMMA IInvHolds == Spec => []IInv
  BY StartsTrue, StaysTrue, PTL DEF Spec

-----------------------------------------------------------------------------
(* The intake, appraisal and receipt tables and the requests at work stay    *)
(* well-formed, for any number of workers.                                  *)
THEOREM IntakeTypeCorrect == Spec => []IntakeTypeOK
  <1>1. IInv => IntakeTypeOK
    BY DEF IInv
  <1> QED
    BY <1>1, IInvHolds, PTL

(* However many requests write an intake at a time, each the whole row from  *)
(* an earlier read, no acknowledged photograph is lost.                     *)
THEOREM PhotographsAreKept == Spec => []AttachedIsKept
  <1>1. IInv => AttachedIsKept
    BY DEF IInv
  <1> QED
    BY <1>1, IInvHolds, PTL

(* However many workers issue on one intake at a time, none is ever refused   *)
(* by the unique index on the sealed hash: the vault's lock comes first.    *)
THEOREM IssuingIsIdempotent == Spec => []RepeatsReplay
  <1>1. IInv => RepeatsReplay
    BY DEF IInv
  <1> QED
    BY <1>1, IInvHolds, PTL

(* The version check of the save is enough to keep a sealed record from ever  *)
(* being written again by a request that read it as a draft.                *)
THEOREM SealsAreForGood == Spec => SealedForGood
  <1>1. ASSUME IInv, [Next]_vars, NEW i \in DOMAIN intakes, IsSealed(intakes[i])
        PROVE  intakes'[i] = intakes[i]
    <2>1. CASE UNCHANGED intakes
      BY <2>1
    <2>2. ASSUME NEW j \in Intakes, BeginIntake(j) PROVE intakes'[i] = intakes[i]
      BY <2>2 DEF BeginIntake
    <2>3. ASSUME NEW w \in Workers, WriteIntake(w), SameVersion(w)
          PROVE  intakes'[i] = intakes[i]
      <3>1. w \in DOMAIN jobs /\ JobInOrder(w) /\ jobs[w].operation \in Writing
        BY <1>1, <2>3 DEF WriteIntake, At, Idle, IInv, Writing
      <3>2. jobs[w].intake # i
        BY <1>1, <2>3, <3>1 DEF JobInOrder, KnowsItsRow, WritesADraft, SameVersion
      <3> QED
        BY <2>3, <3>2 DEF WriteIntake, Save
    <2>4. ASSUME NEW w \in Workers, WriteIntake(w), ~SameVersion(w)
          PROVE  UNCHANGED intakes
      BY <2>4 DEF WriteIntake, Save
    <2> QED
      BY <1>1, <2>1, <2>2, <2>3, <2>4 DEF Next, vars, Read, ReadToAttach, ReadToUpdate, ReadToSeal,
         ReadToAppraise, ReadToIssue, InsertAppraisal, ListToSeal, ListToIssue, LockVault,
         CheckExposure, InsertReceipt, Abort, Burn
  <1>2. IInv /\ [Next]_vars =>
          [\A i \in DOMAIN intakes : IsSealed(intakes[i]) => intakes'[i] = intakes[i]]_vars
    BY <1>1
  <1> QED
    BY <1>2, IInvHolds, PTL DEF Spec, SealedForGood

-----------------------------------------------------------------------------
(* That the vault is never worth more than it is insured for.  What a       *)
(* request that may insert has checked still holds: nobody else may insert  *)
(* while it has the vault locked, and a burned receipt only makes room.     *)
AdmittedFits ==
    \A w \in DOMAIN jobs :
        jobs[w].operation = "issue" /\ jobs[w].next = "write" =>
            WithinInsuredLimit(jobs[w].appraisal.value)

ExposureInv ==
    /\ IInv
    /\ IsFiniteSet(receipts)
    /\ ExposureWithinLimit
    /\ AdmittedFits

Live == {r \in receipts : r.live}

Worth == [r \in receipts |-> r.appraisedValue]

(* The exposure is a number.                                                *)
LEMMA ExposureType ==
    ASSUME IntakeTypeOK, IsFiniteSet(receipts)
    PROVE  /\ IsFiniteSet(Live) /\ Live \subseteq receipts
           /\ \A r \in receipts : Worth[r] \in Nat
           /\ Exposure = SumOver(Live, Worth)
           /\ Exposure \in Int
  <1>1. IsFiniteSet(Live) /\ Live \subseteq receipts
    BY FS_Subset DEF Live
  <1>2. \A r \in receipts : Worth[r] \in Nat
    BY IntakeAssumption DEF Worth, IntakeTypeOK, Receipt
  <1>3. Exposure = SumOver(Live, Worth)
    BY DEF Exposure, Live, Worth
  <1>4. SumOver(Live, Worth) \in Int
    BY <1>1, <1>2, SumType
  <1> QED
    BY <1>1, <1>2, <1>3, <1>4

(* A new receipt adds its value.                                            *)
LEMMA InsertAdds ==
    ASSUME IntakeTypeOK, IntakeTypeOK', IsFiniteSet(receipts),
           NEW receipt, receipt \notin receipts, receipt.live,
           receipts' = receipts \cup {receipt}
    PROVE  /\ IsFiniteSet(receipts')
           /\ Exposure' = Exposure + receipt.appraisedValue
  <1>1. IsFiniteSet(receipts')
    BY FS_AddElement
  <1>2. /\ IsFiniteSet(Live) /\ Live \subseteq receipts
        /\ \A r \in receipts : Worth[r] \in Nat
        /\ Exposure = SumOver(Live, Worth)
        /\ Exposure \in Int
    BY ExposureType
  <1>3. Live' = Live \cup {receipt} /\ receipt \notin Live
    BY DEF Live
  <1>4. /\ \A r \in Live \cup {receipt} : Worth'[r] \in Int
        /\ \A r \in Live : Worth'[r] = Worth[r]
        /\ Worth'[receipt] = receipt.appraisedValue
    BY <1>2, IntakeAssumption DEF Worth, IntakeTypeOK, Receipt
  <1>5. SumOver(Live \cup {receipt}, Worth') = Worth'[receipt] + SumOver(Live, Worth')
    BY <1>2, <1>3, <1>4, SumAdd
  <1>6. SumOver(Live, Worth') = SumOver(Live, Worth)
    BY <1>2, <1>4, SumSame
  <1>7. Exposure' = SumOver(Live', Worth')
    BY DEF Exposure, Live, Worth
  <1>8. Worth'[receipt] \in Int
    BY <1>4
  <1> QED
    BY <1>1, <1>2, <1>3, <1>4, <1>5, <1>6, <1>7, <1>8

(* A burned receipt makes room.                                             *)
LEMMA BurnMakesRoom ==
    ASSUME IntakeTypeOK, IsFiniteSet(receipts), NEW r \in receipts, Burn(r)
    PROVE  /\ IsFiniteSet(receipts')
           /\ Exposure' \in Int
           /\ Exposure' <= Exposure
  <1>1. PICK burned : /\ burned = [r EXCEPT !.live = FALSE]
                      /\ receipts' = (receipts \ {r}) \cup {burned}
    BY DEF Burn
  <1>2. r \in Receipt /\ burned.live = FALSE /\ r.live
    BY <1>1 DEF IntakeTypeOK, Receipt, Burn
  <1>3. IsFiniteSet(receipts')
    BY <1>1, FS_AddElement, FS_RemoveElement
  <1>4. /\ IsFiniteSet(Live) /\ Live \subseteq receipts
        /\ \A q \in receipts : Worth[q] \in Nat
        /\ Exposure = SumOver(Live, Worth)
        /\ Exposure \in Int
    BY ExposureType
  <1>5. Live' = Live \ {r} /\ r \in Live
    BY <1>1, <1>2 DEF Live
  <1>6. \A q \in Live \ {r} : Worth'[q] = Worth[q] /\ Worth[q] \in Int
    BY <1>1, <1>4 DEF Worth
  <1>7. SumOver(Live, Worth) = Worth[r] + SumOver(Live \ {r}, Worth)
    BY <1>4, <1>5, SumRemove
  <1>8. IsFiniteSet(Live \ {r})
    BY <1>4, FS_RemoveElement
  <1>9. SumOver(Live \ {r}, Worth') = SumOver(Live \ {r}, Worth)
    BY <1>6, <1>8, SumSame
  <1>10. SumOver(Live \ {r}, Worth) \in Int
    BY <1>6, <1>8, SumType
  <1>11. Exposure' = SumOver(Live', Worth')
    BY DEF Exposure, Live, Worth
  <1>12. Worth[r] \in Nat
    BY <1>4
  <1> QED
    BY <1>3, <1>4, <1>5, <1>7, <1>9, <1>10, <1>11, <1>12

(* Whoever may insert a receipt may have done so before, or has just checked *)
(* the limit.                                                               *)
LEMMA AdmittedByCheck ==
    ASSUME IInv, Next, NEW w \in DOMAIN jobs', jobs'[w].operation = "issue",
           jobs'[w].next = "write"
    PROVE  \/ w \in DOMAIN jobs /\ jobs'[w] = jobs[w]
           \/ /\ w \in Workers /\ CheckExposure(w) /\ Continue(w, "write")
              /\ WithinInsuredLimit(jobs[w].appraisal.value)
  <1> DEFINE Goal == \/ w \in DOMAIN jobs /\ jobs'[w] = jobs[w]
                     \/ /\ w \in Workers /\ CheckExposure(w) /\ Continue(w, "write")
                        /\ WithinInsuredLimit(jobs[w].appraisal.value)
  <1> USE DEF IInv
  <1>1. CASE UNCHANGED jobs
    BY <1>1
  <1>2. ASSUME NEW v \in Workers, Finish(v) PROVE Goal
    BY <1>2 DEF Finish
  <1>3. ASSUME NEW v \in Workers, NEW i \in Intakes, Read(v, i) PROVE Goal
    <2>1. ASSUME NEW photo \in Photos, ReadToAttach(v, i, photo) PROVE Goal
      BY <2>1 DEF ReadToAttach, Start
    <2>2. ASSUME NEW sealNumber \in Seals, ReadToUpdate(v, i, sealNumber) PROVE Goal
      BY <2>2 DEF ReadToUpdate, Start
    <2>3. ASSUME ReadToSeal(v, i) PROVE Goal
      BY <2>3 DEF ReadToSeal, Start
    <2>4. ASSUME NEW appraiser \in Appraisers, NEW value \in Values,
                 ReadToAppraise(v, i, appraiser, value)
          PROVE  Goal
      BY <2>4 DEF ReadToAppraise, Start
    <2>5. ASSUME ReadToIssue(v, i) PROVE Goal
      BY <2>5 DEF ReadToIssue, Start
    <2> HIDE DEF Goal
    <2> QED
      BY <1>3, <2>1, <2>2, <2>3, <2>4, <2>5 DEF Read
  <1>4. ASSUME NEW v \in Workers, v \in DOMAIN jobs, NEW step, Continue(v, step),
               step # "write" \/ jobs[v].operation # "issue"
        PROVE  Goal
    <2>1. jobs[v] \in Job
      BY <1>4 DEF IntakeTypeOK
    <2> QED
      BY <1>4, <2>1 DEF Continue, Job
  <1>5. ASSUME NEW v \in Workers, ListToIssue(v) PROVE Goal
    <2>1. CASE AppraisalsOf(jobs[v].intake) = {}
      BY <1>2, <1>5, <2>1 DEF ListToIssue
    <2>2. CASE AppraisalsOf(jobs[v].intake) # {}
      <3>1. PICK last : jobs' = [jobs EXCEPT ![v].next = "lock", ![v].appraisal = last]
        BY <1>5, <2>2 DEF ListToIssue
      <3>2. v \in DOMAIN jobs /\ jobs[v] \in Job
        BY <1>5 DEF ListToIssue, Has, At, Idle, IntakeTypeOK
      <3> QED
        BY <3>1, <3>2 DEF Job
    <2> QED
      BY <2>1, <2>2
  <1>6. ASSUME NEW v \in Workers, CheckExposure(v) PROVE Goal
    <2>1. CASE Finish(v)
      BY <1>2, <2>1
    <2>2. CASE Continue(v, "write") /\ WithinInsuredLimit(jobs[v].appraisal.value)
      <3>1. CASE v = w
        BY <1>6, <2>2, <3>1
      <3>2. CASE v # w
        BY <2>2, <3>2 DEF Continue
      <3> QED
        BY <3>1, <3>2
    <2> QED
      BY <1>6, <2>1, <2>2 DEF CheckExposure
  <1>7. ASSUME NEW v \in Workers, WriteIntake(v) \/ InsertAppraisal(v) \/ InsertReceipt(v) \/ Abort(v)
        PROVE  Goal
    BY <1>2, <1>7 DEF WriteIntake, InsertAppraisal, InsertReceipt, Abort
  <1>8. ASSUME NEW v \in Workers, ListToSeal(v) PROVE Goal
    <2>1. v \in DOMAIN jobs /\ jobs[v].operation # "issue"
      BY <1>8 DEF ListToSeal, Has, At, Idle
    <2> QED
      BY <1>2, <1>4, <1>8, <2>1 DEF ListToSeal
  <1>9. ASSUME NEW v \in Workers, LockVault(v) PROVE Goal
    BY <1>4, <1>9 DEF LockVault, Has, At, Idle
  <1> HIDE DEF Goal
  <1>10. ASSUME NEW i \in Intakes, BeginIntake(i) PROVE Goal
    BY <1>1, <1>10 DEF BeginIntake, Goal
  <1>11. ASSUME NEW r \in receipts, Burn(r) PROVE Goal
    BY <1>1, <1>11 DEF Burn, Goal
  <1>12. Goal
    BY <1>3, <1>5, <1>6, <1>7, <1>8, <1>9, <1>10, <1>11 DEF Next
  <1> QED
    BY <1>12 DEF Goal

(* Of the receipts a step inserts one under the vault's lock, or burns one,  *)
(* or it leaves them alone.                                                 *)
LEMMA ReceiptsChange ==
    ASSUME IInv, Next
    PROVE  \/ UNCHANGED receipts
           \/ \E w \in Workers : InsertReceipt(w)
           \/ \E r \in receipts : Burn(r)
  <1>1. ASSUME NEW w \in Workers, NEW i \in Intakes, Read(w, i) PROVE UNCHANGED receipts
    BY <1>1 DEF Read, ReadToAttach, ReadToUpdate, ReadToSeal, ReadToAppraise, ReadToIssue
  <1>2. ASSUME NEW w \in Workers,
               \/ WriteIntake(w) \/ InsertAppraisal(w) \/ ListToSeal(w)
               \/ ListToIssue(w) \/ LockVault(w) \/ CheckExposure(w) \/ Abort(w)
        PROVE  UNCHANGED receipts
    BY <1>2 DEF WriteIntake, InsertAppraisal, ListToSeal, ListToIssue, LockVault, CheckExposure,
                Abort
  <1>3. ASSUME NEW i \in Intakes, BeginIntake(i) PROVE UNCHANGED receipts
    BY <1>3 DEF BeginIntake
  <1> QED
    BY <1>1, <1>2, <1>3 DEF Next

(* The step that inserts had room for its receipt, and nobody else is at it. *)
LEMMA InsertFits ==
    ASSUME ExposureInv, IInv', Next, NEW w \in Workers, InsertReceipt(w)
    PROVE  ExposureInv'
  <1> USE DEF ExposureInv, IInv
  <1>1. /\ w \in DOMAIN jobs /\ jobs[w] \in Job /\ JobInOrder(w)
        /\ jobs[w].operation = "issue" /\ jobs[w].next = "write"
    BY DEF InsertReceipt, Has, At, Idle, IntakeTypeOK
  <1>2. /\ vaultLock = w /\ ~Indexed(jobs[w].record.sealedHash)
        /\ jobs[w].appraisal \in Appraisal
    BY <1>1 DEF JobInOrder, IssuesOnce, HasAppraisal
  <1>3. PICK receipt : /\ receipt.intakeRecordHash = jobs[w].record.sealedHash
                       /\ receipt.appraisedValue = jobs[w].appraisal.value
                       /\ receipt.live = TRUE
                       /\ receipts' = receipts \cup {receipt}
    BY <1>2 DEF InsertReceipt
  <1>4. receipt \notin receipts
    BY <1>2, <1>3 DEF Indexed
  <1>5. IsFiniteSet(receipts') /\ Exposure' = Exposure + jobs[w].appraisal.value
    BY <1>3, <1>4, InsertAdds
  <1>6. Exposure' <= InsuredLimit
    BY <1>1, <1>5 DEF AdmittedFits, WithinInsuredLimit
  <1>7. AdmittedFits'
    <2> SUFFICES ASSUME NEW v \in DOMAIN jobs', jobs'[v].operation = "issue", jobs'[v].next = "write"
                 PROVE  FALSE
      BY DEF AdmittedFits
    <2>1. v \in DOMAIN jobs /\ jobs'[v] = jobs[v] /\ v # w
      BY DEF InsertReceipt, Finish
    <2>2. vaultLock = v
      BY <2>1 DEF JobInOrder, IssuesOnce
    <2> QED
      BY <1>2, <2>1, <2>2
  <1> QED
    BY <1>5, <1>6, <1>7 DEF ExposureWithinLimit

(* Any other step leaves at least as much room as there was.                *)
LEMMA RoomKept ==
    ASSUME ExposureInv, IInv', Next, IsFiniteSet(receipts'), Exposure' \in Int,
           Exposure' <= Exposure
    PROVE  ExposureInv'
  <1> USE DEF ExposureInv, IInv
  <1>1. InsuredLimit \in Int /\ Exposure \in Int
    BY ExposureType, IntakeAssumption
  <1>2. ExposureWithinLimit'
    BY <1>1 DEF ExposureWithinLimit
  <1>3. AdmittedFits'
    <2> SUFFICES ASSUME NEW w \in DOMAIN jobs', jobs'[w].operation = "issue", jobs'[w].next = "write"
                 PROVE  WithinInsuredLimit(jobs[w].appraisal.value)'
      BY DEF AdmittedFits
    <2>1. /\ w \in DOMAIN jobs /\ WithinInsuredLimit(jobs[w].appraisal.value)
          /\ jobs'[w].appraisal = jobs[w].appraisal
      <3>1. CASE w \in DOMAIN jobs /\ jobs'[w] = jobs[w]
        BY <3>1 DEF AdmittedFits
      <3>2. CASE /\ w \in Workers /\ CheckExposure(w) /\ Continue(w, "write")
                 /\ WithinInsuredLimit(jobs[w].appraisal.value)
        <4>1. w \in DOMAIN jobs
          BY <3>2 DEF CheckExposure, Has, At, Idle
        <4> QED
          BY <3>2, <4>1, ContinueFacts
      <3> QED
        BY <3>1, <3>2, AdmittedByCheck
    <2>2. jobs'[w].appraisal.value \in Int
      <3>1. jobs'[w].appraisal \in Appraisal
        BY DEF JobInOrder, HasAppraisal
      <3>2. jobs'[w].appraisal.value \in Values
        BY <3>1 DEF Appraisal
      <3>3. \A value \in Values : value \in Int
        BY IntakeAssumption
      <3> QED
        BY <3>2, <3>3
    <2> QED
      BY <1>1, <2>1, <2>2 DEF WithinInsuredLimit
  <1> QED
    BY <1>2, <1>3

LEMMA ExposureStep == ExposureInv /\ [Next]_vars => ExposureInv'
  <1> SUFFICES ASSUME ExposureInv, [Next]_vars PROVE ExposureInv'
    OBVIOUS
  <1>1. IInv'
    BY StaysTrue DEF ExposureInv
  <1>2. CASE UNCHANGED vars
    BY <1>1, <1>2 DEF vars, ExposureInv, ExposureWithinLimit, AdmittedFits, WithinInsuredLimit,
                      Exposure
  <1>3. CASE Next
    <2>1. CASE UNCHANGED receipts
      <3>1. Exposure' = Exposure /\ Exposure \in Int
        BY <2>1, ExposureType DEF Exposure, ExposureInv, IInv
      <3>2. IsFiniteSet(receipts') /\ Exposure' \in Int /\ Exposure' <= Exposure
        BY <2>1, <3>1 DEF ExposureInv
      <3> QED
        BY <1>1, <1>3, <3>2, RoomKept
    <2>2. ASSUME NEW r \in receipts, Burn(r) PROVE ExposureInv'
      <3>1. IsFiniteSet(receipts') /\ Exposure' \in Int /\ Exposure' <= Exposure
        BY <2>2, BurnMakesRoom DEF ExposureInv, IInv
      <3> QED
        BY <1>1, <1>3, <3>1, RoomKept
    <2> QED
      BY <1>1, <1>3, <2>1, <2>2, ReceiptsChange, InsertFits DEF ExposureInv
  <1> QED
    BY <1>2, <1>3

(* Rule C5: however many workers issue receipts at a time, and however many  *)
(* receipts are burned between their reads and their writes, the vault is   *)
(* never worth more than it is insured for.                                 *)
THEOREM ExposureIsInsured == Spec => []ExposureWithinLimit
  <1>1. Init => ExposureInv
    <2> SUFFICES ASSUME Init PROVE ExposureInv
      OBVIOUS
    <2>1. IInv
      BY StartsTrue
    <2>2. receipts = {} /\ DOMAIN jobs = {}
      BY DEF Init
    <2>3. Exposure = 0
      BY <2>2, SumEmpty DEF Exposure
    <2> QED
      BY <2>1, <2>2, <2>3, FS_EmptySet, IntakeAssumption
      DEF ExposureInv, ExposureWithinLimit, AdmittedFits
  <1>2. ExposureInv => ExposureWithinLimit
    BY DEF ExposureInv
  <1> QED
    BY <1>1, <1>2, ExposureStep, PTL DEF Spec
=============================================================================
