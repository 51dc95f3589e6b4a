------------------------------- MODULE Intake -------------------------------
(***************************************************************************)
(* Taking an item into the vault: staff attach photographs, number the bag, *)
(* appraise the item, seal the record and issue the receipt.  Each worker   *)
(* serves one request at a time, in a transaction of the READ COMMITTED     *)
(* level: a step here is one statement of it, reading what others have      *)
(* committed by then.  A transaction writes in its last step only, and the  *)
(* intake's version, the vault's row lock and a unique index are all that   *)
(* stand between two of them.                                               *)
(***************************************************************************)
EXTENDS Sums

CONSTANTS Workers,
          Intakes,           \* all of one vault
          Photos, Seals, Appraisers, Values,
          None,              \* no seal number; no sealed hash; the vault unlocked
          DualAppraisalThreshold,
          InsuredLimit,
          MaxVersion,        \* bound: writes to one intake after its creation
          MaxAppraisals      \* bound: appraisals ever begun

ASSUME IntakeAssumption ==
    /\ Values \subseteq Nat \ {0} /\ IsFiniteSet(Values)
    /\ DualAppraisalThreshold \in Nat
    /\ InsuredLimit \in Nat
    /\ MaxVersion \in Nat
    /\ MaxAppraisals \in Nat
    /\ None \notin Seals \cup Workers

VARIABLES intakes,      \* the intake_record table
          appraisals,   \* the appraisal table
          receipts,     \* the custody_receipt table, as issuing sees it
          vaultLock,    \* who has locked the vault's row
          jobs,         \* what each worker is doing
          lastId,       \* identifiers are generated in order
          attached,     \* history: photographs acknowledged, by intake
          clashes       \* history: intakes whose receipt the unique index refused

vars == <<intakes, appraisals, receipts, vaultLock, jobs, lastId, attached, clashes>>

(* The sealed hash commits the evidence and the seal number, whatever their  *)
(* order: it stands for what it is a hash of.                               *)
Hash == [intake : Intakes, evidence : SUBSET Photos, sealNumber : Seals]

IntakeRecord == [evidence : SUBSET Photos, sealNumber : Seals \cup {None},
                 status : {"DRAFT", "SEALED"}, sealedHash : Hash \cup {None},
                 version : 0..MaxVersion]

Appraisal == [id : 1..MaxAppraisals, intake : Intakes,
              appraiser : Appraisers, value : Values]

Receipt == [intakeRecordHash : Hash, appraisedValue : Values, live : BOOLEAN]

Operations == {"attach_photo", "update", "appraise", "seal", "issue"}

Job == [operation : Operations, next : {"list", "lock", "check", "write"},
        intake : Intakes,
        record : IntakeRecord,                  \* the row as it was read
        written : IntakeRecord,                 \* the row to be written
        appraisal : Appraisal \cup {None}]      \* to be written, or to issue on

IntakeTypeOK ==
    /\ DOMAIN intakes \subseteq Intakes /\ intakes \in [DOMAIN intakes -> IntakeRecord]
    /\ appraisals \subseteq Appraisal
    /\ receipts \subseteq Receipt
    /\ vaultLock \in DOMAIN jobs \cup {None}
    /\ DOMAIN jobs \subseteq Workers /\ jobs \in [DOMAIN jobs -> Job]
    /\ lastId \in 0..MaxAppraisals
    /\ attached \in [Intakes -> SUBSET Photos]
    /\ clashes \subseteq Intakes

Init ==
    /\ intakes = <<>>
    /\ appraisals = {}
    /\ receipts = {}
    /\ vaultLock = None
    /\ jobs = <<>>
    /\ lastId = 0
    /\ attached = [i \in Intakes |-> {}]
    /\ clashes = {}

-----------------------------------------------------------------------------
Fresh == [evidence |-> {}, sealNumber |-> None, status |-> "DRAFT",
          sealedHash |-> None, version |-> 0]

BeginIntake(i) ==
    /\ i \notin DOMAIN intakes
    /\ intakes' = [j \in DOMAIN intakes \cup {i} |->
                      IF j = i THEN Fresh ELSE intakes[j]]
    /\ UNCHANGED <<appraisals, receipts, vaultLock, jobs, lastId, attached, clashes>>

-----------------------------------------------------------------------------
Idle(w) == w \notin DOMAIN jobs

At(w, step) == ~Idle(w) /\ jobs[w].next = step

Has(w, operation, step) == At(w, step) /\ jobs[w].operation = operation

IsSealed(record) == record.status = "SEALED"

(* The first statement of every request reads the intake's row.              *)
Start(w, operation, i, step, written, appraisal) ==
    /\ Idle(w)
    /\ jobs' = [v \in DOMAIN jobs \cup {w} |->
                   IF v = w
                   THEN [operation |-> operation, next |-> step, intake |-> i,
                         record |-> intakes[i], written |-> written,
                         appraisal |-> appraisal]
                   ELSE jobs[v]]

Continue(w, step) == jobs' = [jobs EXCEPT ![w].next = step]

(* Variant: the lock outlives the transaction.                              *)
FinishLocked(w) ==
    /\ jobs' = [v \in DOMAIN jobs \ {w} |-> jobs[v]]
    /\ UNCHANGED vaultLock

(* The request ends; its locks go with its transaction.                     *)
Finish(w) ==
    /\ jobs' = [v \in DOMAIN jobs \ {w} |-> jobs[v]]
    /\ vaultLock' = IF vaultLock = w THEN None ELSE vaultLock

(* Variant: the update names the row alone, not the version that was read.   *)
AnyVersion(w) == TRUE

SameVersion(w) == intakes[jobs[w].intake].version = jobs[w].record.version

(* The optimistic save: the row, whole, or StaleIntakeVersionError.          *)
Save(w) ==
    IF SameVersion(w)
    THEN intakes' = [intakes EXCEPT ![jobs[w].intake] =
                        [jobs[w].written EXCEPT !.version = jobs[w].record.version + 1]]
    ELSE UNCHANGED intakes

-----------------------------------------------------------------------------
(* Photographs and the seal number.                                         *)
ReadToAttach(w, i, photo) ==
    /\ ~IsSealed(intakes[i])
    /\ Start(w, "attach_photo", i, "write",
             [intakes[i] EXCEPT !.evidence = @ \cup {photo}], None)
    /\ UNCHANGED <<intakes, appraisals, receipts, vaultLock, lastId, attached, clashes>>

ReadToUpdate(w, i, sealNumber) ==
    /\ ~IsSealed(intakes[i])
    /\ Start(w, "update", i, "write",
             [intakes[i] EXCEPT !.sealNumber = sealNumber], None)
    /\ UNCHANGED <<intakes, appraisals, receipts, vaultLock, lastId, attached, clashes>>

(* The same save ends a sealing.                                            *)
WriteIntake(w) ==
    /\ At(w, "write")
    /\ jobs[w].operation \in {"attach_photo", "update", "seal"}
    /\ Save(w)
    /\ attached' = IF jobs[w].operation = "attach_photo" /\ SameVersion(w)
                   THEN [attached EXCEPT ![jobs[w].intake] =
                            @ \cup (jobs[w].written.evidence \ jobs[w].record.evidence)]
                   ELSE attached
    /\ Finish(w)
    /\ UNCHANGED <<appraisals, receipts, lastId, clashes>>

-----------------------------------------------------------------------------
(* Appraisals.  The identifier is generated before the row is inserted, and *)
(* nothing ties the insertion to the intake that was read.                  *)
ReadToAppraise(w, i, appraiser, value) ==
    /\ ~IsSealed(intakes[i])
    /\ lastId < MaxAppraisals
    /\ lastId' = lastId + 1
    /\ Start(w, "appraise", i, "write", intakes[i],
             [id |-> lastId', intake |-> i, appraiser |-> appraiser, value |-> value])
    /\ UNCHANGED <<intakes, appraisals, receipts, vaultLock, attached, clashes>>

InsertAppraisal(w) ==
    /\ Has(w, "appraise", "write")
    /\ appraisals' = appraisals \cup {jobs[w].appraisal}
    /\ Finish(w)
    /\ UNCHANGED <<intakes, receipts, lastId, attached, clashes>>

AppraisalsOf(i) == {a \in appraisals : a.intake = i}

(* At or above the threshold two appraisers must have valued the item.       *)
HasSufficientAppraisals(rows) ==
    /\ rows # {}
    /\ Max({a.value : a \in rows}) >= DualAppraisalThreshold =>
         Cardinality({a.appraiser : a \in rows}) >= 2

-----------------------------------------------------------------------------
(* Sealing: the record, then its appraisals, are read; then it is saved.     *)
ReadToSeal(w, i) ==
    /\ ~IsSealed(intakes[i])
    /\ intakes[i].evidence # {}
    /\ intakes[i].sealNumber # None
    /\ Start(w, "seal", i, "list",
             [intakes[i] EXCEPT !.status = "SEALED",
                                !.sealedHash = [intake     |-> i,
                                                evidence   |-> intakes[i].evidence,
                                                sealNumber |-> intakes[i].sealNumber]],
             None)
    /\ UNCHANGED <<intakes, appraisals, receipts, vaultLock, lastId, attached, clashes>>

ListToSeal(w) ==
    /\ Has(w, "seal", "list")
    /\ IF HasSufficientAppraisals(AppraisalsOf(jobs[w].intake))
       THEN Continue(w, "write") /\ UNCHANGED vaultLock
       ELSE Finish(w)
    /\ UNCHANGED <<intakes, appraisals, receipts, lastId, attached, clashes>>

-----------------------------------------------------------------------------
(* Issuing.  The receipt takes the value of the last appraisal by identifier. *)
ReadToIssue(w, i) ==
    /\ IsSealed(intakes[i])
    /\ Start(w, "issue", i, "list", intakes[i], None)
    /\ UNCHANGED <<intakes, appraisals, receipts, vaultLock, lastId, attached, clashes>>

ListToIssue(w) ==
    /\ Has(w, "issue", "list")
    /\ LET rows == AppraisalsOf(jobs[w].intake) IN
       IF rows = {}
       THEN Finish(w)
       ELSE /\ jobs' = [jobs EXCEPT
                           ![w].next = "lock",
                           ![w].appraisal = CHOOSE a \in rows : \A b \in rows : b.id <= a.id]
            /\ UNCHANGED vaultLock
    /\ UNCHANGED <<intakes, appraisals, receipts, lastId, attached, clashes>>

(* Variant: the vault's row is read without locking it.                     *)
LookAtVault(w) ==
    /\ Has(w, "issue", "lock")
    /\ Continue(w, "check")
    /\ UNCHANGED <<intakes, appraisals, receipts, vaultLock, lastId, attached, clashes>>

LockVault(w) ==
    /\ Has(w, "issue", "lock")
    /\ vaultLock = None
    /\ vaultLock' = w
    /\ Continue(w, "check")
    /\ UNCHANGED <<intakes, appraisals, receipts, lastId, attached, clashes>>

(* Variant: a receipt is found again only while it is live.                 *)
LiveReceiptsOf(hash) == {r \in receipts : r.intakeRecordHash = hash /\ r.live}

ReceiptsOf(hash) == {r \in receipts : r.intakeRecordHash = hash}

Exposure == SumOver({r \in receipts : r.live}, [r \in receipts |-> r.appraisedValue])

WithinInsuredLimit(value) == Exposure + value <= InsuredLimit

(* A repeat is answered with the receipt there is; an issue over the limit  *)
(* is refused.                                                              *)
CheckExposure(w) ==
    /\ Has(w, "issue", "check")
    /\ IF /\ ReceiptsOf(jobs[w].record.sealedHash) = {}
          /\ WithinInsuredLimit(jobs[w].appraisal.value)
       THEN Continue(w, "write") /\ UNCHANGED vaultLock
       ELSE Finish(w)
    /\ UNCHANGED <<intakes, appraisals, receipts, lastId, attached, clashes>>

(* The unique index on the hash is the last line of defence.                *)
Indexed(hash) == \E r \in receipts : r.intakeRecordHash = hash

InsertReceipt(w) ==
    /\ Has(w, "issue", "write")
    /\ LET hash == jobs[w].record.sealedHash IN
       IF Indexed(hash)
       THEN clashes' = clashes \cup {jobs[w].intake} /\ UNCHANGED receipts
       ELSE /\ receipts' = receipts \cup
                 {[intakeRecordHash |-> hash,
                   appraisedValue |-> jobs[w].appraisal.value, live |-> TRUE]}
            /\ UNCHANGED clashes
    /\ Finish(w)
    /\ UNCHANGED <<intakes, appraisals, lastId, attached>>

(* A receipt is burned, by a redemption or a sale: neither locks the vault.  *)
Burn(r) ==
    /\ r.live
    /\ receipts' = (receipts \ {r}) \cup {[r EXCEPT !.live = FALSE]}
    /\ UNCHANGED <<intakes, appraisals, vaultLock, jobs, lastId, attached, clashes>>

(* The process dies or a statement fails: the transaction is rolled back.    *)
Abort(w) ==
    /\ ~Idle(w)
    /\ Finish(w)
    /\ UNCHANGED <<intakes, appraisals, receipts, lastId, attached, clashes>>

-----------------------------------------------------------------------------
(* A request whose intake is not there, or is rejected on reading it, has no *)
(* step.                                                                    *)
Writable(i) == i \in DOMAIN intakes /\ intakes[i].version < MaxVersion

Read(w, i) ==
    \/ Writable(i) /\ \E photo \in Photos : ReadToAttach(w, i, photo)
    \/ Writable(i) /\ \E sealNumber \in Seals : ReadToUpdate(w, i, sealNumber)
    \/ Writable(i) /\ ReadToSeal(w, i)
    \/ i \in DOMAIN intakes /\ \E appraiser \in Appraisers, value \in Values :
                                  ReadToAppraise(w, i, appraiser, value)
    \/ i \in DOMAIN intakes /\ ReadToIssue(w, i)

Next ==
    \/ \E i \in Intakes : BeginIntake(i)
    \/ \E w \in Workers, i \in Intakes : Read(w, i)
    \/ \E w \in Workers :
          \/ WriteIntake(w) \/ InsertAppraisal(w) \/ ListToSeal(w)
          \/ ListToIssue(w) \/ LockVault(w) \/ CheckExposure(w) \/ InsertReceipt(w)
          \/ Abort(w)
    \/ \E r \in receipts : Burn(r)

Spec == Init /\ [][Next]_vars
-----------------------------------------------------------------------------
(* Once sealed, a record is never written again, not even by a request that  *)
(* read it as a draft before the sealing: what the hash commits is what the  *)
(* row holds.                                                               *)
SealedForGood ==
    [][\A i \in DOMAIN intakes : IsSealed(intakes[i]) => intakes'[i] = intakes[i]]_vars

(* A photograph whose upload was acknowledged stays in the evidence, although *)
(* every save writes the whole row from an earlier read.                     *)
AttachedIsKept ==
    \A i \in DOMAIN intakes : attached[i] \subseteq intakes[i].evidence

(* Rule C5: what the live receipts of the vault are worth never exceeds what *)
(* it is insured for, however many receipts are issued at a time.            *)
ExposureWithinLimit == Exposure <= InsuredLimit

(* A repeated or racing issue is answered with the receipt and never gets as *)
(* far as the unique index: an intake has one receipt, ever.                 *)
RepeatsReplay == clashes = {}

-----------------------------------------------------------------------------
(* docs/10-flows.md, flow 1 step 5: at or above the threshold a second       *)
(* independent appraisal is required before sealing.  Then no receipt is     *)
(* issued at such a value on the word of one appraiser.                     *)
DualAppraised ==
    \A r \in receipts :
        r.appraisedValue >= DualAppraisalThreshold =>
            Cardinality({a.appraiser : a \in AppraisalsOf(r.intakeRecordHash.intake)}) >= 2
=============================================================================
