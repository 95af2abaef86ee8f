-------------------------- MODULE LedgerMasterProofs --------------------------
(***************************************************************************)
(* Proofs about LedgerMaster, for every tree of ledgers, every set of      *)
(* validators, every quorum and gap.                                       *)
(***************************************************************************)
EXTENDS LedgerMaster, FiniteSetTheorems, SequenceTheorems, TLAPS

USE ZenonT(10), SMTT(30)

-----------------------------------------------------------------------------
(* Ledgers and their histories *)

LEMMA SeqOfType ==
    /\ SeqOf(None) = 0
    /\ \A l \in Ledger : SeqOf(l) \in Nat \ {0} /\ SeqOf(l) = Len(Chain[l])
    /\ \A l \in Ledgers : SeqOf(l) \in Nat
<1>1. ASSUME NEW l \in Ledger
      PROVE  l # None /\ Chain[l] \in Seq(Ledger) /\ Len(Chain[l]) >= 1
  BY ChainAssumption
<1>2. ASSUME NEW l \in Ledger
      PROVE  SeqOf(l) \in Nat \ {0} /\ SeqOf(l) = Len(Chain[l])
  <2>1. Len(Chain[l]) \in Nat
    BY <1>1
  <2>2. SeqOf(l) = Len(Chain[l])
    BY <1>1 DEF SeqOf
  <2> QED BY <1>1, <2>1, <2>2
<1>3. SeqOf(None) = 0
  BY DEF SeqOf
<1> QED BY <1>2, <1>3 DEF Ledgers

\* A ledger's history has a ledger at every sequence up to its own.
LEMMA ChainSeq ==
    ASSUME NEW l \in Ledger, NEW n \in 1 .. SeqOf(l)
    PROVE  Chain[l][n] \in Ledger /\ SeqOf(Chain[l][n]) = n
<1>1. Chain[l] \in Seq(Ledger) /\ SeqOf(l) = Len(Chain[l])
  BY ChainAssumption, SeqOfType
<1>2. Chain[l][n] \in Ledger
  BY <1>1
<1>3. Chain[Chain[l][n]] = SubSeq(Chain[l], 1, n)
  BY <1>1, ChainAssumption
<1>4. Len(SubSeq(Chain[l], 1, n)) = n
  BY <1>1
<1> QED BY <1>2, <1>3, <1>4, SeqOfType

LEMMA ChainSelf ==
    ASSUME NEW l \in Ledger
    PROVE  SeqOf(l) \in 1 .. SeqOf(l) /\ Chain[l][SeqOf(l)] = l
<1>1. SeqOf(l) = Len(Chain[l]) /\ SeqOf(l) \in Nat \ {0}
  BY SeqOfType
<1>2. Chain[l][Len(Chain[l])] = l
  BY ChainAssumption
<1> QED BY <1>1, <1>2

LEMMA NonEmpty ==
    ASSUME NEW S, NEW q \in Seq(S), Len(q) # 0
    PROVE  q # <<>> /\ Head(q) = q[1]
OBVIOUS

\* t is a run of consecutive ledgers of l's history that starts at sequence a.
Run(t, l, a) ==
    /\ t \in Seq(Ledger) /\ t # <<>> /\ SeqOf(Head(t)) = a
    /\ \A i \in 1 .. Len(t) : /\ (a + i) - 1 \in 1 .. SeqOf(l)
                              /\ t[i] = Chain[l][(a + i) - 1]
                              /\ SeqOf(t[i]) <= SeqOf(l)
    /\ \A i \in 1 .. Len(t) - 1 : SeqOf(t[i + 1]) = SeqOf(t[i]) + 1

LEMMA HistoryPart ==
    ASSUME NEW l \in Ledger, NEW a \in Nat \ {0}, NEW b \in Nat, a <= b, b <= SeqOf(l)
    PROVE  Run(SubSeq(Chain[l], a, b), l, a)
<1> DEFINE t == SubSeq(Chain[l], a, b)
<1>1. Chain[l] \in Seq(Ledger) /\ SeqOf(l) = Len(Chain[l]) /\ SeqOf(l) \in Nat
  BY ChainAssumption, SeqOfType
<1>2. /\ t \in Seq(Ledger) /\ Len(t) = (b - a) + 1
      /\ \A i \in 1 .. Len(t) : t[i] = Chain[l][(a + i) - 1]
  BY <1>1
<1> HIDE DEF t
<1>3. Len(t) \in Nat \ {0} /\ t # <<>> /\ Head(t) = t[1]
  <2>1. (b - a) + 1 \in Nat \ {0}
    OBVIOUS
  <2>2. Len(t) \in Nat \ {0} /\ Len(t) # 0
    BY <1>2, <2>1
  <2> QED BY <1>2, <2>2, NonEmpty
<1>4. \A i \in 1 .. Len(t) : (a + i) - 1 \in 1 .. SeqOf(l)
  <2>1. \A n \in Nat, i \in 1 .. (b - a) + 1 : b <= n => (a + i) - 1 \in 1 .. n
    OBVIOUS
  <2> QED BY <1>1, <1>2, <2>1
<1>5. \A i \in 1 .. Len(t) : SeqOf(t[i]) = (a + i) - 1
  BY <1>2, <1>4, ChainSeq
<1>6. \A i \in 1 .. Len(t) - 1 : SeqOf(t[i + 1]) = SeqOf(t[i]) + 1
  <2> SUFFICES ASSUME NEW i \in 1 .. Len(t) - 1
               PROVE  SeqOf(t[i + 1]) = SeqOf(t[i]) + 1
    OBVIOUS
  <2>1. i \in 1 .. Len(t) /\ i + 1 \in 1 .. Len(t) /\ i \in Nat
    BY <1>3
  <2>2. SeqOf(t[i]) = (a + i) - 1 /\ SeqOf(t[i + 1]) = (a + (i + 1)) - 1
    BY <1>5, <2>1
  <2> QED BY <2>1, <2>2
<1>7. SeqOf(t[1]) = a
  <2>1. 1 \in 1 .. Len(t) /\ (a + 1) - 1 = a
    BY <1>3
  <2> QED BY <1>5, <2>1
<1>8. \A i \in 1 .. Len(t) : SeqOf(t[i]) <= SeqOf(l)
  BY <1>1, <1>4, <1>5
<1>9. SeqOf(Head(t)) = a
  BY <1>3, <1>7
<1>10. Run(t, l, a)
  BY <1>2, <1>3, <1>4, <1>6, <1>8, <1>9 DEF Run
<1> QED BY <1>10 DEF t

-----------------------------------------------------------------------------
(* The quorum *)

LEMMA CountType ==
    ASSUME TypeOK, NEW l \in Ledger
    PROVE  getTrustedValidationCount(l) \in Nat
<1>1. sets[l] \subseteq Validator
  BY DEF TypeOK
<1> QED BY <1>1, FS_Subset, FS_CardinalityType, ValidatorAssumption
        DEF getTrustedValidationCount

LEMMA NeededType ==
    ASSUME TypeOK
    PROVE  getNeededValidations \in Nat /\ getNeededValidations >= MinValidations
<1> DEFINE val == IF last = None THEN 0
                  ELSE (getTrustedValidationCount(last) * 150) \div 256
<1>1. val \in Nat
  <2>1. CASE last = None
    BY <2>1
  <2>2. CASE last # None
    <3>1. getTrustedValidationCount(last) \in Nat
      BY <2>2, CountType DEF TypeOK, Ledgers
    <3> HIDE DEF getTrustedValidationCount
    <3>2. \A c \in Nat : (c * 150) \div 256 \in Nat
      OBVIOUS
    <3> QED BY <2>2, <3>1, <3>2
  <2> QED BY <2>1, <2>2
<1>2. getNeededValidations = IF val > MinValidations THEN val ELSE MinValidations
  BY DEF getNeededValidations
<1> HIDE DEF val
<1> QED BY <1>1, <1>2, ValidatorAssumption

\* What checkAccept does to the ledgers we point to.
LEMMA setMarksMoves ==
    ASSUME TypeOK, NEW l \in Ledger, setMarks(l)
    PROVE  /\ valid' \in Ledgers /\ last' \in Ledgers /\ pub' \in Ledgers
           /\ \/ UNCHANGED <<valid, last, pub>>
              \/ /\ valid' = l /\ last' = l /\ Quorum(l)
                 /\ SeqOf(l) > SeqOf(valid)
                 /\ pub' = IF pub = None THEN l ELSE pub
<1>1. CASE ~accepts(l)
  BY <1>1 DEF setMarks, TypeOK
<1>2. CASE accepts(l)
  <2>1. getTrustedValidationCount(l) >= MinValidations
    BY <1>2, CountType, NeededType, ValidatorAssumption DEF accepts
  <2> QED BY <1>2, <2>1 DEF setMarks, TypeOK, accepts, Quorum, Ledgers
<1> QED BY <1>1, <1>2

-----------------------------------------------------------------------------
(* Types *)

LEMMA InitType == Init => TypeOK
<1> SUFFICES ASSUME Init PROVE TypeOK
  OBVIOUS
<1>1. closed \in Ledger /\ valid \in Ledgers /\ pub \in Ledgers /\ None \in Ledgers
  BY DEF Init, Ledgers
<1>2. NoVotes \in [Validator -> Ledgers]
  BY <1>1 DEF NoVotes
<1>3. job \in [Validator -> [pc : {"idle", "check", "accept"}, ledger : Ledgers]]
  BY <1>1 DEF Init, Idle
<1>4. round \in [pc : {"idle", "building", "built", "accept", "look", "pick",
                       "check", "recheck", "push"},
                 ledger : Ledgers, seen : [Validator -> Ledgers], found : Ledgers]
  BY <1>1, <1>2 DEF Init
<1>5. /\ published \in Seq(Ledger)
      /\ adv \in [pc : {"idle", "queued", "find", "publish", "published", "history"},
                  work : BOOLEAN, todo : Seq(Ledger), target : Ledgers, threw : BOOLEAN]
  BY <1>1 DEF Init
<1> QED BY <1>1, <1>2, <1>3, <1>4, <1>5 DEF Init, TypeOK

LEMMA acquireType ==
    ASSUME TypeOK, NEW L \in SUBSET Ledger, acquire(L)
    PROVE  have' \subseteq Ledger /\ wanted' \subseteq Ledger
BY DEF TypeOK, acquire

LEMMA tryAdvanceType ==
    ASSUME TypeOK, tryAdvance
    PROVE  adv' \in [pc : {"idle", "queued", "find", "publish", "published", "history"},
                     work : BOOLEAN, todo : Seq(Ledger), target : Ledgers, threw : BOOLEAN]
BY DEF TypeOK, tryAdvance

LEMMA checkAcceptType ==
    ASSUME TypeOK, NEW l \in Ledger, checkAccept(l)
    PROVE  /\ valid' \in Ledgers /\ last' \in Ledgers /\ pub' \in Ledgers
           /\ adv' \in [pc : {"idle", "queued", "find", "publish", "published", "history"},
                        work : BOOLEAN, todo : Seq(Ledger), target : Ledgers, threw : BOOLEAN]
<1>1. valid' \in Ledgers /\ last' \in Ledgers /\ pub' \in Ledgers
  BY setMarksMoves DEF checkAccept
<1>2. CASE accepts(l)
  BY <1>1, <1>2, tryAdvanceType DEF checkAccept
<1>3. CASE ~accepts(l)
  BY <1>1, <1>3 DEF checkAccept, TypeOK
<1> QED BY <1>2, <1>3

\* What the pending calls of the jobs and of the consensus thread refer to.
Pending ==
    /\ \A v \in Validator : job[v].pc # "idle" => job[v].ledger \in Ledger
    /\ round.pc \notin {"idle", "building"} => round.ledger \in Ledger
    /\ round.pc \in {"check", "recheck"} => round.found \in Ledger

Typed == TypeOK /\ Pending

LEMMA JobsTyped ==
    ASSUME Typed, NEW v \in Validator, CheckValidated(v) \/ AcceptValidated(v)
    PROVE  Typed'
<1> DEFINE JobType == [pc : {"idle", "check", "accept"}, ledger : Ledgers]
<1>1. Idle \in JobType /\ Idle.pc = "idle"
  BY DEF Idle, Ledgers
<1>2. job[v] \in JobType /\ (job[v].pc # "idle" => job[v].ledger \in Ledger)
  BY DEF Typed, TypeOK, Pending
<1>3. ASSUME NEW j \in JobType, j.pc # "idle" => j.ledger \in Ledger,
             job' = [job EXCEPT ![v] = j]
      PROVE  /\ job' \in [Validator -> JobType]
             /\ \A w \in Validator : job'[w].pc # "idle" => job'[w].ledger \in Ledger
  <2>1. job \in [Validator -> JobType]
    BY DEF Typed, TypeOK
  <2>2. \A w \in Validator : job'[w] = IF w = v THEN j ELSE job[w]
    BY <1>3, <2>1
  <2>3. \A w \in Validator : job[w].pc # "idle" => job[w].ledger \in Ledger
    BY DEF Typed, Pending
  <2>4. job' \in [Validator -> JobType]
    BY <1>3, <2>1
  <2> QED BY <1>3, <2>2, <2>3, <2>4
<1>4. CASE CheckValidated(v)
  <2>1. job[v].ledger \in Ledger /\ [job[v] EXCEPT !.pc = "accept"] \in JobType
        /\ [job[v] EXCEPT !.pc = "accept"].ledger = job[v].ledger
    BY <1>2, <1>4 DEF CheckValidated
  <2>2. /\ have' \subseteq Ledger /\ wanted' \subseteq Ledger
        /\ \/ job' = [job EXCEPT ![v] = Idle]
           \/ job' = [job EXCEPT ![v] = [job[v] EXCEPT !.pc = "accept"]]
    BY <1>4, <2>1, acquireType DEF CheckValidated, checkAcceptHash, Typed, TypeOK
  <2>3. /\ job' \in [Validator -> JobType]
        /\ \A w \in Validator : job'[w].pc # "idle" => job'[w].ledger \in Ledger
    BY <1>1, <1>3, <2>1, <2>2
  <2> QED BY <1>4, <2>2, <2>3
          DEF CheckValidated, Typed, TypeOK, Pending, validations, consensus, marks
<1>5. CASE AcceptValidated(v)
  <2>1. /\ job' \in [Validator -> JobType]
        /\ \A w \in Validator : job'[w].pc # "idle" => job'[w].ledger \in Ledger
    BY <1>1, <1>3, <1>5 DEF AcceptValidated
  <2>2. job[v].ledger \in Ledger
    BY <1>2, <1>5 DEF AcceptValidated
  <2>3. /\ valid' \in Ledgers /\ last' \in Ledgers /\ pub' \in Ledgers
        /\ adv' \in [pc : {"idle", "queued", "find", "publish", "published", "history"},
                     work : BOOLEAN, todo : Seq(Ledger), target : Ledgers, threw : BOOLEAN]
    BY <1>5, <2>2, checkAcceptType DEF AcceptValidated, Typed
  <2> QED BY <1>5, <2>1, <2>3
          DEF AcceptValidated, Typed, TypeOK, Pending, validations, ledgers, consensus
<1> QED BY <1>4, <1>5

LEMMA addValidationTyped ==
    ASSUME Typed, NEW v \in Validator, NEW l \in Signed, addValidation(v, l)
    PROVE  Typed'
<1> DEFINE JobType == [pc : {"idle", "check", "accept"}, ledger : Ledgers]
<1> DEFINE newer == SeqOf(l) > SeqOf(current[v])
<1> DEFINE j == IF newer THEN [pc |-> "check", ledger |-> l] ELSE Idle
<1>1. l \in Ledger /\ l \in Ledgers
  BY ValidatorAssumption DEF Ledgers
<1>2. j \in JobType /\ (j.pc # "idle" => j.ledger \in Ledger)
  BY <1>1 DEF Idle, Ledgers
<1>3. job' = [job EXCEPT ![v] = j]
  BY DEF addValidation
<1>4. job \in [Validator -> JobType]
  BY DEF Typed, TypeOK
<1>5. job' \in [Validator -> JobType]
  <2> HIDE DEF j, JobType
  <2> QED BY <1>2, <1>3, <1>4
<1>6. \A w \in Validator : job'[w].pc # "idle" => job'[w].ledger \in Ledger
  <2>1. \A w \in Validator : job[w].pc # "idle" => job[w].ledger \in Ledger
    BY DEF Typed, Pending
  <2> HIDE DEF j, JobType
  <2> QED BY <1>2, <1>3, <1>4, <2>1
<1>7. sets' \in [Ledger -> SUBSET Validator] /\ current' \in [Validator -> Ledgers]
  <2>1. sets' = [sets EXCEPT ![l] = sets[l] \cup {v}]
    BY DEF addValidation
  <2>2. current' = [current EXCEPT ![v] = IF newer THEN l ELSE current[v]]
    BY DEF addValidation
  <2> HIDE DEF newer
  <2> QED BY <1>1, <2>1, <2>2 DEF Typed, TypeOK
<1> QED BY <1>5, <1>6, <1>7
        DEF addValidation, Typed, TypeOK, Pending, ledgers, consensus, marks

LEMMA AcquiredTyped ==
    ASSUME Typed, NEW l \in Ledger,
           LedgerAcquired(l) \/ LADispatch(l) \/ switchLedgers(l)
    PROVE  Typed'
<1>1. CASE LedgerAcquired(l)
  BY <1>1 DEF LedgerAcquired, Typed, TypeOK, Pending, validations, consensus, marks
<1>2. CASE LADispatch(l)
  <2>1. valid' \in Ledgers /\ last' \in Ledgers /\ pub' \in Ledgers
    BY <1>2, setMarksMoves DEF LADispatch, Typed
  <2>2. adv' \in [pc : {"idle", "queued", "find", "publish", "published", "history"},
                  work : BOOLEAN, todo : Seq(Ledger), target : Ledgers, threw : BOOLEAN]
    BY <1>2, tryAdvanceType DEF LADispatch, Typed
  <2> QED BY <1>2, <2>1, <2>2
          DEF LADispatch, Typed, TypeOK, Pending, validations, consensus
<1>3. CASE switchLedgers(l)
  <2>1. /\ valid' \in Ledgers /\ last' \in Ledgers /\ pub' \in Ledgers
        /\ adv' \in [pc : {"idle", "queued", "find", "publish", "published", "history"},
                     work : BOOLEAN, todo : Seq(Ledger), target : Ledgers, threw : BOOLEAN]
    BY <1>3, checkAcceptType DEF switchLedgers, Typed
  <2> QED BY <1>3, <2>1
          DEF switchLedgers, Typed, TypeOK, Pending, validations, ledgers
<1> QED BY <1>1, <1>2, <1>3

LEMMA ConsensusTyped ==
    ASSUME Typed,
           \/ setBuildingLedger
           \/ \E l \in Ledger : storeLedger(l)
           \/ consensusBuilt \/ AcceptBuilt \/ getCurrentTrustedValidations
           \/ PickLedger \/ CheckFound \/ AcceptFound \/ pushLedger
    PROVE  Typed'
<1> DEFINE PCs == {"idle", "building", "built", "accept", "look", "pick",
                   "check", "recheck", "push"}
<1> DEFINE RoundType == [pc : PCs, ledger : Ledgers, seen : [Validator -> Ledgers],
                         found : Ledgers]
<1> DEFINE RoundOK(rd) == /\ rd \in RoundType
                          /\ rd.pc \notin {"idle", "building"} => rd.ledger \in Ledger
                          /\ rd.pc \in {"check", "recheck"} => rd.found \in Ledger
<1>1. RoundOK(round) /\ current \in [Validator -> Ledgers] /\ closed \in Ledger
  BY DEF Typed, TypeOK, Pending
<1>2. None \in Ledgers /\ Ledger \subseteq Ledgers /\ NoVotes \in [Validator -> Ledgers]
  BY DEF Ledgers, NoVotes
<1>3. CASE setBuildingLedger
  <2>1. RoundOK(round')
    BY <1>1, <1>3 DEF setBuildingLedger
  <2>2. building' \in Nat
    BY <1>1, <1>3, SeqOfType DEF setBuildingLedger
  <2> QED BY <1>3, <2>1, <2>2
          DEF setBuildingLedger, Typed, TypeOK, Pending, validations, ledgers, marks
<1>4. ASSUME NEW l \in Ledger, storeLedger(l) PROVE Typed'
  <2>1. RoundOK(round')
    BY <1>1, <1>2, <1>4 DEF storeLedger
  <2> QED BY <1>4, <2>1 DEF storeLedger, Typed, TypeOK, Pending, validations, marks
<1>5. CASE consensusBuilt
  <2>1. RoundOK(round')
    BY <1>1, <1>5 DEF consensusBuilt
  <2> QED BY <1>5, <2>1
          DEF consensusBuilt, Typed, TypeOK, Pending, validations, ledgers, marks
<1>6. CASE AcceptBuilt
  <2>1. RoundOK(round') /\ round.ledger \in Ledger
    BY <1>1, <1>6 DEF AcceptBuilt
  <2>2. /\ valid' \in Ledgers /\ last' \in Ledgers /\ pub' \in Ledgers
        /\ adv' \in [pc : {"idle", "queued", "find", "publish", "published", "history"},
                     work : BOOLEAN, todo : Seq(Ledger), target : Ledgers, threw : BOOLEAN]
    BY <1>6, <2>1, checkAcceptType DEF AcceptBuilt, Typed
  <2> QED BY <1>6, <2>1, <2>2
          DEF AcceptBuilt, Typed, TypeOK, Pending, validations, ledgers
<1>7. CASE getCurrentTrustedValidations
  <2>1. RoundOK(round')
    BY <1>1, <1>7 DEF getCurrentTrustedValidations
  <2> QED BY <1>7, <2>1 DEF getCurrentTrustedValidations, Typed, TypeOK, Pending,
                            validations, ledgers, marks
<1>8. CASE PickLedger
  <2>1. enoughSeen \subseteq Ledger
    BY DEF enoughSeen
  <2>2. \/ round' = [round EXCEPT !.pc = "push", !.seen = NoVotes]
        \/ \E l \in Ledger :
              round' = [round EXCEPT !.pc = "check", !.seen = NoVotes, !.found = l]
    BY <1>8, <2>1 DEF PickLedger
  <2>3. RoundOK(round')
    BY <1>1, <1>2, <1>8, <2>2 DEF PickLedger
  <2> QED BY <1>8, <2>3
          DEF PickLedger, Typed, TypeOK, Pending, validations, ledgers, marks
<1>9. CASE CheckFound
  <2>1. RoundOK(round') /\ round.found \in Ledger
    BY <1>1, <1>9 DEF CheckFound, checkAcceptHash
  <2>2. have' \subseteq Ledger /\ wanted' \subseteq Ledger
    BY <1>9, <2>1, acquireType DEF CheckFound, checkAcceptHash, Typed, TypeOK
  <2> QED BY <1>9, <2>1, <2>2
          DEF CheckFound, Typed, TypeOK, Pending, validations, marks
<1>10. CASE AcceptFound
  <2>1. RoundOK(round') /\ round.found \in Ledger
    BY <1>1, <1>10 DEF AcceptFound
  <2>2. /\ valid' \in Ledgers /\ last' \in Ledgers /\ pub' \in Ledgers
        /\ adv' \in [pc : {"idle", "queued", "find", "publish", "published", "history"},
                     work : BOOLEAN, todo : Seq(Ledger), target : Ledgers, threw : BOOLEAN]
    BY <1>10, <2>1, checkAcceptType DEF AcceptFound, Typed
  <2> QED BY <1>10, <2>1, <2>2
          DEF AcceptFound, Typed, TypeOK, Pending, validations, ledgers
<1>11. CASE pushLedger
  <2>1. RoundOK(round') /\ round.ledger \in Ledger
    BY <1>1, <1>2, <1>11 DEF pushLedger
  <2> QED BY <1>11, <2>1
          DEF pushLedger, Typed, TypeOK, Pending, validations, ledgers, marks
<1> QED BY <1>3, <1>4, <1>5, <1>6, <1>7, <1>8, <1>9, <1>10, <1>11

-----------------------------------------------------------------------------
(* The inductive invariant *)

\* The published ledger does not run ahead of the validated one, and a server
\* whose validated ledger is still the one it started with has nothing to do.
Order ==
    /\ last # None => last = valid /\ Quorum(last)
    /\ valid # None => pub # None
    /\ adv.pc # "idle" => valid # None
    /\ SeqOf(pub) <= SeqOf(valid)
    /\ last = None => /\ SeqOf(pub) = SeqOf(valid)
                      /\ adv.pc \in {"idle", "queued", "history"}

\* The ledger findNewLedgersToPublish works towards.
Target ==
    adv.pc = "find" => /\ adv.target \in Ledger
                       /\ Quorum(adv.target)
                       /\ SeqOf(pub) < SeqOf(adv.target)
                       /\ SeqOf(adv.target) <= SeqOf(valid)

\* The ledgers doAdvance is about to publish.
Todo ==
    adv.pc \in {"publish", "published"} =>
        /\ adv.todo # <<>>
        /\ \A i \in 1 .. Len(adv.todo) :
              Confirmed(adv.todo[i]) /\ SeqOf(adv.todo[i]) <= SeqOf(valid)
        /\ \A i \in 1 .. Len(adv.todo) - 1 :
              SeqOf(adv.todo[i + 1]) = SeqOf(adv.todo[i]) + 1

\* Where the stream of published ledgers has got to.
Streaming ==
    ~adv.threw /\ published # <<>> =>
        /\ adv.pc = "publish" =>
              Follows(published[Len(published)], Head(adv.todo))
        /\ adv.pc = "published" => published[Len(published)] = Head(adv.todo)
        /\ adv.pc \notin {"publish", "published"} => published[Len(published)] = pub

Core ==
    /\ Order
    /\ Target
    /\ Todo
    /\ Streaming
    /\ PublishedValidated
    /\ PublishedStream

IInv == Typed /\ Core

\* A quorum is not lost, since validations are not removed.
LEMMA QuorumStays ==
    ASSUME TypeOK, sets' \in [Ledger -> SUBSET Validator],
           \A l \in Ledger : sets[l] \subseteq sets'[l]
    PROVE  /\ \A l \in Ledger : Quorum(l) => Quorum(l)'
           /\ \A x \in Ledger : Confirmed(x) => Confirmed(x)'
<1>1. ASSUME NEW l \in Ledger, Quorum(l) PROVE Quorum(l)'
  <2>1. sets'[l] \subseteq Validator /\ sets[l] \subseteq sets'[l]
    OBVIOUS
  <2>2. IsFiniteSet(sets'[l])
    BY <2>1, FS_Subset, ValidatorAssumption
  <2>3. /\ Cardinality(sets[l]) \in Nat /\ Cardinality(sets'[l]) \in Nat
        /\ Cardinality(sets[l]) <= Cardinality(sets'[l])
    BY <2>1, <2>2, FS_Subset, FS_CardinalityType
  <2> QED BY <1>1, <2>3, ValidatorAssumption DEF Quorum, getTrustedValidationCount
<1> QED BY <1>1 DEF Confirmed

\* A ledger with a quorum confirms its history.
LEMMA HistoryConfirmed ==
    ASSUME NEW l \in Ledger, Quorum(l), NEW n \in 1 .. SeqOf(l)
    PROVE  Confirmed(Chain[l][n])
<1>1. SeqOf(Chain[l][n]) = n
  BY ChainSeq
<1>2. SeqOf(l) \in Nat
  BY SeqOfType
<1> QED BY <1>1, <1>2 DEF Confirmed

\* Steps that leave the marks and the advance job alone.
LEMMA QuietCore ==
    ASSUME IInv, Typed',
           UNCHANGED <<marks, published>>,
           \A l \in Ledger : sets[l] \subseteq sets'[l]
    PROVE  Core'
<1> USE DEF IInv
<1>1. /\ UNCHANGED <<valid, last, pub, adv, published>>
  BY DEF marks
<1>2. /\ \A l \in Ledger : Quorum(l) => Quorum(l)'
      /\ \A x \in Ledger : Confirmed(x) => Confirmed(x)'
  BY QuorumStays DEF Typed, TypeOK
<1>3. Order'
  BY <1>1, <1>2 DEF Core, Order, Typed, TypeOK, Ledgers
<1>4. Target'
  BY <1>1, <1>2 DEF Core, Target
<1>5. Todo'
  <2>1. \A i \in 1 .. Len(adv.todo) : adv.todo[i] \in Ledger
    BY DEF Typed, TypeOK
  <2> QED BY <1>1, <1>2, <2>1 DEF Core, Todo
<1>6. PublishedValidated'
  <2>1. \A i \in 1 .. Len(published) : published[i] \in Ledger
    BY DEF Typed, TypeOK
  <2> QED BY <1>1, <1>2, <2>1 DEF Core, PublishedValidated
<1>7. Streaming' /\ PublishedStream'
  BY <1>1 DEF Core, Streaming, PublishedStream
<1> QED BY <1>3, <1>4, <1>5, <1>6, <1>7 DEF Core

\* Steps in which a thread decides about a ledger.
LEMMA AcceptCore ==
    ASSUME IInv, Typed', NEW l \in Ledger, setMarks(l),
           tryAdvance \/ UNCHANGED adv,
           UNCHANGED <<sets, published>>
    PROVE  Core'
<1> USE DEF IInv
<1>1. \/ UNCHANGED <<valid, last, pub>>
      \/ /\ valid' = l /\ last' = l /\ Quorum(l)
         /\ SeqOf(l) > SeqOf(valid)
         /\ pub' = IF pub = None THEN l ELSE pub
  BY setMarksMoves DEF Typed
<1>2. /\ adv'.todo = adv.todo /\ adv'.target = adv.target /\ adv'.threw = adv.threw
      /\ \/ adv'.pc = adv.pc
         \/ adv.pc = "idle" /\ adv'.pc = "queued" /\ valid' # None
  BY DEF tryAdvance, Typed, TypeOK
<1>3. \A x : (Quorum(x)' <=> Quorum(x)) /\ (Confirmed(x)' <=> Confirmed(x))
  BY DEF Quorum, Confirmed, getTrustedValidationCount
<1>4. /\ SeqOf(valid) \in Nat /\ SeqOf(valid') \in Nat /\ SeqOf(valid) <= SeqOf(valid')
      /\ SeqOf(pub) \in Nat /\ SeqOf(pub') \in Nat /\ l # None
      /\ l \in Ledger /\ SeqOf(l) \in Nat
  <2>1. valid \in Ledgers /\ valid' \in Ledgers /\ pub \in Ledgers /\ pub' \in Ledgers
    BY DEF Typed, TypeOK
  <2>2. l # None
    BY ChainAssumption
  <2>3. /\ SeqOf(valid) \in Nat /\ SeqOf(valid') \in Nat
        /\ SeqOf(pub) \in Nat /\ SeqOf(pub') \in Nat /\ SeqOf(l) \in Nat
    BY <2>1, SeqOfType
  <2> QED BY <1>1, <2>2, <2>3
<1>5. pub' = pub \/ (pub = None /\ valid = None /\ pub' = l /\ valid' = l)
  BY <1>1 DEF Core, Order
<1>6. Order'
  <2>1. CASE UNCHANGED <<valid, last, pub>>
    BY <1>2, <1>3, <2>1 DEF Core, Order
  <2>2. CASE /\ valid' = l /\ last' = l /\ Quorum(l)
             /\ SeqOf(l) > SeqOf(valid)
             /\ pub' = IF pub = None THEN l ELSE pub
    BY <1>2, <1>3, <1>4, <1>5, <2>2 DEF Core, Order
  <2> QED BY <1>1, <2>1, <2>2
<1>7. Target'
  <2>1. CASE adv.pc = "find"
    <3>1. pub' = pub /\ adv'.pc = "find"
      BY <1>2, <1>5, <2>1 DEF Core, Order
    <3>2. SeqOf(adv.target) \in Nat
      BY <2>1, SeqOfType DEF Core, Target
    <3> QED BY <1>2, <1>3, <1>4, <2>1, <3>1, <3>2 DEF Core, Target
  <2>2. CASE adv.pc # "find"
    BY <1>2, <2>2 DEF Target
  <2> QED BY <2>1, <2>2
<1>8. Todo'
  <2>1. \A i \in 1 .. Len(adv.todo) : SeqOf(adv.todo[i]) \in Nat
    <3>1. \A i \in 1 .. Len(adv.todo) : adv.todo[i] \in Ledger
      BY DEF Typed, TypeOK
    <3> QED BY <3>1, SeqOfType
  <2> QED BY <1>2, <1>3, <1>4, <2>1 DEF Core, Todo
<1>9. Streaming'
  <2>1. pub' = pub \/ published = <<>> \/ adv.threw
    <3>1. published # <<>> => published[Len(published)] \in Ledger
      BY DEF Typed, TypeOK
    <3>2. CASE pub = None /\ valid = None
      BY <3>1, <3>2, ChainAssumption DEF Core, Order, Streaming
    <3> QED BY <1>5, <3>2
  <2> QED BY <1>2, <2>1 DEF Core, Streaming
<1>10. PublishedValidated' /\ PublishedStream'
  BY <1>2, <1>3 DEF Core, PublishedValidated, PublishedStream
<1> QED BY <1>6, <1>7, <1>8, <1>9, <1>10 DEF Core

-----------------------------------------------------------------------------
(* The advance job *)

AdvType ==
    [pc : {"idle", "queued", "find", "publish", "published", "history"},
     work : BOOLEAN, todo : Seq(Ledger), target : Ledgers, threw : BOOLEAN]

\* The three ways to start an iteration of doAdvance: jump, look, or rest.
LEMMA LoopResult ==
    ASSUME TypeOK, valid \in Ledger, NEW p \in Ledger, Loop(p)
    PROVE  /\ adv' \in AdvType /\ pub' \in Ledger
           /\ adv'.threw = adv.threw /\ ~adv'.work
           /\ \/ /\ adv'.pc = "publish" /\ adv'.todo = <<valid>>
                 /\ pub' = valid /\ SeqOf(valid) > SeqOf(p) + MAX_LEDGER_GAP
              \/ /\ adv'.pc = "find" /\ adv'.target = valid
                 /\ pub' = p /\ SeqOf(valid) > SeqOf(p)
              \/ /\ adv'.pc \in {"idle", "history"}
                 /\ pub' = p /\ ~(SeqOf(valid) > SeqOf(p))
<1>1. p # None /\ valid \in Ledgers
  BY ChainAssumption DEF Ledgers
<1>2. <<valid>> \in Seq(Ledger) /\ <<>> \in Seq(Ledger)
  OBVIOUS
<1>3. adv \in AdvType
  BY DEF TypeOK, AdvType
<1>4. CASE SeqOf(valid) > SeqOf(p) + MAX_LEDGER_GAP
  <2>1. /\ pub' = valid
        /\ adv' = [adv EXCEPT !.work = FALSE, !.pc = "publish", !.todo = <<valid>>]
    BY <1>1, <1>4 DEF Loop
  <2> HIDE DEF Loop
  <2> QED BY <1>2, <1>3, <1>4, <2>1 DEF AdvType
<1>5. CASE ~(SeqOf(valid) > SeqOf(p) + MAX_LEDGER_GAP) /\ SeqOf(valid) > SeqOf(p)
  <2>1. /\ pub' = p
        /\ adv' = [adv EXCEPT !.work = FALSE, !.pc = "find", !.todo = <<>>,
                              !.target = valid]
    BY <1>1, <1>5 DEF Loop
  <2> QED BY <1>1, <1>2, <1>3, <1>5, <2>1 DEF AdvType
<1>6. CASE ~(SeqOf(valid) > SeqOf(p) + MAX_LEDGER_GAP) /\ ~(SeqOf(valid) > SeqOf(p))
  <2>1. pub' = p
    BY <1>1, <1>6 DEF Loop
  <2>2. PICK pc \in {"idle", "history"} :
              adv' = [adv EXCEPT !.work = FALSE, !.pc = pc, !.todo = <<>>]
    BY <1>1, <1>6 DEF Loop
  <2> QED BY <1>2, <1>3, <1>6, <2>1, <2>2 DEF AdvType
<1> QED BY <1>4, <1>5, <1>6

LEMMA LoopCore ==
    ASSUME IInv, valid \in Ledger, NEW p \in Ledger, Loop(p),
           SeqOf(p) <= SeqOf(valid), last = None => SeqOf(p) = SeqOf(valid),
           ~adv.threw /\ published # <<>> => published[Len(published)] = p,
           UNCHANGED <<sets, valid, last, published>>
    PROVE  Core'
<1> USE DEF IInv
<1>1. /\ adv' \in AdvType /\ pub' \in Ledger
      /\ adv'.threw = adv.threw /\ ~adv'.work
      /\ \/ /\ adv'.pc = "publish" /\ adv'.todo = <<valid>>
            /\ pub' = valid /\ SeqOf(valid) > SeqOf(p) + MAX_LEDGER_GAP
         \/ /\ adv'.pc = "find" /\ adv'.target = valid
            /\ pub' = p /\ SeqOf(valid) > SeqOf(p)
         \/ /\ adv'.pc \in {"idle", "history"}
            /\ pub' = p /\ ~(SeqOf(valid) > SeqOf(p))
  BY LoopResult DEF Typed
<1>2. \A x : (Quorum(x)' <=> Quorum(x)) /\ (Confirmed(x)' <=> Confirmed(x))
  BY DEF Quorum, Confirmed, getTrustedValidationCount
<1>3. /\ SeqOf(valid) \in Nat /\ SeqOf(p) \in Nat /\ MAX_LEDGER_GAP \in Nat
      /\ valid # None /\ p # None
  BY SeqOfType, ValidatorAssumption, ChainAssumption
<1>4. SeqOf(valid) > SeqOf(p) => last # None /\ last = valid /\ Quorum(valid)
  BY <1>3 DEF Core, Order
<1>5. Order'
  BY <1>1, <1>2, <1>3, <1>4 DEF Core, Order
<1>6. Target'
  BY <1>1, <1>2, <1>3, <1>4 DEF Target
<1>7. Todo'
  <2>1. CASE adv'.pc = "publish"
    <3>1. adv'.todo = <<valid>> /\ SeqOf(valid) > SeqOf(p)
      BY <1>1, <1>3, <2>1
    <3>2. Confirmed(valid)
      <4>1. Chain[valid][SeqOf(valid)] = valid
        BY ChainSelf
      <4> QED BY <1>3, <1>4, <3>1, <4>1 DEF Confirmed
    <3> QED BY <1>2, <1>3, <3>1, <3>2 DEF Todo
  <2>2. CASE adv'.pc # "publish"
    BY <1>1, <2>2 DEF Todo
  <2> QED BY <2>1, <2>2
<1>8. Streaming'
  BY <1>1, <1>3 DEF Streaming, Follows
<1>9. PublishedValidated' /\ PublishedStream'
  BY <1>1, <1>2 DEF Core, PublishedValidated, PublishedStream
<1> QED BY <1>5, <1>6, <1>7, <1>8, <1>9 DEF Core

LEMMA advanceThreadCore ==
    ASSUME IInv, advanceThread
    PROVE  IInv'
<1> USE DEF IInv
<1>1. valid \in Ledger /\ pub \in Ledger
  BY DEF advanceThread, Core, Order, Typed, TypeOK, Ledgers
<1>2. Core'
  BY <1>1, LoopCore DEF advanceThread, Core, Order, Streaming, validations
<1>3. Typed'
  BY <1>1, LoopResult DEF advanceThread, Typed, TypeOK, Pending, AdvType, Ledgers,
                          validations, ledgers, consensus
<1> QED BY <1>2, <1>3

LEMMA pubLedgerCore ==
    ASSUME IInv, pubLedger
    PROVE  IInv'
<1> USE DEF IInv
<1> DEFINE n == Len(published)
<1>1. /\ adv.todo \in Seq(Ledger) /\ adv.todo # <<>> /\ Head(adv.todo) \in Ledger
      /\ Head(adv.todo) = adv.todo[1] /\ 1 \in 1 .. Len(adv.todo)
  BY DEF pubLedger, Core, Todo, Typed, TypeOK
<1>2. /\ adv' = [adv EXCEPT !.pc = "published"]
      /\ UNCHANGED <<sets, valid, last, pub>>
      /\ published' = Append(published, Head(adv.todo))
  BY DEF pubLedger, validations
<1>3. /\ adv'.pc = "published" /\ adv'.todo = adv.todo /\ adv'.threw = adv.threw
      /\ adv' \in AdvType
  BY <1>2 DEF Typed, TypeOK, AdvType
<1>4. \A x : (Quorum(x)' <=> Quorum(x)) /\ (Confirmed(x)' <=> Confirmed(x))
  BY <1>2 DEF Quorum, Confirmed, getTrustedValidationCount
<1>5. /\ published' \in Seq(Ledger) /\ Len(published') = n + 1 /\ n \in Nat
      /\ published'[n + 1] = adv.todo[1]
      /\ \A i \in 1 .. n : published'[i] = published[i]
  BY <1>1, <1>2 DEF Typed, TypeOK
<1>6. Typed'
  BY <1>3, <1>5 DEF pubLedger, Typed, TypeOK, Pending, AdvType,
                    validations, ledgers, consensus
<1>7. Order' /\ Target' /\ Todo'
  BY <1>2, <1>3, <1>4 DEF pubLedger, Core, Order, Target, Todo
<1>8. PublishedValidated'
  BY <1>1, <1>4, <1>5 DEF pubLedger, Core, Todo, PublishedValidated
<1>9. Streaming'
  BY <1>1, <1>3, <1>5 DEF Streaming
<1>10. PublishedStream'
  <2> SUFFICES ASSUME ~adv.threw, NEW i \in 1 .. n
               PROVE  Follows(published'[i], published'[i + 1])
    BY <1>3, <1>5 DEF PublishedStream
  <2>1. CASE i = n
    <3>1. published # <<>>
      BY <1>5, <2>1 DEF Typed, TypeOK
    <3> QED BY <1>1, <1>5, <2>1, <3>1 DEF pubLedger, Core, Streaming
  <2>2. CASE i < n
    BY <1>5, <2>2 DEF Core, PublishedStream
  <2> QED BY <1>5, <2>1, <2>2
<1> QED BY <1>6, <1>7, <1>8, <1>9, <1>10 DEF Core

\* Going idle is always safe for Core.
LEMMA IdleCore ==
    ASSUME IInv, adv.pc \notin {"publish", "published"} \/ adv'.threw,
           adv'.pc = "idle", adv.threw => adv'.threw,
           UNCHANGED <<sets, valid, last, pub, published>>
    PROVE  Core'
<1> USE DEF IInv
<1>1. \A x : (Quorum(x)' <=> Quorum(x)) /\ (Confirmed(x)' <=> Confirmed(x))
  BY DEF Quorum, Confirmed, getTrustedValidationCount
<1>2. Order' /\ Target' /\ Todo'
  BY <1>1 DEF Core, Order, Target, Todo
<1>3. Streaming'
  BY DEF Core, Streaming
<1>4. PublishedValidated' /\ PublishedStream'
  BY <1>1 DEF Core, PublishedValidated, PublishedStream
<1> QED BY <1>2, <1>3, <1>4 DEF Core

LEMMA LoopOrReturnCore ==
    ASSUME IInv, adv.pc \in {"find", "history"}, LoopOrReturn,
           UNCHANGED <<sets, valid, last, published>>
    PROVE  Core' /\ adv' \in AdvType /\ pub' \in Ledgers
<1> USE DEF IInv
<1>1. valid \in Ledger /\ pub \in Ledger /\ pub \in Ledgers
  BY DEF Core, Order, Typed, TypeOK, Ledgers
<1>2. CASE adv.work
  <2>1. Loop(pub)
    BY <1>2 DEF LoopOrReturn
  <2>2. Core'
    BY <1>1, <2>1, LoopCore DEF Core, Order, Streaming
  <2> QED BY <1>1, <2>1, <2>2, LoopResult DEF Typed, Ledgers
<1>3. CASE ~adv.work
  <2>1. UNCHANGED pub /\ adv' = [adv EXCEPT !.pc = "idle", !.target = None]
    BY <1>3 DEF LoopOrReturn
  <2>2. adv' \in AdvType /\ adv'.pc = "idle" /\ adv'.threw = adv.threw
    BY <2>1 DEF Typed, TypeOK, AdvType, Ledgers
  <2> QED BY <1>1, <2>1, <2>2, IdleCore
<1> QED BY <1>2, <1>3

LEMMA FetchHistoryCore ==
    ASSUME IInv, FetchHistory \/ doAdvanceThrows
    PROVE  IInv'
<1> USE DEF IInv
<1>1. CASE FetchHistory
  <2>1. valid \in Ledger /\ pub \in Ledger
    BY <1>1 DEF FetchHistory, Core, Order, Typed, TypeOK, Ledgers
  <2>2. CASE Loop(pub)
    <3>1. Core'
      BY <1>1, <2>1, <2>2, LoopCore DEF FetchHistory, Core, Order, Streaming, validations
    <3> QED BY <1>1, <2>1, <2>2, <3>1, LoopResult
            DEF FetchHistory, Typed, TypeOK, Pending, AdvType, Ledgers,
                validations, ledgers, consensus
  <2>3. CASE LoopOrReturn
    <3>1. Core' /\ adv' \in AdvType /\ pub' \in Ledgers
      BY <1>1, <2>3, LoopOrReturnCore DEF FetchHistory, validations
    <3> QED BY <1>1, <3>1 DEF FetchHistory, Typed, TypeOK, Pending, AdvType,
                              validations, ledgers, consensus
  <2> QED BY <1>1, <2>2, <2>3 DEF FetchHistory
<1>2. CASE doAdvanceThrows
  <2>1. adv' \in AdvType /\ adv'.pc = "idle" /\ adv'.threw
    <3>1. adv \in AdvType /\ <<>> \in Seq(Ledger)
      BY DEF Typed, TypeOK, AdvType
    <3>2. adv' = [adv EXCEPT !.pc = "idle", !.todo = <<>>, !.threw = TRUE]
      BY <1>2 DEF doAdvanceThrows
    <3> QED BY <3>1, <3>2 DEF AdvType
  <2>2. Core'
    <3>1. UNCHANGED <<sets, valid, last, pub, published>>
      BY <1>2 DEF doAdvanceThrows, validations
    <3> QED BY <2>1, <3>1, IdleCore
  <2> QED BY <1>2, <2>1, <2>2 DEF doAdvanceThrows, Typed, TypeOK, Pending, AdvType,
                                  validations, ledgers, consensus
<1> QED BY <1>1, <1>2

LEMMA setPubLedgerCore ==
    ASSUME IInv, setPubLedger
    PROVE  IInv'
<1> USE DEF IInv
<1> DEFINE n == Len(adv.todo)
<1>1. /\ adv.todo \in Seq(Ledger) /\ adv.todo # <<>> /\ Head(adv.todo) \in Ledger
      /\ Head(adv.todo) = adv.todo[1] /\ 1 \in 1 .. n /\ n \in Nat
  BY DEF setPubLedger, Core, Todo, Typed, TypeOK
<1>2. valid \in Ledger /\ UNCHANGED <<sets, valid, last, published>>
  BY DEF setPubLedger, Core, Order, Typed, TypeOK, Ledgers, validations
<1>3. /\ SeqOf(Head(adv.todo)) <= SeqOf(valid) /\ last # None
      /\ ~adv.threw /\ published # <<>> => published[Len(published)] = Head(adv.todo)
  BY <1>1 DEF setPubLedger, Core, Order, Todo, Streaming
<1>4. CASE ~(n > 1)
  <2>1. Loop(Head(adv.todo))
    BY <1>4 DEF setPubLedger
  <2>2. Core'
    BY <1>1, <1>2, <1>3, <2>1, LoopCore
  <2> QED BY <1>1, <1>2, <2>1, <2>2, LoopResult
          DEF setPubLedger, Typed, TypeOK, Pending, AdvType, Ledgers,
              validations, ledgers, consensus
<1>5. CASE n > 1
  <2>1. pub' = Head(adv.todo) /\ adv' = [adv EXCEPT !.pc = "publish", !.todo = Tail(@)]
    BY <1>5 DEF setPubLedger
  <2>2. /\ Tail(adv.todo) \in Seq(Ledger) /\ Len(Tail(adv.todo)) = n - 1
        /\ \A i \in 1 .. n - 1 : Tail(adv.todo)[i] = adv.todo[i + 1]
    BY <1>1
  <2>3. /\ adv' \in AdvType /\ adv'.pc = "publish" /\ adv'.threw = adv.threw
        /\ adv'.todo = Tail(adv.todo)
    BY <2>1, <2>2 DEF Typed, TypeOK, AdvType
  <2>4. Typed'
    BY <1>1, <2>1, <2>3 DEF setPubLedger, Typed, TypeOK, Pending, AdvType, Ledgers,
                            validations, ledgers, consensus
  <2>5. \A x : (Quorum(x)' <=> Quorum(x)) /\ (Confirmed(x)' <=> Confirmed(x))
    BY <1>2 DEF Quorum, Confirmed, getTrustedValidationCount
  <2>6. Head(adv.todo) # None
    BY <1>1, ChainAssumption
  <2>7. Order' /\ Target'
    BY <1>2, <1>3, <2>1, <2>3, <2>5, <2>6 DEF setPubLedger, Core, Order, Target
  <2>8. Todo'
    <3>1. Tail(adv.todo) # <<>>
      <4>1. \A m \in Nat : m > 1 => m - 1 # 0
        OBVIOUS
      <4>2. Len(Tail(adv.todo)) # 0
        BY <1>1, <1>5, <2>2, <4>1, Zenon
      <4> QED BY <2>2, <4>2, NonEmpty, Zenon
    <3> DEFINE t == Tail(adv.todo)
    <3>2. \A i \in 1 .. Len(t) : Confirmed(t[i]) /\ SeqOf(t[i]) <= SeqOf(valid)
      BY <1>1, <2>2 DEF setPubLedger, Core, Todo
    <3>3. \A i \in 1 .. Len(t) - 1 : SeqOf(t[i + 1]) = SeqOf(t[i]) + 1
      <4> SUFFICES ASSUME NEW i \in 1 .. Len(t) - 1
                   PROVE  SeqOf(t[i + 1]) = SeqOf(t[i]) + 1
        OBVIOUS
      <4>1. t[i] = adv.todo[i + 1] /\ t[i + 1] = adv.todo[(i + 1) + 1]
        BY <1>1, <2>2
      <4>2. i + 1 \in 1 .. n - 1
        BY <1>1, <2>2
      <4> QED BY <4>1, <4>2 DEF setPubLedger, Core, Todo
    <3> QED BY <1>2, <2>3, <2>5, <3>1, <3>2, <3>3 DEF Todo
  <2>9. Streaming'
    <3>1. Head(Tail(adv.todo)) = adv.todo[1 + 1]
      BY <1>1, <1>5, <2>2
    <3>2. SeqOf(adv.todo[1 + 1]) = SeqOf(adv.todo[1]) + 1
      <4>1. 1 \in 1 .. n - 1
        BY <1>1, <1>5
      <4>2. \A i \in 1 .. n - 1 : SeqOf(adv.todo[i + 1]) = SeqOf(adv.todo[i]) + 1
        BY DEF setPubLedger, Core, Todo
      <4> QED BY <4>1, <4>2
    <3> QED BY <1>1, <1>2, <1>3, <2>3, <3>1, <3>2 DEF Streaming, Follows
  <2>10. PublishedValidated' /\ PublishedStream'
    BY <1>2, <2>3, <2>5 DEF Core, PublishedValidated, PublishedStream
  <2> QED BY <2>4, <2>7, <2>8, <2>9, <2>10 DEF Core
<1> QED BY <1>4, <1>5

LEMMA findNewCore ==
    ASSUME IInv, findNewLedgersToPublish
    PROVE  IInv'
<1> USE DEF IInv
<1> DEFINE hash == Chain[adv.target]
           lacking == {m \in pubSeq .. SeqOf(adv.target) - 1 : hash[m] \notin have}
           first == {m \in lacking : Cardinality({j \in lacking : j < m}) < 3}
<1>1. /\ adv.pc = "find" /\ adv.target \in Ledger /\ Quorum(adv.target)
      /\ SeqOf(adv.target) <= SeqOf(valid) /\ pub \in Ledgers /\ last # None
      /\ UNCHANGED <<sets, valid, last, published>>
  BY DEF findNewLedgersToPublish, Core, Order, Target, Typed, TypeOK, validations
<1>2. /\ SeqOf(adv.target) \in Nat \ {0} /\ SeqOf(pub) \in Nat /\ SeqOf(valid) \in Nat
      /\ pubSeq \in Nat \ {0} /\ pubSeq = SeqOf(pub) + 1
      /\ hash \in Seq(Ledger) /\ Len(hash) = SeqOf(adv.target)
  <2>1. valid \in Ledgers
    BY DEF Typed, TypeOK
  <2>2. hash \in Seq(Ledger)
    BY <1>1, ChainAssumption
  <2> QED BY <1>1, <2>1, <2>2, SeqOfType DEF pubSeq
<1>3. have' \subseteq Ledger /\ wanted' \subseteq Ledger
  <2>1. {hash[m] : m \in first} \subseteq Ledger
    <3>1. first \subseteq 1 .. Len(hash)
      <4>1. \A a \in Nat \ {0}, b \in Nat : a .. b - 1 \subseteq 1 .. b
        OBVIOUS
      <4>2. pubSeq .. SeqOf(adv.target) - 1 \subseteq 1 .. Len(hash)
        <5> HIDE DEF hash
        <5> QED BY <1>2, <4>1
      <4> QED BY <4>2
    <3>2. \A m \in 1 .. Len(hash) : hash[m] \in Ledger
      BY <1>2
    <3> HIDE DEF first
    <3> QED BY <3>1, <3>2
  <2>2. acquire({hash[m] : m \in first})
    BY DEF findNewLedgersToPublish
  <2> HIDE DEF first
  <2> QED BY <2>1, <2>2, acquireType DEF Typed
<1>4. PICK k \in pubSeq - 1 .. SeqOf(adv.target) :
         IF k < pubSeq
         THEN LoopOrReturn
         ELSE /\ adv' = [adv EXCEPT !.pc = "publish", !.target = None,
                                    !.todo = SubSeq(hash, pubSeq, k)]
              /\ UNCHANGED pub
  BY DEF findNewLedgersToPublish
<1>5. CASE k < pubSeq
  <2>1. Core' /\ adv' \in AdvType /\ pub' \in Ledgers
    BY <1>1, <1>4, <1>5, LoopOrReturnCore
  <2> QED BY <1>3, <2>1 DEF findNewLedgersToPublish, Typed, TypeOK, Pending, AdvType,
                            validations, consensus
<1>6. CASE ~(k < pubSeq)
  <2> DEFINE t == SubSeq(hash, pubSeq, k)
  <2>1. UNCHANGED pub /\ adv' = [adv EXCEPT !.pc = "publish", !.target = None, !.todo = t]
    BY <1>4, <1>6
  <2>2. k \in Nat /\ pubSeq <= k /\ k <= SeqOf(adv.target)
    BY <1>2, <1>6
  <2>3. /\ t \in Seq(Ledger) /\ t # <<>> /\ SeqOf(Head(t)) = pubSeq
        /\ \A i \in 1 .. Len(t) : /\ (pubSeq + i) - 1 \in 1 .. SeqOf(adv.target)
                                  /\ t[i] = Chain[adv.target][(pubSeq + i) - 1]
                                  /\ SeqOf(t[i]) <= SeqOf(adv.target)
        /\ \A i \in 1 .. Len(t) - 1 : SeqOf(t[i + 1]) = SeqOf(t[i]) + 1
    <3>1. /\ adv.target \in Ledger /\ pubSeq \in Nat \ {0} /\ k \in Nat
          /\ pubSeq <= k /\ k <= SeqOf(adv.target)
      BY <1>1, <1>2, <2>2
    <3>2. Run(SubSeq(Chain[adv.target], pubSeq, k), adv.target, pubSeq)
      BY <3>1, HistoryPart, Zenon
    <3>3. Run(t, adv.target, pubSeq)
      BY <3>2
    <3> HIDE DEF t, hash
    <3> QED BY <3>3 DEF Run
  <2> HIDE DEF t, hash
  <2>4. \A i \in 1 .. Len(t) : Confirmed(t[i])
    BY <1>1, <2>3, HistoryConfirmed
  <2>5. \A i \in 1 .. Len(t) : t[i] \in Ledger
    BY <2>3
  <2>6. /\ adv' \in AdvType /\ adv'.pc = "publish" /\ adv'.threw = adv.threw
        /\ adv'.todo = t
    BY <2>1, <2>3 DEF Typed, TypeOK, AdvType, Ledgers
  <2>7. Typed'
    BY <1>3, <2>1, <2>6 DEF findNewLedgersToPublish, Typed, TypeOK, Pending, AdvType,
                            validations, consensus
  <2>8. \A x : (Quorum(x)' <=> Quorum(x)) /\ (Confirmed(x)' <=> Confirmed(x))
    BY <1>1 DEF Quorum, Confirmed, getTrustedValidationCount
  <2>9. Order' /\ Target'
    BY <1>1, <2>1, <2>6, <2>8 DEF Core, Order, Target
  <2>10. Todo'
    <3>1. \A i \in 1 .. Len(t) : SeqOf(t[i]) <= SeqOf(valid)
      <4>1. \A i \in 1 .. Len(t) : SeqOf(t[i]) \in Nat
        BY <2>5, SeqOfType
      <4> QED BY <1>1, <1>2, <2>3, <4>1
    <3> QED BY <1>1, <2>3, <2>4, <2>6, <2>8, <3>1 DEF Todo
  <2>11. Streaming'
    <3>1. SeqOf(Head(t)) = SeqOf(pub) + 1
      BY <1>2, <2>3
    <3> QED BY <1>1, <2>6, <3>1 DEF Core, Streaming, Follows
  <2>12. PublishedValidated' /\ PublishedStream'
    BY <1>1, <2>6, <2>8 DEF Core, PublishedValidated, PublishedStream
  <2> QED BY <2>7, <2>9, <2>10, <2>11, <2>12 DEF Core
<1> QED BY <1>5, <1>6

-----------------------------------------------------------------------------
(* The invariant holds *)

LEMMA InitInv == Init => IInv
<1> SUFFICES ASSUME Init PROVE IInv
  OBVIOUS
<1>1. TypeOK
  BY InitType
<1>2. Pending
  BY DEF Init, Pending, Idle
<1>3. Order
  <2>1. SeqOf(valid) \in Nat
    BY <1>1, SeqOfType DEF TypeOK
  <2> QED BY <2>1 DEF Init, Order
<1>4. Target /\ Todo /\ Streaming
  BY DEF Init, Target, Todo, Streaming
<1>5. PublishedValidated /\ PublishedStream
  BY DEF Init, PublishedValidated, PublishedStream
<1> QED BY <1>1, <1>2, <1>3, <1>4, <1>5 DEF IInv, Typed, Core

LEMMA NextInv ==
    ASSUME IInv, [Next]_vars
    PROVE  IInv'
<1>1. ASSUME Typed', UNCHANGED <<marks, published, sets>>
      PROVE  IInv'
  BY <1>1, QuietCore DEF IInv
<1>2. ASSUME Typed', NEW l \in Ledger, setMarks(l), tryAdvance \/ UNCHANGED adv,
             UNCHANGED <<sets, published>>
      PROVE  IInv'
  BY <1>2, AcceptCore DEF IInv
<1>3. ASSUME NEW v \in Validator, NEW l \in Signed, addValidation(v, l) PROVE IInv'
  <2>1. Typed'
    BY <1>3, addValidationTyped DEF IInv
  <2>2. \A k \in Ledger : sets[k] \subseteq sets'[k]
    BY <1>3 DEF addValidation, IInv, Typed, TypeOK
  <2>3. UNCHANGED <<marks, published>>
    BY <1>3 DEF addValidation
  <2> QED BY <2>1, <2>2, <2>3, QuietCore DEF IInv
<1>4. ASSUME NEW v \in Validator, CheckValidated(v) PROVE IInv'
  BY <1>1, <1>4, JobsTyped DEF IInv, CheckValidated, validations
<1>5. ASSUME NEW v \in Validator, AcceptValidated(v) PROVE IInv'
  <2>1. Typed' /\ job[v].ledger \in Ledger
    BY <1>5, JobsTyped DEF IInv, AcceptValidated, Typed, Pending
  <2> QED BY <1>2, <1>5, <2>1 DEF AcceptValidated, checkAccept, validations
<1>6. ASSUME NEW l \in Ledger, LedgerAcquired(l) PROVE IInv'
  BY <1>1, <1>6, AcquiredTyped DEF IInv, LedgerAcquired, validations
<1>7. ASSUME NEW l \in Ledger, LADispatch(l) PROVE IInv'
  BY <1>2, <1>7, AcquiredTyped DEF IInv, LADispatch, validations
<1>8. ASSUME NEW l \in Ledger, switchLedgers(l) PROVE IInv'
  BY <1>2, <1>8, AcquiredTyped DEF IInv, switchLedgers, checkAccept, validations
<1>9. CASE setBuildingLedger
  BY <1>1, <1>9, ConsensusTyped DEF IInv, setBuildingLedger, validations
<1>10. ASSUME NEW l \in Ledger, storeLedger(l) PROVE IInv'
  BY <1>1, <1>10, ConsensusTyped DEF IInv, storeLedger, validations
<1>11. CASE consensusBuilt
  BY <1>1, <1>11, ConsensusTyped DEF IInv, consensusBuilt, validations
<1>12. CASE AcceptBuilt
  <2>1. Typed' /\ round.ledger \in Ledger
    BY <1>12, ConsensusTyped DEF IInv, AcceptBuilt, Typed, Pending
  <2> QED BY <1>2, <1>12, <2>1 DEF AcceptBuilt, checkAccept, validations
<1>13. CASE getCurrentTrustedValidations
  BY <1>1, <1>13, ConsensusTyped DEF IInv, getCurrentTrustedValidations, validations
<1>14. CASE PickLedger
  BY <1>1, <1>14, ConsensusTyped DEF IInv, PickLedger, validations
<1>15. CASE CheckFound
  BY <1>1, <1>15, ConsensusTyped DEF IInv, CheckFound, validations
<1>16. CASE AcceptFound
  <2>1. Typed' /\ round.found \in Ledger
    BY <1>16, ConsensusTyped DEF IInv, AcceptFound, Typed, Pending
  <2> QED BY <1>2, <1>16, <2>1 DEF AcceptFound, checkAccept, validations
<1>17. CASE pushLedger
  BY <1>1, <1>17, ConsensusTyped DEF IInv, pushLedger, validations
<1>18. CASE Advance \/ doAdvanceThrows
  BY <1>18, advanceThreadCore, findNewCore, pubLedgerCore, setPubLedgerCore,
     FetchHistoryCore DEF Advance
<1>19. CASE UNCHANGED vars
  <2>1. UNCHANGED <<sets, current, job, have, wanted, fetched, building, closed, round,
                    valid, last, pub, adv, published>>
    BY <1>19 DEF vars, validations, ledgers, consensus, marks
  <2>2. Typed'
    BY <2>1 DEF IInv, Typed, TypeOK, Pending
  <2> QED BY <1>1, <2>1, <2>2 DEF marks
<1> QED BY <1>3, <1>4, <1>5, <1>6, <1>7, <1>8, <1>9, <1>10, <1>11, <1>12, <1>13,
           <1>14, <1>15, <1>16, <1>17, <1>18, <1>19 DEF Next, Jobs, Consensus

\* In every behaviour the invariant holds: of the calls in flight, of the order
\* of valid, published and target ledger, and of the stream in doAdvance.
THEOREM Invariance == Spec => []IInv
<1>1. IInv /\ [Next]_vars => IInv'
  BY NextInv
<1> QED BY <1>1, InitInv, PTL DEF Spec

\* Every variable of LedgerMaster keeps its type; pushLedger and checkAccept are
\* never handed a null ledger.
THEOREM TypeCorrect == Spec => []TypeOK
<1>1. IInv => TypeOK
  BY DEF IInv, Typed
<1> QED BY <1>1, Invariance, PTL

\* checkAccept makes no ledger the validated one without a quorum, for any number
\* of validators and any quorum, and mLastValidateHash names the ledger that is.
THEOREM ValidatedQuorum == Spec => []ValidatedHasQuorum
<1>1. IInv => ValidatedHasQuorum
  BY DEF IInv, Core, Order, ValidatedHasQuorum
<1> QED BY <1>1, Invariance, PTL

\* doAdvance gives clients ledgers that continue each other or jump over more than
\* MAX_LEDGER_GAP, although the lock is let go of around every publication.
THEOREM Stream == Spec => []PublishedStream
<1>1. IInv => PublishedStream
  BY DEF IInv, Core
<1> QED BY <1>1, Invariance, PTL

\* findNewLedgersToPublish gives doAdvance only ledgers that a ledger with a
\* quorum is or descends from.
THEOREM OnlyValidatedPublished == Spec => []PublishedValidated
<1>1. IInv => PublishedValidated
  BY DEF IInv, Core
<1> QED BY <1>1, Invariance, PTL

-----------------------------------------------------------------------------
(* The validated ledger *)

\* A step changes the validated ledger only as checkAccept does.
LEMMA ValidMoves ==
    ASSUME IInv, Next
    PROVE  valid' = valid \/ \E l \in Ledger : setMarks(l)
<1> USE DEF IInv
<1>1. ASSUME NEW v \in Validator, AcceptValidated(v)
      PROVE  \E l \in Ledger : setMarks(l)
  BY <1>1 DEF AcceptValidated, checkAccept, Typed, Pending
<1>2. ASSUME NEW l \in Ledger, LADispatch(l) \/ switchLedgers(l)
      PROVE  \E k \in Ledger : setMarks(k)
  BY <1>2 DEF LADispatch, switchLedgers, checkAccept
<1>3. CASE AcceptBuilt
  BY <1>3 DEF AcceptBuilt, checkAccept, Typed, Pending
<1>4. CASE AcceptFound
  BY <1>4 DEF AcceptFound, checkAccept, Typed, Pending
<1>5. ASSUME UNCHANGED marks PROVE valid' = valid
  BY <1>5 DEF marks
<1>6. ASSUME NEW v \in Validator, NEW l \in Ledger, addValidation(v, l)
      PROVE  valid' = valid
  BY <1>5, <1>6 DEF addValidation
<1>7. ASSUME NEW v \in Validator, CheckValidated(v) PROVE valid' = valid
  BY <1>5, <1>7 DEF CheckValidated
<1>8. ASSUME NEW l \in Ledger, LedgerAcquired(l) \/ storeLedger(l) PROVE valid' = valid
  BY <1>5, <1>8 DEF LedgerAcquired, storeLedger
<1>9. CASE setBuildingLedger \/ consensusBuilt \/ getCurrentTrustedValidations
           \/ PickLedger \/ CheckFound \/ pushLedger
  BY <1>5, <1>9 DEF setBuildingLedger, consensusBuilt, getCurrentTrustedValidations,
                    PickLedger, CheckFound, pushLedger
<1>10. CASE Advance \/ doAdvanceThrows
  BY <1>10 DEF Advance, advanceThread, findNewLedgersToPublish, pubLedger, setPubLedger,
               FetchHistory, doAdvanceThrows
<1>11. Signed \subseteq Ledger
  BY ValidatorAssumption
<1>12. CASE \E v \in Validator, l \in Signed : addValidation(v, l)
  BY <1>6, <1>11, <1>12
<1>13. CASE Jobs
  BY <1>1, <1>2, <1>7, <1>8, <1>13 DEF Jobs
<1>14. CASE Consensus
  BY <1>3, <1>4, <1>8, <1>9, <1>14 DEF Consensus
<1> QED BY <1>2, <1>9, <1>10, <1>12, <1>13, <1>14 DEF Next

\* mValidLedger never goes back: jobs for validations, LADispatch, the consensus
\* thread and switchLedgers may come in any order with stale ledgers in hand.
THEOREM ValidatedForward == Spec => ValidatedAdvances
<1>1. IInv /\ [Next]_vars => [valid' # valid => SeqOf(valid') > SeqOf(valid)]_valid
  <2> SUFFICES ASSUME IInv, [Next]_vars, valid' # valid
               PROVE  SeqOf(valid') > SeqOf(valid)
    OBVIOUS
  <2>1. CASE UNCHANGED vars
    BY <2>1 DEF vars, marks
  <2>2. CASE Next
    <3>1. PICK l \in Ledger : setMarks(l)
      BY <2>2, ValidMoves
    <3> QED BY <3>1, setMarksMoves DEF IInv, Typed
  <2> QED BY <2>1, <2>2
<1> QED BY <1>1, Invariance, PTL DEF Spec, ValidatedAdvances

-----------------------------------------------------------------------------
(* No advance is lost *)

\* While no wake-up is pending, the search is for the validated ledger.
Wake ==
    /\ AdvanceComplete
    /\ adv.pc = "find" /\ ~adv.work => adv.target = valid

LEMMA QuietWake ==
    ASSUME Wake, UNCHANGED marks, wanted \cup fetched \subseteq wanted' \cup fetched'
    PROVE  Wake'
BY DEF Wake, AdvanceComplete, pubSeq, marks

LEMMA AcceptWake ==
    ASSUME IInv, Wake, NEW l \in Ledger, setMarks(l),
           \/ tryAdvance
           \/ UNCHANGED <<adv, wanted, fetched>> /\ ~accepts(l)
    PROVE  Wake'
<1> USE DEF IInv
<1>1. CASE tryAdvance
  <2>1. adv'.work /\ (adv'.pc = "idle" => valid' = None)
    BY <1>1 DEF tryAdvance, Typed, TypeOK
  <2>2. SeqOf(pub') \in Nat
    <3>1. pub' \in Ledgers
      BY setMarksMoves DEF Typed
    <3> QED BY <3>1, SeqOfType
  <2> QED BY <2>1, <2>2, SeqOfType DEF Wake, AdvanceComplete
<1>2. CASE UNCHANGED <<adv, wanted, fetched>> /\ ~accepts(l)
  BY <1>2 DEF setMarks, Wake, AdvanceComplete, pubSeq
<1> QED BY <1>1, <1>2

LEMMA LoopWake ==
    ASSUME IInv, valid \in Ledger, NEW p \in Ledger, Loop(p), UNCHANGED valid
    PROVE  Wake'
<1>1. \/ adv'.pc = "publish"
      \/ adv'.pc = "find" /\ adv'.target = valid
      \/ adv'.pc \in {"idle", "history"} /\ pub' = p /\ ~(SeqOf(valid) > SeqOf(p))
  BY LoopResult DEF IInv, Typed
<1> QED BY <1>1 DEF Wake, AdvanceComplete

LEMMA findNewWake ==
    ASSUME Local = {}, IInv, Wake, findNewLedgersToPublish
    PROVE  Wake'
<1> USE DEF IInv
<1> DEFINE hash == Chain[adv.target]
           lacking == {m \in pubSeq .. SeqOf(adv.target) - 1 : hash[m] \notin have}
           first == {m \in lacking : Cardinality({j \in lacking : j < m}) < 3}
<1>1. /\ adv.pc = "find" /\ valid \in Ledger /\ pub \in Ledger /\ UNCHANGED valid
      /\ adv.target \in Ledger /\ SeqOf(pub) < SeqOf(adv.target)
  BY DEF findNewLedgersToPublish, Core, Order, Target, Typed, TypeOK, Ledgers
<1>2. SeqOf(adv.target) \in Nat /\ SeqOf(pub) \in Nat /\ pubSeq = SeqOf(pub) + 1
  BY <1>1, SeqOfType DEF pubSeq
<1>3. acquire({hash[m] : m \in first})
  BY DEF findNewLedgersToPublish
<1>4. PICK k \in pubSeq - 1 .. SeqOf(adv.target) :
         /\ \A m \in lacking : k < m
         /\ k = SeqOf(adv.target) \/ k + 1 \in lacking
         /\ IF k < pubSeq
            THEN LoopOrReturn
            ELSE /\ adv' = [adv EXCEPT !.pc = "publish", !.target = None,
                                       !.todo = SubSeq(hash, pubSeq, k)]
                 /\ UNCHANGED pub
  BY DEF findNewLedgersToPublish
<1>5. CASE ~(k < pubSeq)
  <2>1. adv'.pc = "publish"
    BY <1>4, <1>5 DEF Typed, TypeOK
  <2> QED BY <2>1 DEF Wake, AdvanceComplete
<1>6. CASE k < pubSeq /\ adv.work
  BY <1>1, <1>4, <1>6, LoopWake DEF LoopOrReturn
<1>7. CASE k < pubSeq /\ ~adv.work
  <2>1. UNCHANGED pub /\ adv' = [adv EXCEPT !.pc = "idle", !.target = None]
    BY <1>4, <1>7 DEF LoopOrReturn
  <2>2. adv.target = valid
    BY <1>1, <1>7 DEF Wake
  <2>3. k + 1 = pubSeq /\ pubSeq \in lacking /\ \A m \in lacking : ~(m < pubSeq)
    <3>1. k \in Int /\ k = SeqOf(pub) /\ k # SeqOf(adv.target)
      <4> HIDE DEF lacking, hash, first
      <4> QED BY <1>1, <1>2, <1>7
    <3>2. \A m \in lacking : m \in Int /\ k < m
      BY <1>2, <1>4
    <3> HIDE DEF lacking, hash, first
    <3> QED BY <1>2, <1>4, <3>1, <3>2
  <2>4. pubSeq \in first
    <3>1. {j \in lacking : j < pubSeq} = {}
      BY <2>3
    <3>2. Cardinality({j \in lacking : j < pubSeq}) < 3
      BY <3>1, FS_EmptySet
    <3> QED BY <2>3, <3>2
  <2>5. hash[pubSeq] \in wanted'
    <3> HIDE DEF first
    <3> QED BY <1>3, <2>4 DEF acquire
  <2>6. adv'.pc = "idle" /\ Chain[valid'][pubSeq'] \in wanted'
    BY <1>1, <2>1, <2>2, <2>5 DEF Typed, TypeOK, pubSeq
  <2> HIDE DEF hash, lacking, first
  <2> QED BY <2>6 DEF Wake, AdvanceComplete
<1> QED BY <1>5, <1>6, <1>7

LEMMA AdvanceWake ==
    ASSUME Local = {}, IInv, Wake, Advance \/ doAdvanceThrows
    PROVE  Wake'
<1> USE DEF IInv
<1>1. adv.pc # "idle" => valid \in Ledger /\ pub \in Ledger
  BY DEF Core, Order, Typed, TypeOK, Ledgers
<1>2. CASE advanceThread
  BY <1>1, <1>2, LoopWake DEF advanceThread
<1>3. CASE pubLedger \/ doAdvanceThrows
  <2>1. adv'.pc = "published" \/ (adv'.pc = "idle" /\ adv'.threw)
    BY <1>3 DEF pubLedger, doAdvanceThrows, Typed, TypeOK
  <2> QED BY <2>1 DEF Wake, AdvanceComplete
<1>4. CASE setPubLedger
  <2>1. CASE Len(adv.todo) > 1
    <3>1. adv'.pc = "publish"
      BY <1>4, <2>1 DEF setPubLedger, Typed, TypeOK
    <3> QED BY <3>1 DEF Wake, AdvanceComplete
  <2>2. CASE ~(Len(adv.todo) > 1)
    <3>1. Head(adv.todo) \in Ledger
      BY <1>4 DEF setPubLedger, Core, Todo, Typed, TypeOK
    <3> QED BY <1>1, <1>4, <2>2, <3>1, LoopWake DEF setPubLedger
  <2> QED BY <2>1, <2>2
<1>5. CASE FetchHistory
  <2>1. CASE Loop(pub)
    BY <1>1, <1>5, <2>1, LoopWake DEF FetchHistory
  <2>2. CASE ~Loop(pub)
    <3>1. SeqOf(valid) = SeqOf(pub) /\ UNCHANGED <<valid, pub>>
          /\ adv' = [adv EXCEPT !.pc = "idle", !.target = None]
      BY <1>5, <2>2 DEF FetchHistory, LoopOrReturn
    <3>2. SeqOf(pub) \in Nat /\ adv'.pc = "idle"
      BY <3>1, SeqOfType DEF Typed, TypeOK
    <3> QED BY <3>1, <3>2 DEF Wake, AdvanceComplete
  <2> QED BY <2>1, <2>2
<1> QED BY <1>2, <1>3, <1>4, <1>5, findNewWake DEF Advance

LEMMA NextWake ==
    ASSUME Local = {}, IInv, Wake, [Next]_vars
    PROVE  Wake'
<1> USE DEF IInv
<1>1. ASSUME NEW v \in Validator, CheckValidated(v) PROVE Wake'
  <2>1. wanted \subseteq wanted'
    BY <1>1 DEF CheckValidated, checkAcceptHash, acquire
  <2>2. UNCHANGED marks /\ fetched' = fetched
    BY <1>1 DEF CheckValidated
  <2> QED BY <2>1, <2>2, QuietWake
<1>2. ASSUME NEW v \in Validator, AcceptValidated(v) PROVE Wake'
  <2>1. job[v].ledger \in Ledger
    BY <1>2 DEF AcceptValidated, Typed, Pending
  <2> QED BY <1>2, <2>1, AcceptWake DEF AcceptValidated, checkAccept, ledgers
<1>3. ASSUME NEW l \in Ledger, LedgerAcquired(l) PROVE Wake'
  <2>1. UNCHANGED marks /\ wanted \cup fetched \subseteq wanted' \cup fetched'
    BY <1>3 DEF LedgerAcquired
  <2> QED BY <2>1, QuietWake
<1>4. ASSUME NEW l \in Ledger, LADispatch(l) PROVE Wake'
  BY <1>4, AcceptWake DEF LADispatch
<1>5. ASSUME NEW l \in Ledger, switchLedgers(l) PROVE Wake'
  BY <1>5, AcceptWake DEF switchLedgers, checkAccept, ledgers
<1>6. ASSUME NEW v \in Validator, NEW l \in Signed, addValidation(v, l) PROVE Wake'
  BY <1>6, QuietWake DEF addValidation, ledgers
<1>7. ASSUME NEW l \in Ledger, storeLedger(l) PROVE Wake'
  BY <1>7, QuietWake DEF storeLedger
<1>8. CASE setBuildingLedger \/ consensusBuilt \/ getCurrentTrustedValidations
           \/ PickLedger \/ pushLedger
  <2>1. UNCHANGED <<marks, ledgers>>
    BY <1>8 DEF setBuildingLedger, consensusBuilt, getCurrentTrustedValidations,
                PickLedger, pushLedger
  <2> QED BY <2>1, QuietWake DEF ledgers
<1>9. CASE CheckFound
  <2>1. wanted \subseteq wanted'
    BY <1>9 DEF CheckFound, checkAcceptHash, acquire
  <2>2. UNCHANGED marks /\ fetched' = fetched
    BY <1>9 DEF CheckFound
  <2> QED BY <2>1, <2>2, QuietWake
<1>10. CASE AcceptBuilt
  <2>1. round.ledger \in Ledger
    BY <1>10 DEF AcceptBuilt, Typed, Pending
  <2> QED BY <1>10, <2>1, AcceptWake DEF AcceptBuilt, checkAccept, ledgers
<1>11. CASE AcceptFound
  <2>1. round.found \in Ledger
    BY <1>11 DEF AcceptFound, Typed, Pending
  <2> QED BY <1>11, <2>1, AcceptWake DEF AcceptFound, checkAccept, ledgers
<1>12. CASE Advance \/ doAdvanceThrows
  BY <1>12, AdvanceWake
<1>13. CASE UNCHANGED vars
  BY <1>13, QuietWake DEF vars, ledgers
<1> QED BY <1>1, <1>2, <1>3, <1>4, <1>5, <1>6, <1>7, <1>8, <1>9, <1>10, <1>11, <1>12,
           <1>13 DEF Next, Jobs, Consensus

\* doAdvance loops until it cannot make further progress: when the advance job has
\* returned with validated ledgers unpublished, the next one is being acquired and
\* LADispatch will call tryAdvance.  The premise is what the run
\* ledger_master_local shows to be needed: no ledger lies complete, and unindexed,
\* in the node store.
THEOREM NoAdvanceLost == ASSUME Local = {} PROVE Spec => []AdvanceComplete
<1>1. Init => Wake
  <2> SUFFICES ASSUME Init PROVE Wake
    OBVIOUS
  <2>1. SeqOf(valid) \in Nat
    BY InitType, SeqOfType DEF TypeOK
  <2> QED BY <2>1 DEF Init, Wake, AdvanceComplete
<1>2. IInv /\ Wake /\ [Next]_vars => Wake'
  BY NextWake
<1>3. Wake => AdvanceComplete
  BY DEF Wake
<1> QED BY <1>1, <1>2, <1>3, Invariance, PTL DEF Spec
=============================================================================
