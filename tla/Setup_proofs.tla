---------------------------- MODULE Setup_proofs ----------------------------
(***************************************************************************)
(* Machine-checked facts about the orchestrator, for every list of phases, *)
(* every set of optional phases and commands, and every bound.             *)
(***************************************************************************)
EXTENDS Setup, SequenceTheorems, TLAPS

-----------------------------------------------------------------------------
(* Sequences of phases.                                                    *)

LEMMA MembersTyped ==
    ASSUME NEW S, NEW s \in Seq(S)
    PROVE  ToSet(s) \subseteq S
BY LenProperties DEF ToSet

LEMMA HeadIsMember ==
    ASSUME NEW S, NEW s \in Seq(S), s # <<>>
    PROVE  /\ Head(s) \in S /\ Head(s) \in ToSet(s)
           /\ Tail(s) \in Seq(S)
           /\ \A x \in ToSet(s) : x # Head(s) => x \in ToSet(Tail(s))
<1>1. /\ Head(s) \in S /\ Tail(s) \in Seq(S) /\ Len(Tail(s)) = Len(s) - 1
      /\ \A i \in 1..Len(Tail(s)) : Tail(s)[i] = s[i + 1]
  BY HeadTailProperties
<1>2. Len(s) \in Nat \ {0} /\ DOMAIN s = 1..Len(s) /\ Head(s) = s[1]
  BY EmptySeq, LenProperties
<1>3. DOMAIN Tail(s) = 1..(Len(s) - 1)
  BY <1>1, LenProperties
<1>4. Head(s) \in ToSet(s)
  BY <1>2 DEF ToSet
<1>5. ASSUME NEW x \in ToSet(s), x # Head(s)
      PROVE  x \in ToSet(Tail(s))
  <2>1. PICK i \in 1..Len(s) : x = s[i]
    BY <1>5, <1>2 DEF ToSet
  <2>2. i # 1
    BY <2>1, <1>5, <1>2
  <2>3. i - 1 \in 1..(Len(s) - 1) /\ Tail(s)[i - 1] = s[i]
    BY <2>2, <1>1, <1>2
  <2> QED
    BY <2>1, <2>3, <1>3 DEF ToSet
<1> QED
  BY <1>1, <1>4, <1>5

LEMMA Single ==
    ASSUME NEW S, NEW p \in S
    PROVE  <<p>> \in Seq(S) /\ Len(<<p>>) = 1 /\ <<p>>[1] = p /\ ToSet(<<p>>) = {p}
<1>1. <<p>> \in Seq(S) /\ Len(<<p>>) = 1 /\ <<p>>[1] = p
  OBVIOUS
<1> QED
  BY <1>1, LenProperties DEF ToSet

LEMMA NamedPhases ==
    /\ {"admin_user", "root_hardening", "ssh_hardening"} \subseteq Phase
    /\ Components \subseteq Phase
BY DEF Phase

LEMMA PositionIn ==
    ASSUME NEW S, NEW s \in Seq(S), NEW p \in ToSet(s)
    PROVE  /\ Len(s) \in Nat /\ DOMAIN s = 1..Len(s)
           /\ Position(s, p) \in 1..Len(s) /\ s[Position(s, p)] = p
<1>1. Len(s) \in Nat /\ DOMAIN s = 1..Len(s)
  BY LenProperties
<1>2. \E i \in 1..Len(s) : s[i] = p
  BY <1>1 DEF ToSet
<1> QED
  BY <1>1, <1>2 DEF Position

LEMMA Part ==
    ASSUME NEW S, NEW s \in Seq(S), NEW m \in Nat \ {0}, NEW n \in Int, n <= Len(s)
    PROVE  /\ SubSeq(s, m, n) \in Seq(S)
           /\ Len(SubSeq(s, m, n)) = IF m <= n THEN n - m + 1 ELSE 0
           /\ \A i \in 1..(n - m + 1) : SubSeq(s, m, n)[i] = s[m + i - 1]
<1>1. Len(s) \in Nat /\ \A i \in 1..Len(s) : s[i] \in S
  BY LenProperties, ElementOfSeq
<1>2. \A i \in m..n : s[i] \in S
  BY <1>1
<1> QED
  BY <1>2, SubSeqProperties

LEMMA AfterAdminType ==
    ASSUME NEW order \in Seq(Phase), "admin_user" \in ToSet(order)
    PROVE  AfterAdmin(order) \in Seq(Phase)
<1> DEFINE i == Position(order, "admin_user")
<1>1. Len(order) \in Nat /\ i \in 1..Len(order)
  BY PositionIn
<1>2. /\ SubSeq(order, 1, (i + 1) - 1) \in Seq(Phase)
      /\ SubSeq(order, i + 1, Len(order)) \in Seq(Phase)
  BY <1>1, Part
<1>3. <<"root_hardening">> \in Seq(Phase)
  BY Single, NamedPhases
<1> QED
  BY <1>2, <1>3, ConcatProperties DEF AfterAdmin, InsertAt

(* Nothing but ssh_hardening leaves its place, and that comes first.       *)
LEMMA RecoveryFirstType ==
    ASSUME NEW order \in Seq(Phase)
    PROVE  /\ RecoveryFirst(order) \in Seq(Phase) /\ RecoveryFirst(order) # <<>>
           /\ Head(RecoveryFirst(order)) = "ssh_hardening"
           /\ ToSet(order) \subseteq ToSet(RecoveryFirst(order))
<1> DEFINE ssh == "ssh_hardening"
           rest == IF ssh \in ToSet(order) THEN RemoveAt(order, Position(order, ssh)) ELSE order
<1>1. <<ssh>> \in Seq(Phase) /\ Len(<<ssh>>) = 1 /\ <<ssh>>[1] = ssh
  BY Single, NamedPhases
<1>2. Len(order) \in Nat /\ DOMAIN order = 1..Len(order)
  BY LenProperties
<1>3. rest \in Seq(Phase) /\ \A x \in ToSet(order) : x = ssh \/ x \in ToSet(rest)
  <2>1. CASE ssh \notin ToSet(order)
    BY <2>1
  <2>2. CASE ssh \in ToSet(order)
    <3> DEFINE i == Position(order, ssh)
               before == SubSeq(order, 1, i - 1)
               after == SubSeq(order, i + 1, Len(order))
    <3>1. i \in 1..Len(order) /\ order[i] = ssh
      BY <2>2, PositionIn
    <3>2. /\ before \in Seq(Phase) /\ Len(before) = i - 1
          /\ \A j \in 1..(i - 1) : before[j] = order[j]
      <4>1. i - 1 \in Int /\ i - 1 <= Len(order) /\ 1 \in Nat \ {0}
        BY <3>1, <1>2
      <4>2. /\ before \in Seq(Phase) /\ Len(before) = IF 1 <= i - 1 THEN (i - 1) - 1 + 1 ELSE 0
            /\ \A j \in 1..((i - 1) - 1 + 1) : before[j] = order[1 + j - 1]
        BY <4>1, Part
      <4> QED
        BY <4>2, <3>1, <1>2
    <3>3. /\ after \in Seq(Phase) /\ Len(after) = Len(order) - i
          /\ \A j \in 1..(Len(order) - i) : after[j] = order[i + j]
      <4>1. i + 1 \in Nat \ {0} /\ Len(order) \in Int /\ Len(order) <= Len(order)
        BY <3>1, <1>2
      <4>2. /\ after \in Seq(Phase)
            /\ Len(after) = IF i + 1 <= Len(order) THEN Len(order) - (i + 1) + 1 ELSE 0
            /\ \A j \in 1..(Len(order) - (i + 1) + 1) : after[j] = order[(i + 1) + j - 1]
        BY <4>1, Part
      <4> QED
        BY <4>2, <3>1, <1>2
    <3>4. rest = before \o after
      BY <2>2 DEF RemoveAt
    <3>5. /\ rest \in Seq(Phase) /\ Len(rest) = Len(order) - 1
          /\ \A j \in 1..(Len(order) - 1) :
               rest[j] = IF j <= i - 1 THEN before[j] ELSE after[j - (i - 1)]
      <4> HIDE DEF rest, before, after, i
      <4>1. /\ before \o after \in Seq(Phase)
            /\ Len(before \o after) = Len(before) + Len(after)
            /\ \A j \in 1..(Len(before) + Len(after)) : (before \o after)[j] =
                 IF j <= Len(before) THEN before[j] ELSE after[j - Len(before)]
        BY <3>2, <3>3, ConcatProperties
      <4>2. Len(before) + Len(after) = Len(order) - 1 /\ Len(before) = i - 1
        BY <3>2, <3>3, <3>1, <1>2
      <4> QED
        BY <4>1, <4>2, <3>4
    <3>6. DOMAIN rest = 1..(Len(order) - 1)
      BY <3>5, LenProperties
    <3>7. ASSUME NEW x \in ToSet(order), x # ssh
          PROVE  x \in ToSet(rest)
      <4>1. PICK k \in 1..Len(order) : order[k] = x
        BY <1>2 DEF ToSet
      <4>2. k # i
        BY <4>1, <3>1, <3>7
      <4>3. CASE k < i
        <5>1. k \in 1..(Len(order) - 1) /\ k <= i - 1 /\ k \in 1..(i - 1)
          BY <4>3, <3>1, <1>2
        <5>2. rest[k] = x
          BY <5>1, <3>5, <3>2, <4>1
        <5> QED
          BY <5>1, <5>2, <3>6 DEF ToSet
      <4>4. CASE k > i
        <5>1. /\ k - 1 \in 1..(Len(order) - 1) /\ ~(k - 1 <= i - 1)
              /\ k - i \in 1..(Len(order) - i) /\ (k - 1) - (i - 1) = k - i /\ i + (k - i) = k
          BY <4>4, <3>1, <1>2
        <5>2. rest[k - 1] = after[k - i] /\ after[k - i] = order[k]
          BY <5>1, <3>5, <3>3
        <5> QED
          BY <5>1, <5>2, <4>1, <3>6 DEF ToSet
      <4> QED
        BY <4>2, <4>3, <4>4, <3>1, <1>2
    <3> QED
      BY <3>5, <3>7
  <2> QED
    BY <2>1, <2>2
<1> HIDE DEF rest
<1>4. RecoveryFirst(order) = <<ssh>> \o rest
  BY DEF RecoveryFirst, rest
<1>5. Len(rest) \in Nat /\ DOMAIN rest = 1..Len(rest)
  BY <1>3, LenProperties
<1>6. /\ RecoveryFirst(order) \in Seq(Phase) /\ Len(RecoveryFirst(order)) = 1 + Len(rest)
      /\ \A j \in 1..(1 + Len(rest)) :
           RecoveryFirst(order)[j] = IF j <= 1 THEN <<ssh>>[j] ELSE rest[j - 1]
  BY <1>1, <1>3, <1>4, ConcatProperties
<1>7. DOMAIN RecoveryFirst(order) = 1..(1 + Len(rest))
  BY <1>6, LenProperties
<1>8. RecoveryFirst(order)[1] = ssh /\ RecoveryFirst(order) # <<>>
  BY <1>6, <1>5, <1>1, EmptySeq
<1>9. ssh \in ToSet(RecoveryFirst(order))
  BY <1>8, <1>7, <1>5 DEF ToSet
<1>10. ASSUME NEW x \in ToSet(rest)
       PROVE  x \in ToSet(RecoveryFirst(order))
  <2>1. PICK k \in 1..Len(rest) : rest[k] = x
    BY <1>5 DEF ToSet
  <2>2. k + 1 \in 1..(1 + Len(rest)) /\ ~(k + 1 <= 1) /\ (k + 1) - 1 = k
    BY <1>5
  <2>3. RecoveryFirst(order)[k + 1] = x
    BY <2>1, <2>2, <1>6
  <2> QED
    BY <2>2, <2>3, <1>7 DEF ToSet
<1>11. Head(RecoveryFirst(order)) = ssh
  BY <1>8, <1>6
<1> QED
  BY <1>3, <1>6, <1>8, <1>9, <1>10, <1>11

-----------------------------------------------------------------------------
(* What a process begins with.                                             *)

LEMMA NoFileType == NoFile \in State
BY EmptySeq DEF NoFile, State, Status

LEMMA WithType ==
    ASSUME NEW state \in State, NEW names
    PROVE  /\ With(state, names) \in State
           /\ With(state, names).order = state.order
           /\ With(state, names).ssh = state.ssh
           /\ With(state, names).members = state.members
           /\ \A p \in Phase :
                \/ With(state, names).status[p] = state.status[p]
                \/ state.status[p] = "absent" /\ With(state, names).status[p] = "pending"
BY DEF With, State, Status

LEMMA FreshType ==
    ASSUME NEW order \in Seq(Phase)
    PROVE  /\ Fresh(order) \in State /\ Fresh(order).order = order
           /\ Fresh(order).ssh = "open" /\ Fresh(order).members = {}
           /\ \A p \in Phase : Fresh(order).status[p] \in {"absent", "pending"}
<1> DEFINE bare == [NoFile EXCEPT !.order = order]
<1>1. /\ bare \in State /\ bare.order = order /\ bare.ssh = "open" /\ bare.members = {}
      /\ \A p \in Phase : bare.status[p] = "absent"
  BY NoFileType DEF State, NoFile
<1> HIDE DEF bare
<1>2. Fresh(order) = With(bare, ToSet(order))
  BY DEF Fresh, bare
<1> QED
  BY <1>1, <1>2, WithType

LEMMA LoadedType ==
    ASSUME NEW state \in State
    PROVE  /\ Loaded(state) \in State
           /\ Loaded(state).ssh = state.ssh /\ Loaded(state).members = state.members
           /\ \/ Loaded(state).order = state.order
              \/ /\ "admin_user" \in ToSet(state.order)
                 /\ Loaded(state).order = AfterAdmin(state.order)
           /\ \A p \in Phase :
                \/ Loaded(state).status[p] = state.status[p]
                \/ state.status[p] = "absent" /\ Loaded(state).status[p] = "pending"
<1>1. /\ Migrated(state) \in State
      /\ Migrated(state).order = state.order
      /\ Migrated(state).ssh = state.ssh /\ Migrated(state).members = state.members
      /\ \A p \in Phase :
           \/ Migrated(state).status[p] = state.status[p]
           \/ state.status[p] = "absent" /\ Migrated(state).status[p] = "pending"
  BY WithType DEF Migrated
<1>2. state.order \in Seq(Phase)
  BY DEF State
<1>3. CASE Loaded(state) = Migrated(state)
  BY <1>1, <1>3
<1>4. CASE /\ "admin_user" \in ToSet(state.order)
           /\ Loaded(state) = [Migrated(state) EXCEPT !.order = AfterAdmin(@)]
  <2>1. AfterAdmin(state.order) \in Seq(Phase)
    BY <1>2, <1>4, AfterAdminType
  <2> DEFINE seen == Migrated(state)  placed == AfterAdmin(state.order)
  <2> HIDE DEF seen, placed
  <2>2. Loaded(state) = [seen EXCEPT !.order = placed]
    BY <1>4, <1>1 DEF seen, placed
  <2>3. seen \in State /\ placed \in Seq(Phase)
    BY <1>1, <2>1 DEF seen, placed
  <2>4. /\ Loaded(state) \in State /\ Loaded(state).order = placed
        /\ Loaded(state).ssh = seen.ssh /\ Loaded(state).members = seen.members
        /\ Loaded(state).status = seen.status
    BY <2>2, <2>3 DEF State
  <2> QED
    BY <2>4, <1>1, <1>4 DEF seen, placed
<1> QED
  BY <1>3, <1>4 DEF Loaded

LEMMA LoadType ==
    ASSUME file \in State, NEW requested \in Seq(Phase)
    PROVE  /\ Load(requested) \in State
           /\ Load(requested).ssh = file.ssh /\ Load(requested).members = file.members
           /\ file.order # <<>> =>
                \/ Load(requested).order = file.order
                \/ /\ "admin_user" \in ToSet(file.order)
                   /\ Load(requested).order = AfterAdmin(file.order)
           /\ \A p \in Phase :
                \/ Load(requested).status[p] = file.status[p]
                \/ file.status[p] = "absent" /\ Load(requested).status[p] = "pending"
<1>1. CASE file = NoFile
  <2>1. /\ file.order = <<>> /\ file.ssh = "open" /\ file.members = {}
        /\ \A p \in Phase : file.status[p] = "absent"
    BY <1>1 DEF NoFile
  <2>2. Load(requested) = Fresh(requested)
    BY <1>1 DEF Load
  <2> QED
    BY <2>1, <2>2, FreshType
<1>2. CASE file # NoFile
  <2>1. Load(requested) = With(Loaded(file), ToSet(Loaded(file).order))
    BY <1>2 DEF Load
  <2> QED
    BY <2>1, LoadedType, WithType
<1> QED
  BY <1>1, <1>2

-----------------------------------------------------------------------------
(* Types.                                                                  *)

IInv == TypeOK /\ SetupInv

LEMMA Orders ==
    /\ BasePhases \in Seq(Phase) /\ DefaultPhases \in Seq(Phase)
    /\ BasePhases # <<>> /\ DefaultPhases # <<>>
    /\ \A legacy \in LegacyOrders : legacy \in Seq(Phase)
    /\ Commands \subseteq Phase /\ Optional \subseteq Phase
BY PhaseAssumption

LEMMA InitType == Init => TypeOK
<1> SUFFICES ASSUME Init PROVE TypeOK
  OBVIOUS
<1>1. PICK legacy \in LegacyOrders \cup {<<>>}, done \in BOOLEAN :
        /\ file = [Fresh(legacy) EXCEPT !.status =
                     [p \in Phase |-> IF done /\ p \in ToSet(legacy) THEN "done" ELSE @[p]]]
        /\ ok = [p \in Phase |-> p = "preflight" \/ (done /\ p \in ToSet(legacy))]
  BY DEF Init
<1>2. legacy \in Seq(Phase) /\ <<>> \in Seq(Phase)
  BY Orders, EmptySeq
<1>3. Fresh(legacy) \in State
  BY <1>2, FreshType
<1>4. file \in State
  BY <1>1, <1>3 DEF State, Status
<1>5. ok \in [Phase -> BOOLEAN]
  BY <1>1
<1>6. stuck \subseteq Refusing /\ suspect \subseteq Phase /\ finished \in BOOLEAN
  BY DEF Init
<1>7. /\ queue \in Seq(Phase) /\ chosen \in Seq(Phase) /\ memory \in State
      /\ command = "none" /\ pc = "idle" /\ requests = 0 /\ faults = 0
  BY <1>2, <1>4 DEF Init
<1> QED
  BY <1>4, <1>5, <1>6, <1>7, BoundAssumption DEF TypeOK

LEMMA InitInv == Init => SetupInv
<1> SUFFICES ASSUME Init PROVE SetupInv
  OBVIOUS
<1>1. PICK legacy \in LegacyOrders \cup {<<>>}, done \in BOOLEAN :
        /\ file = [Fresh(legacy) EXCEPT !.status =
                     [p \in Phase |-> IF done /\ p \in ToSet(legacy) THEN "done" ELSE @[p]]]
        /\ ok = [p \in Phase |-> p = "preflight" \/ (done /\ p \in ToSet(legacy))]
  BY DEF Init
<1>2. legacy \in Seq(Phase)
  BY Orders, EmptySeq
<1>3. Fresh(legacy) \in State /\ \A p \in Phase : Fresh(legacy).status[p] \in {"absent", "pending"}
  BY <1>2, FreshType
<1>4. ASSUME NEW p \in Phase
      PROVE  file.status[p] =
                IF done /\ p \in ToSet(legacy) THEN "done" ELSE Fresh(legacy).status[p]
  BY <1>1, <1>3 DEF State
<1>5. \A p \in Phase : file.status[p] = "done" => ok[p]
  BY <1>1, <1>3, <1>4
<1>6. /\ memory = file /\ command = "none" /\ pc = "idle" /\ queue = <<>>
  BY DEF Init
<1> QED
  BY <1>5, <1>6 DEF SetupInv, Resting, InAPhase, RecoveryAhead, FileKnows, SavedBetween,
     BehindIsSettled, SkippedIsKnown, DoneIsKnown, RecoveryComesFirst, Setup

(* What a step may take from a phase besides its own.                      *)
LEMMA NeverSpoilt == \A q \in Phase : "ssh_hardening" \notin Spoils[q]
BY SpoilsAssumption

LEMMA LostPhases ==
    ASSUME IInv, NEW lost \in SUBSET Collateral
    PROVE  /\ lost \subseteq Phase /\ "ssh_hardening" \notin lost
           /\ \A q \in lost :
                /\ q = "fail2ban" \/ \E r \in Phase : q \in Spoils[r]
                /\ pc = "execute" \/ (pc = "migrating" /\ q = "fail2ban")
                /\ q \notin memory.members \/ ~Moving
                /\ pc = "execute" => q # Head(queue)
<1>1. pc = "execute" => Head(queue) \in Phase
  BY HeadIsMember DEF IInv, TypeOK, SetupInv, InAPhase
<1>2. /\ InRecovery => pc = "execute" /\ Head(queue) = "ssh_hardening"
      /\ Moving <=> pc = "migrating" \/ InRecovery
  BY DEF InRecovery, Here, Moving
<1>3. /\ Spoils["ssh_hardening"] = {} /\ \A r \in Phase : r \notin Spoils[r]
  BY SpoilsAssumption
<1>4. ASSUME NEW q \in lost
      PROVE  /\ q \in Phase
             /\ \/ pc = "execute" /\ q \in Spoils[Head(queue)]
                \/ Moving /\ q = "fail2ban" /\ q \notin memory.members
  BY DEF Collateral
<1>5. ASSUME NEW q \in lost
      PROVE  q # "ssh_hardening"
  BY <1>1, <1>4, NeverSpoilt
<1>6. ASSUME NEW q \in lost
      PROVE  /\ q = "fail2ban" \/ \E r \in Phase : q \in Spoils[r]
             /\ pc = "execute" \/ (pc = "migrating" /\ q = "fail2ban")
             /\ pc = "execute" => q # Head(queue)
  <2>1. CASE pc = "execute" /\ q \in Spoils[Head(queue)]
    BY <2>1, <1>1, <1>3
  <2>2. CASE Moving /\ q = "fail2ban"
    BY <2>2, <1>2
  <2> QED
    BY <1>4, <2>1, <2>2
<1>7. ASSUME NEW q \in lost, Moving
      PROVE  q \notin memory.members
  <2>1. CASE pc = "execute" /\ q \in Spoils[Head(queue)]
    BY <2>1, <1>2, <1>3, <1>7
  <2> QED
    BY <2>1, <1>4
<1> QED
  BY <1>4, <1>5, <1>6, <1>7

LEMMA AnswersFacts ==
    ASSUME IInv, NEW verified, NEW unsure, NEW lost, Answers(verified, unsure, lost)
    PROVE  /\ ok' \in [Phase -> BOOLEAN]
           /\ \A q \in Phase : q \in verified => ok'[q]
           /\ \A q \in Phase : q \notin verified \cup unsure =>
                 ok'[q] = (ok[q] /\ q \notin lost)
<1>1. PICK after \in [unsure -> BOOLEAN] :
        ok' = [q \in Phase |-> IF q \in verified THEN TRUE
                               ELSE IF q \in unsure THEN after[q]
                               ELSE ok[q] /\ q \notin lost]
  BY DEF Answers
<1>2. ok \in [Phase -> BOOLEAN]
  BY DEF IInv, TypeOK
<1> QED
  BY <1>1, <1>2

LEMMA SticksType ==
    ASSUME IInv, NEW p, Sticks(p)
    PROVE  stuck' \subseteq Refusing
BY DEF IInv, TypeOK, Sticks

(* What a run has behind it stays settled: what it loses is suspect.       *)
LEMMA BehindStays ==
    ASSUME NEW q \in Phase, Verifies(q) \/ LostSince(q),
           ok'[q] = ok[q] \/ (q # "ssh_hardening" /\ (ok'[q] \/ LostSince(q)')),
           q \in suspect => ok'[q] \/ q \in suspect',
           q = "ssh_hardening" => memory'.ssh = memory.ssh
    PROVE  Verifies(q)' \/ LostSince(q)'
BY NeverSpoilt DEF Verifies, LostSince

(* A command that ends leaves the file, and nothing of the process.        *)
LEMMA Ended ==
    ASSUME IInv, NEW result \in {"finished", "done", "failed", "killed"}, Exit(result),
           file' \in State, ok' \in [Phase -> BOOLEAN], suspect' \subseteq Phase,
           stuck' \subseteq Refusing,
           chosen' \in Seq(Phase), requests' \in 0..MaxRequests, faults' \in 0..MaxFaults,
           \A p \in Phase \ {"ssh_hardening"} : file'.status[p] = "done" /\ ~ok'[p] =>
               p \in suspect' \/ (Interrupted(file') /\ p \in file'.members)
    PROVE  IInv'
<1>1. TypeOK'
  BY EmptySeq DEF IInv, TypeOK, Exit
<1>2. /\ pc' = "idle" /\ queue' = <<>> /\ command' = "none" /\ memory' = file'
  BY DEF Exit
<1>3. DoneIsKnown'
  BY <1>2 DEF DoneIsKnown, Interrupted
<1> QED
  BY <1>1, <1>2, <1>3 DEF IInv, SetupInv, Resting, InAPhase, RecoveryAhead, FileKnows,
     SavedBetween, BehindIsSettled, SkippedIsKnown, RecoveryComesFirst, Setup

-----------------------------------------------------------------------------
(* Each action keeps IInv.  First those that start a command.              *)

LEMMA Begun ==
    ASSUME IInv, pc = "idle",
           NEW cmd \in {"base", "full", "resume", "component"}, NEW state \in State,
           NEW phases \in Seq(Phase), cmd = "component" => phases # <<>>,
           NEW at \in {"next", "execute"}, at = "execute" <=> cmd = "component",
           Begin(cmd, state, phases, at),
           chosen' \in Seq(Phase), requests' \in 0..MaxRequests,
           state.ssh = file.ssh, state.members = file.members,
           \A p \in Phase : \/ state.status[p] = file.status[p]
                            \/ file.status[p] = "absent" /\ state.status[p] = "pending",
           cmd # "component" =>
               /\ ToSet(state.order) \subseteq ToSet(phases)
               /\ Interrupted(state) => phases # <<>> /\ Head(phases) = "ssh_hardening",
           file.order # <<>> /\ cmd \notin {"base", "full"} =>
               \/ state.order = file.order
               \/ "admin_user" \in ToSet(file.order) /\ state.order = AfterAdmin(file.order)
    PROVE  IInv'
<1>1. /\ command' = cmd /\ memory' = state /\ queue' = phases /\ pc' = at
      /\ UNCHANGED <<file, ok, finished, suspect, stuck, faults>>
  BY DEF Begin
<1>2. TypeOK'
  BY <1>1 DEF IInv, TypeOK
<1>3. Resting' /\ InAPhase' /\ RecoveryAhead' /\ RecoveryComesFirst'
  BY <1>1 DEF Resting, InAPhase, RecoveryAhead, RecoveryComesFirst, Setup, Interrupted
<1>4. FileKnows'
  BY <1>1 DEF FileKnows, Setup
<1>5. SavedBetween' /\ BehindIsSettled'
  BY <1>1 DEF SavedBetween, BehindIsSettled, Setup
<1>6. SkippedIsKnown'
  BY <1>1 DEF SkippedIsKnown
<1>7. DoneIsKnown'
  <2>1. ASSUME NEW p \in Phase \ {"ssh_hardening"}, file.status[p] = "done", ~ok[p]
        PROVE  p \in suspect \/ (Interrupted(file) /\ p \in file.members)
    BY <2>1 DEF IInv, SetupInv, DoneIsKnown, Resting
  <2>2. \A p \in Phase : state.status[p] = "done" => file.status[p] = "done"
    OBVIOUS
  <2> QED
    BY <1>1, <2>1, <2>2 DEF DoneIsKnown, Interrupted
<1> QED
  BY <1>2, <1>3, <1>4, <1>5, <1>6, <1>7 DEF IInv, SetupInv

LEMMA Counts ==
    ASSUME IInv
    PROVE  Request => requests' \in 0..MaxRequests
BY BoundAssumption DEF IInv, TypeOK, Request

LEMMA FaultCounts ==
    ASSUME IInv
    PROVE  Fault => faults' \in 0..MaxFaults
BY BoundAssumption DEF IInv, TypeOK, Fault

LEMMA StartScopeKeeps ==
    ASSUME IInv, NEW scope \in {"base", "full"}, NEW order \in Seq(Phase), order # <<>>,
           StartScope(scope, order)
    PROVE  IInv'
<1> DEFINE read == Load(order)
           scoped == [read EXCEPT !.order = order]
           state == With(scoped, ToSet(order))
<1>1. /\ read \in State /\ read.ssh = file.ssh /\ read.members = file.members
      /\ \A p \in Phase : \/ read.status[p] = file.status[p]
                          \/ file.status[p] = "absent" /\ read.status[p] = "pending"
  BY LoadType DEF IInv, TypeOK
<1>2. pc = "idle" /\ Request /\ chosen' = <<>> /\ Begin(scope, state, order, "next")
      /\ ~Interrupted(read)
  BY DEF StartScope
<1> HIDE DEF read
<1>3. scoped \in State /\ scoped.ssh = read.ssh /\ scoped.members = read.members
      /\ scoped.status = read.status /\ scoped.order = order
  BY <1>1 DEF State
<1> HIDE DEF scoped
<1>4. /\ state \in State /\ state.ssh = file.ssh /\ state.members = file.members
      /\ state.order = order
      /\ \A p \in Phase : \/ state.status[p] = file.status[p]
                          \/ file.status[p] = "absent" /\ state.status[p] = "pending"
  BY <1>1, <1>3, WithType
<1>5. ~Interrupted(state)
  BY <1>1, <1>2, <1>4 DEF Interrupted
<1> HIDE DEF state
<1>6. chosen' \in Seq(Phase) /\ requests' \in 0..MaxRequests
  BY <1>2, EmptySeq, Counts
<1> QED
  BY <1>2, <1>4, <1>5, <1>6, Begun


LEMMA ResumeKeeps ==
    ASSUME IInv, Resume
    PROVE  IInv'
<1> DEFINE read == Load(DefaultPhases)
           ahead == With(read, {"ssh_hardening"})
<1>1. /\ read \in State /\ read.ssh = file.ssh /\ read.members = file.members
      /\ file.order # <<>> =>
           \/ read.order = file.order
           \/ "admin_user" \in ToSet(file.order) /\ read.order = AfterAdmin(file.order)
      /\ \A p \in Phase : \/ read.status[p] = file.status[p]
                          \/ file.status[p] = "absent" /\ read.status[p] = "pending"
  BY LoadType, Orders DEF IInv, TypeOK
<1>2. /\ pc = "idle" /\ UNCHANGED <<chosen, requests>>
      /\ Interrupted(read) => Begin("resume", ahead, RecoveryFirst(read.order), "next")
      /\ ~Interrupted(read) => Begin("resume", read, read.order, "next")
  BY DEF Resume
<1>3. chosen' \in Seq(Phase) /\ requests' \in 0..MaxRequests
  BY <1>2 DEF IInv, TypeOK
<1> HIDE DEF read
<1>4. /\ ahead \in State /\ ahead.ssh = read.ssh /\ ahead.members = read.members
      /\ ahead.order = read.order
      /\ \A p \in Phase : \/ ahead.status[p] = read.status[p]
                          \/ read.status[p] = "absent" /\ ahead.status[p] = "pending"
  BY <1>1, WithType
<1>5. read.order \in Seq(Phase)
  BY <1>1 DEF State
<1> HIDE DEF ahead
<1>6. CASE Interrupted(read)
  <2>1. /\ RecoveryFirst(read.order) \in Seq(Phase) /\ RecoveryFirst(read.order) # <<>>
        /\ Head(RecoveryFirst(read.order)) = "ssh_hardening"
        /\ ToSet(ahead.order) \subseteq ToSet(RecoveryFirst(read.order))
    BY <1>4, <1>5, RecoveryFirstType
  <2>2. \A p \in Phase : \/ ahead.status[p] = file.status[p]
                         \/ file.status[p] = "absent" /\ ahead.status[p] = "pending"
    BY <1>1, <1>4
  <2> QED
    BY <1>1, <1>2, <1>3, <1>4, <1>6, <2>1, <2>2, Begun
<1>7. CASE ~Interrupted(read)
  BY <1>1, <1>2, <1>3, <1>5, <1>7, Begun
<1> QED
  BY <1>6, <1>7

LEMMA StartComponentKeeps ==
    ASSUME IInv, NEW p \in Commands, StartComponent(p)
    PROVE  IInv'
<1> DEFINE read == Load(DefaultPhases)
           names == IF p = "root_hardening" THEN {p, "admin_user"} ELSE {p}
           state == With(read, names)
<1>1. /\ read \in State /\ read.ssh = file.ssh /\ read.members = file.members
      /\ file.order # <<>> =>
           \/ read.order = file.order
           \/ "admin_user" \in ToSet(file.order) /\ read.order = AfterAdmin(file.order)
      /\ \A q \in Phase : \/ read.status[q] = file.status[q]
                          \/ file.status[q] = "absent" /\ read.status[q] = "pending"
  BY LoadType, Orders DEF IInv, TypeOK
<1>2. /\ pc = "idle" /\ Request /\ UNCHANGED chosen
      /\ Begin("component", state, <<p>>, "execute")
  BY DEF StartComponent
<1> HIDE DEF read
<1>3. /\ state \in State /\ state.ssh = file.ssh /\ state.members = file.members
      /\ state.order = read.order
      /\ \A q \in Phase : \/ state.status[q] = file.status[q]
                          \/ file.status[q] = "absent" /\ state.status[q] = "pending"
  BY <1>1, WithType
<1>4. chosen' \in Seq(Phase) /\ requests' \in 0..MaxRequests
  BY <1>2, Counts DEF IInv, TypeOK
<1>5. <<p>> \in Seq(Phase) /\ <<p>> # <<>>
  BY Orders, Single
<1> HIDE DEF state
<1> QED
  BY <1>1, <1>2, <1>3, <1>4, <1>5, Begun

LEMMA RefuseScopeKeeps ==
    ASSUME IInv, NEW order, RefuseScope(order)
    PROVE  IInv'
<1>1. UNCHANGED <<file, memory, command, queue, pc, ok, chosen, suspect, stuck, faults>>
      /\ finished' = FALSE /\ requests' \in 0..MaxRequests
  BY Counts DEF RefuseScope
<1> QED
  BY <1>1 DEF IInv, TypeOK, SetupInv, Resting, InAPhase, RecoveryAhead, FileKnows,
     SavedBetween, BehindIsSettled, SkippedIsKnown, DoneIsKnown, RecoveryComesFirst,
     MayUnskip, Setup, Interrupted, Verifies, LostSince

-----------------------------------------------------------------------------
(* The loop.                                                               *)

LEMMA SkipKeeps ==
    ASSUME IInv, Skip
    PROVE  IInv'
<1>1. /\ pc = "next" /\ queue # <<>> /\ Settled(Head(queue)) /\ queue' = Tail(queue)
      /\ UNCHANGED <<file, memory, command, pc, ok, finished, chosen, suspect, stuck,
                      requests, faults>>
  BY DEF Skip
<1>2. /\ queue \in Seq(Phase) /\ Head(queue) \in Phase /\ queue' \in Seq(Phase)
      /\ \A x \in ToSet(queue) : x # Head(queue) => x \in ToSet(queue')
  BY <1>1, HeadIsMember DEF IInv, TypeOK
<1>3. TypeOK'
  BY <1>1, <1>2 DEF IInv, TypeOK
<1>4. Setup => ~Interrupted(memory)
  BY <1>1 DEF IInv, SetupInv, RecoveryComesFirst, Settled, Recovering
<1>5. Resting' /\ InAPhase' /\ RecoveryAhead' /\ RecoveryComesFirst'
  BY <1>1, <1>4 DEF IInv, SetupInv, Resting, InAPhase, RecoveryAhead, RecoveryComesFirst,
     Setup, Interrupted
<1>6. FileKnows' /\ SavedBetween'
  BY <1>1 DEF IInv, SetupInv, FileKnows, SavedBetween
<1>7. BehindIsSettled'
  BY <1>1, <1>2 DEF IInv, SetupInv, BehindIsSettled, Setup, Verifies, LostSince, Settled
<1>8. SkippedIsKnown'
  BY <1>1 DEF IInv, SetupInv, SkippedIsKnown, SavedBetween
<1>9. DoneIsKnown'
  BY <1>1 DEF IInv, SetupInv, DoneIsKnown, Interrupted
<1> QED
  BY <1>3, <1>5, <1>6, <1>7, <1>8, <1>9 DEF IInv, SetupInv

(* What is recorded as done and does not verify is suspect or part of an   *)
(* interrupted migration, unless it is the phase a component command is at.*)
LEMMA VerifierRaisesKeeps ==
    ASSUME IInv, VerifierRaises
    PROVE  IInv'
<1>1. /\ pc = "next" /\ Fault /\ Exit("failed")
      /\ UNCHANGED <<file, ok, chosen, suspect, stuck, requests>>
  BY DEF VerifierRaises
<1>2. \A p \in Phase \ {"ssh_hardening"} : file.status[p] = "done" /\ ~ok[p] =>
          p \in suspect \/ (Interrupted(file) /\ p \in file.members)
  BY <1>1 DEF IInv, SetupInv, DoneIsKnown
<1> QED
  BY <1>1, <1>2, Ended, FaultCounts DEF IInv, TypeOK

LEMMA FinishKeeps ==
    ASSUME IInv, Finish
    PROVE  IInv'
<1>1. /\ pc = "next" /\ UNCHANGED <<file, ok, suspect, stuck, requests, faults>>
      /\ Exit(IF command = "component" THEN "done" ELSE "finished")
      /\ chosen' = IF command \in {"base", "full"} THEN memory.order ELSE chosen
  BY DEF Finish
<1>2. \A p \in Phase \ {"ssh_hardening"} : file.status[p] = "done" /\ ~ok[p] =>
          p \in suspect \/ (Interrupted(file) /\ p \in file.members)
  BY <1>1 DEF IInv, SetupInv, DoneIsKnown
<1>3. chosen' \in Seq(Phase)
  BY <1>1 DEF IInv, TypeOK, State
<1> QED
  BY <1>1, <1>2, <1>3, Ended DEF IInv, TypeOK

(* Recording another status for one phase.                                 *)
LEMMA Recording ==
    ASSUME NEW state \in State, NEW p \in Phase, NEW status \in Status
    PROVE  LET next == [state EXCEPT !.status[p] = status]
           IN  /\ next \in State /\ next.order = state.order
               /\ next.ssh = state.ssh /\ next.members = state.members
               /\ next.status[p] = status
               /\ \A q \in Phase \ {p} : next.status[q] = state.status[q]
BY DEF State

LEMMA RunKeeps ==
    ASSUME IInv, Run
    PROVE  IInv'
<1> DEFINE p == Head(queue)
           running == [memory EXCEPT !.status[p] = "running"]
<1>1. /\ pc = "next" /\ queue # <<>> /\ ~Settled(p)
      /\ UNCHANGED <<ok, chosen, suspect, stuck, requests>>
      /\ \/ /\ memory' = running /\ pc' = "execute"
            /\ UNCHANGED <<command, queue, finished>>
            /\ \/ p = "preflight" /\ UNCHANGED <<file, faults>>
               \/ file' = running /\ UNCHANGED faults
         \/ Fault /\ file' \in {file, running} /\ Exit("failed")
  BY DEF Run, Saved, NotSaved
<1>2. p \in Phase /\ memory \in State /\ file \in State /\ "running" \in Status
  BY <1>1, HeadIsMember DEF IInv, TypeOK, Status
<1> HIDE DEF p
<1>3. /\ running \in State /\ running.order = memory.order
      /\ running.ssh = memory.ssh /\ running.members = memory.members
      /\ running.status[p] = "running"
      /\ \A q \in Phase \ {p} : running.status[q] = memory.status[q]
  BY <1>2, Recording
<1> HIDE DEF running
<1>4. ASSUME NEW q \in Phase \ {"ssh_hardening"}, NEW state \in {file, running},
             state.status[q] = "done", ~ok[q]
      PROVE  q \in suspect \/ (Interrupted(state) /\ q \in state.members)
  BY <1>1, <1>3, <1>4 DEF IInv, SetupInv, DoneIsKnown, Interrupted
<1>5. CASE Fault /\ file' \in {file, running} /\ Exit("failed")
  BY <1>1, <1>2, <1>3, <1>4, <1>5, Ended, FaultCounts DEF IInv, TypeOK
<1>6. CASE /\ memory' = running /\ pc' = "execute" /\ UNCHANGED <<command, queue, finished>>
           /\ \/ p = "preflight" /\ UNCHANGED <<file, faults>>
              \/ file' = running /\ UNCHANGED faults
  <2>1. TypeOK'
    BY <1>1, <1>2, <1>3, <1>6 DEF IInv, TypeOK
  <2>2. Resting' /\ InAPhase' /\ RecoveryAhead' /\ RecoveryComesFirst'
    BY <1>1, <1>3, <1>6 DEF IInv, SetupInv, Resting, InAPhase, RecoveryAhead,
       RecoveryComesFirst, Setup, Interrupted, p
  <2>3. FileKnows'
    BY <1>1, <1>3, <1>6 DEF IInv, SetupInv, FileKnows, Setup, p
  <2>4. SavedBetween'
    BY <1>6 DEF SavedBetween
  <2>5. BehindIsSettled'
    <3>1. p \in ToSet(queue)
      BY <1>1, HeadIsMember DEF IInv, TypeOK, p
    <3>2. \A q \in Phase \ {p} : memory'.status[q] = memory.status[q]
      BY <1>3, <1>6
    <3>3. ToSet(memory.order) \subseteq Phase /\ memory'.order = memory.order
      BY <1>2, <1>3, <1>6, MembersTyped DEF State
    <3> QED
      BY <1>1, <1>3, <1>6, <3>1, <3>2, <3>3
      DEF IInv, SetupInv, BehindIsSettled, Setup, Verifies, LostSince
  <2>6. SkippedIsKnown'
    BY <1>1, <1>2, <1>3, <1>6 DEF IInv, SetupInv, SkippedIsKnown, SavedBetween, MayUnskip,
       Settled, Recovering, FileKnows, Interrupted, p
  <2>7. DoneIsKnown'
    BY <1>1, <1>4, <1>6 DEF DoneIsKnown
  <2> QED
    BY <2>1, <2>2, <2>3, <2>4, <2>5, <2>6, <2>7 DEF IInv, SetupInv
<1> QED
  BY <1>1, <1>5, <1>6

LEMMA ConcludeKeeps ==
    ASSUME IInv, Conclude
    PROVE  IInv'
<1> DEFINE p == Head(queue)
           ended == [memory EXCEPT !.status[p] = pc]
<1>1. /\ pc \in {"done", "skipped", "failed"} /\ queue # <<>>
      /\ UNCHANGED <<ok, chosen, requests>>
      /\ \/ /\ pc # "failed" /\ memory' = ended /\ file' = ended
            /\ queue' = Tail(queue) /\ pc' = "next"
            /\ UNCHANGED <<command, finished, suspect, stuck, faults>>
         \/ /\ pc = "failed" /\ file' = ended /\ Exit("failed")
            /\ UNCHANGED <<suspect, stuck, faults>>
         \/ /\ Fault /\ file' \in {file, ended} /\ Exit("failed")
            /\ UNCHANGED stuck /\ Suspects(Unrecorded)
  BY DEF Conclude, Saved, NotSaved
<1>2. /\ p \in Phase /\ memory \in State /\ file \in State /\ pc \in Status
      /\ queue \in Seq(Phase) /\ Tail(queue) \in Seq(Phase) /\ p \in ToSet(queue)
      /\ \A x \in ToSet(queue) : x # p => x \in ToSet(Tail(queue))
  BY <1>1, HeadIsMember DEF IInv, TypeOK, Status
<1> HIDE DEF p
<1>3. /\ ended \in State /\ ended.order = memory.order
      /\ ended.ssh = memory.ssh /\ ended.members = memory.members
      /\ ended.status[p] = pc
      /\ \A q \in Phase \ {p} : ended.status[q] = memory.status[q]
  BY <1>2, Recording
<1> HIDE DEF ended
<1>4. pc = "done" => Verifies(p)
  BY <1>1 DEF IInv, SetupInv, InAPhase, p
<1>5. ASSUME NEW q \in Phase \ {"ssh_hardening"}, ended.status[q] = "done", ~ok[q]
      PROVE  q \in suspect \/ (Interrupted(ended) /\ q \in ended.members)
  <2>1. q # p
    BY <1>3, <1>4, <1>5 DEF Verifies
  <2> QED
    BY <2>1, <1>3, <1>5 DEF IInv, SetupInv, DoneIsKnown, Interrupted, p
<1>6. CASE /\ pc # "failed" /\ memory' = ended /\ file' = ended
           /\ queue' = Tail(queue) /\ pc' = "next"
           /\ UNCHANGED <<command, finished, suspect, stuck, faults>>
  <2>1. TypeOK'
    BY <1>1, <1>2, <1>3, <1>6 DEF IInv, TypeOK
  <2>2. Setup => ~Interrupted(memory)
    BY <1>1, <1>6 DEF IInv, SetupInv, RecoveryAhead
  <2>3. Resting' /\ InAPhase' /\ RecoveryAhead' /\ RecoveryComesFirst'
    BY <1>1, <1>3, <1>6, <2>2 DEF IInv, SetupInv, Resting, InAPhase, RecoveryAhead,
       RecoveryComesFirst, Setup, Interrupted
  <2>4. FileKnows' /\ SavedBetween' /\ SkippedIsKnown'
    BY <1>6 DEF FileKnows, SavedBetween, SkippedIsKnown
  <2>5. BehindIsSettled'
    <3>1. ASSUME Setup, NEW q \in ToSet(memory.order) \ ToSet(Tail(queue))
          PROVE  \/ memory'.status[q] = "skipped"
                 \/ memory'.status[q] = "done" /\ (Verifies(q)' \/ LostSince(q)')
      <4>1. q \in Phase
        BY <1>2, MembersTyped DEF State
      <4>2. (Verifies(q)' <=> Verifies(q)) /\ (LostSince(q)' <=> LostSince(q))
        BY <1>1, <1>3, <1>6 DEF Verifies, LostSince
      <4>3. CASE q = p
        BY <1>1, <1>3, <1>4, <1>6, <4>2, <4>3
      <4>4. CASE q # p
        BY <1>1, <1>2, <1>3, <1>6, <4>1, <4>2, <4>4, <3>1
           DEF IInv, SetupInv, BehindIsSettled
      <4> QED
        BY <4>3, <4>4
    <3> QED
      BY <3>1, <1>3, <1>6 DEF BehindIsSettled, Setup
  <2>6. DoneIsKnown'
    BY <1>1, <1>5, <1>6 DEF DoneIsKnown
  <2> QED
    BY <2>1, <2>3, <2>4, <2>5, <2>6 DEF IInv, SetupInv
<1>7. CASE pc = "failed" /\ file' = ended /\ Exit("failed") /\ UNCHANGED <<suspect, stuck, faults>>
  BY <1>1, <1>3, <1>5, <1>7, Ended DEF IInv, TypeOK
<1>8. CASE /\ Fault /\ file' \in {file, ended} /\ Exit("failed")
           /\ UNCHANGED stuck /\ Suspects(Unrecorded)
  <2>1. suspect' \subseteq Phase
    BY <1>2, <1>8 DEF IInv, TypeOK, Suspects, Unrecorded, p
  <2>2. ASSUME NEW q \in Phase \ {"ssh_hardening"}, file.status[q] = "done", ~ok[q]
        PROVE  q \in suspect' \/ (Interrupted(file) /\ q \in file.members)
    BY <1>1, <1>8, <2>2 DEF IInv, SetupInv, DoneIsKnown, Suspects, Unrecorded
  <2>3. \A q \in Phase \ {"ssh_hardening"} : ended.status[q] = "done" /\ ~ok[q] =>
            q \in suspect' \/ (Interrupted(ended) /\ q \in ended.members)
    BY <1>1, <1>5, <1>8 DEF Suspects
  <2> QED
    BY <1>1, <1>2, <1>3, <1>8, <2>1, <2>2, <2>3, Ended, FaultCounts DEF IInv, TypeOK
<1> QED
  BY <1>1, <1>6, <1>7, <1>8

-----------------------------------------------------------------------------
(* The executors.                                                          *)

LEMMA HereFacts ==
    ASSUME IInv, NEW p, Here(p)
    PROVE  /\ pc = "execute" /\ queue # <<>> /\ Head(queue) = p
           /\ p \in Phase /\ p \in ToSet(queue)
           /\ file \in State /\ memory \in State
           /\ ToSet(memory.order) \subseteq Phase
BY HeadIsMember, MembersTyped DEF Here, IInv, TypeOK, State

(* A phase other than SSH: its own verifier may answer anything else, and  *)
(* what it takes from another phase is suspect.                            *)
LEMMA Executed ==
    ASSUME IInv, NEW p \in Phase \ {"ssh_hardening"}, Here(p),
           NEW result \in {"done", "skipped", "failed"}, Outcome(result),
           UNCHANGED <<file, memory>>, ok' \in [Phase -> BOOLEAN],
           NEW lost \in SUBSET Collateral,
           \A q \in Phase \ {p} : q \notin lost => ok'[q] = ok[q],
           suspect' \subseteq Phase, stuck' \subseteq Refusing,
           \A q \in suspect \cup lost : ok'[q] \/ q \in suspect',
           result = "done" => ok'[p],
           ~ok'[p] => ok'[p] = ok[p] \/ (p # "preflight" /\ result = "failed"),
           faults' \in 0..MaxFaults
    PROVE  IInv'
<1>1. /\ pc' = result /\ UNCHANGED <<command, queue, finished, chosen, requests>>
      /\ pc = "execute" /\ queue # <<>> /\ Head(queue) = p /\ p \in ToSet(queue)
      /\ ToSet(memory.order) \subseteq Phase
  BY HereFacts DEF Outcome
<1>2. TypeOK'
  BY <1>1 DEF IInv, TypeOK
<1>3. Resting' /\ InAPhase' /\ RecoveryAhead' /\ RecoveryComesFirst'
  BY <1>1 DEF IInv, SetupInv, Resting, InAPhase, RecoveryAhead, RecoveryComesFirst, Setup,
     Interrupted, Verifies
<1>4. FileKnows' /\ SavedBetween'
  BY <1>1 DEF IInv, SetupInv, FileKnows, SavedBetween
<1>5. BehindIsSettled'
  <2>1. ASSUME Setup, NEW q \in ToSet(memory.order) \ ToSet(queue)
        PROVE  \/ memory.status[q] = "skipped"
               \/ memory.status[q] = "done" /\ (Verifies(q)' \/ LostSince(q)')
    <3>1. q \in Phase /\ q # p
      BY <1>1, <2>1
    <3>2. \/ memory.status[q] = "skipped"
          \/ memory.status[q] = "done" /\ (Verifies(q) \/ LostSince(q))
      BY <1>1, <2>1 DEF IInv, SetupInv, BehindIsSettled
    <3>3. ok'[q] = ok[q] \/ (q # "ssh_hardening" /\ (ok'[q] \/ LostSince(q)'))
      BY <3>1, LostPhases DEF LostSince
    <3>4. q \in suspect => ok'[q] \/ q \in suspect'
      OBVIOUS
    <3> QED
      BY <3>1, <3>2, <3>3, <3>4, BehindStays
  <2> QED
    BY <1>1, <2>1 DEF BehindIsSettled, Setup
<1>6. SkippedIsKnown'
  BY <1>1 DEF IInv, SetupInv, SkippedIsKnown, MayUnskip, Interrupted
<1>7. DoneIsKnown'
  <2>1. ASSUME NEW q \in Phase \ {"ssh_hardening"}, NEW state \in {file, memory},
               state.status[q] = "done", ~ok'[q]
        PROVE  \/ q \in suspect'
               \/ Interrupted(state) /\ q \in state.members
               \/ command = "component" /\ pc' = "failed" /\ q = Head(queue)
    <3>1. CASE ~ok[q]
      BY <1>1, <2>1, <3>1 DEF IInv, SetupInv, DoneIsKnown
    <3>2. CASE q \in lost
      BY <2>1, <3>2
    <3>3. CASE q = p /\ ok[q]
      <4>1. p # "preflight" /\ result = "failed"
        BY <2>1, <3>3
      <4>2. Setup => state.status[p] # "done"
        BY <1>1, <4>1 DEF IInv, SetupInv, InAPhase, FileKnows
      <4>3. command # "none"
        BY <1>1 DEF IInv, SetupInv, Resting
      <4> QED
        BY <1>1, <2>1, <3>3, <4>1, <4>2, <4>3 DEF IInv, TypeOK, Setup
    <3> QED
      BY <2>1, <3>1, <3>2, <3>3
  <2> QED
    BY <1>1, <2>1 DEF DoneIsKnown, Interrupted
<1> QED
  BY <1>2, <1>3, <1>4, <1>5, <1>6, <1>7 DEF IInv, SetupInv

LEMMA SucceedsKeeps ==
    ASSUME IInv, Succeeds
    PROVE  IInv'
<1>1. PICK p \in Phase \ {"ssh_hardening"}, lost \in SUBSET Collateral :
        /\ Here(p) /\ Outcome("done")
        /\ Answers({p}, {}, lost) /\ Suspects(lost)
        /\ UNCHANGED <<file, memory, stuck, faults>>
  BY DEF Succeeds
<1>2. /\ ok' \in [Phase -> BOOLEAN] /\ ok'[p]
      /\ \A q \in Phase \ {p} : q \notin lost => ok'[q] = ok[q]
  BY <1>1, AnswersFacts DEF IInv, TypeOK
<1>3. /\ suspect' \subseteq Phase
      /\ \A q \in suspect \cup lost : ok'[q] \/ q \in suspect'
  BY <1>1, LostPhases DEF IInv, TypeOK, Suspects
<1>4. faults' \in 0..MaxFaults /\ stuck' \subseteq Refusing
  BY <1>1 DEF IInv, TypeOK
<1> QED
  BY <1>1, <1>2, <1>3, <1>4, Executed

LEMMA FailsKeeps ==
    ASSUME IInv, Fails
    PROVE  IInv'
<1>1. PICK p \in Phase \ {"ssh_hardening"} :
        /\ Here(p) /\ Outcome("failed")
        /\ \/ UNCHANGED <<ok, suspect, stuck, faults>>
           \/ /\ Fault /\ Sticks(p)
              /\ \E lost \in SUBSET Collateral :
                   Answers({}, {p} \ {"preflight"}, lost) /\ Suspects(lost)
        /\ UNCHANGED <<file, memory>>
  BY DEF Fails
<1>2. CASE UNCHANGED <<ok, suspect, stuck, faults>>
  <2>1. {} \in SUBSET Collateral
    OBVIOUS
  <2>2. /\ ok' \in [Phase -> BOOLEAN] /\ suspect' \subseteq Phase
        /\ stuck' \subseteq Refusing /\ faults' \in 0..MaxFaults
    BY <1>2 DEF IInv, TypeOK
  <2> QED
    BY <1>1, <1>2, <2>1, <2>2, Executed
<1>3. CASE /\ Fault /\ Sticks(p)
           /\ \E lost \in SUBSET Collateral :
                Answers({}, {p} \ {"preflight"}, lost) /\ Suspects(lost)
  <2>1. PICK lost \in SUBSET Collateral :
          Answers({}, {p} \ {"preflight"}, lost) /\ Suspects(lost)
    BY <1>3
  <2>2. /\ p \notin lost /\ lost \subseteq Phase
    BY <1>1, HereFacts, LostPhases
  <2>3. /\ ok' \in [Phase -> BOOLEAN]
        /\ \A q \in Phase \ {p} : q \notin lost => ok'[q] = ok[q]
        /\ p = "preflight" => ok'[p] = ok[p]
    BY <2>1, <2>2, AnswersFacts DEF IInv, TypeOK
  <2>4. /\ suspect' \subseteq Phase
        /\ \A q \in suspect \cup lost : ok'[q] \/ q \in suspect'
    BY <2>1, <2>2 DEF IInv, TypeOK, Suspects
  <2>5. faults' \in 0..MaxFaults /\ stuck' \subseteq Refusing
    BY <1>3, FaultCounts, SticksType
  <2> QED
    BY <1>1, <2>3, <2>4, <2>5, Executed
<1> QED
  BY <1>1, <1>2, <1>3

LEMMA DeclinesKeeps ==
    ASSUME IInv, Declines
    PROVE  IInv'
<1>1. PICK p \in Optional :
        /\ Here(p) /\ Outcome("skipped")
        /\ p = "ssh_hardening" => WizardShown
        /\ memory' = IF p = "ssh_hardening" THEN [memory EXCEPT !.ssh = "open"] ELSE memory
        /\ UNCHANGED <<file, ok, suspect, stuck, faults>>
  BY DEF Declines
<1>2. CASE p # "ssh_hardening"
  <2>1. {} \in SUBSET Collateral /\ p \in Phase
    BY Orders
  <2>2. /\ ok' \in [Phase -> BOOLEAN] /\ suspect' \subseteq Phase
        /\ stuck' \subseteq Refusing /\ faults' \in 0..MaxFaults
    BY <1>1 DEF IInv, TypeOK
  <2> QED
    BY <1>1, <1>2, <2>1, <2>2, Executed
<1>3. CASE p = "ssh_hardening"
  <2>1. /\ pc' = "skipped" /\ UNCHANGED <<command, queue, finished, chosen, requests>>
        /\ pc = "execute" /\ queue # <<>> /\ Head(queue) = p /\ p \in ToSet(queue)
        /\ ToSet(memory.order) \subseteq Phase /\ memory \in State
        /\ ~Interrupted(memory)
    BY <1>1, <1>3, HereFacts DEF Outcome, WizardShown, Interrupted
  <2>2. /\ memory' \in State /\ memory'.ssh = "open" /\ memory'.order = memory.order
        /\ memory'.status = memory.status /\ memory'.members = memory.members
    BY <1>1, <1>3, <2>1 DEF State
  <2>3. TypeOK'
    BY <1>1, <2>1, <2>2 DEF IInv, TypeOK
  <2>4. Resting' /\ InAPhase' /\ RecoveryAhead' /\ RecoveryComesFirst'
    BY <2>1, <2>2 DEF IInv, SetupInv, Resting, InAPhase, RecoveryAhead, RecoveryComesFirst,
       Setup, Interrupted
  <2>5. FileKnows' /\ SavedBetween'
    BY <1>1, <2>1, <2>2 DEF IInv, SetupInv, FileKnows, SavedBetween
  <2>6. BehindIsSettled'
    BY <1>1, <1>3, <2>1, <2>2 DEF IInv, SetupInv, BehindIsSettled, Setup, Verifies, LostSince
  <2>7. SkippedIsKnown'
    BY <1>1, <2>1, <2>2 DEF IInv, SetupInv, SkippedIsKnown, MayUnskip, Interrupted
  <2>8. DoneIsKnown'
    BY <1>1, <2>1, <2>2 DEF IInv, SetupInv, DoneIsKnown, Interrupted
  <2> QED
    BY <2>3, <2>4, <2>5, <2>6, <2>7, <2>8 DEF IInv, SetupInv
<1> QED
  BY <1>2, <1>3

LEMMA ChecksSSHKeeps ==
    ASSUME IInv, ChecksSSH
    PROVE  IInv'
<1>1. /\ Here("ssh_hardening") /\ memory.ssh = "managed" /\ command # "component"
      /\ pc' = (IF ok["ssh_hardening"] THEN "done" ELSE "failed")
      /\ UNCHANGED <<command, queue, finished, chosen, requests>>
      /\ UNCHANGED <<file, memory, ok, suspect, stuck, faults>>
  BY DEF ChecksSSH, Outcome
<1>2. /\ pc = "execute" /\ queue # <<>> /\ Head(queue) = "ssh_hardening"
      /\ "ssh_hardening" \in ToSet(queue)
  BY <1>1, HereFacts
<1>3. TypeOK'
  BY <1>1 DEF IInv, TypeOK
<1>4. Resting' /\ InAPhase' /\ RecoveryAhead' /\ RecoveryComesFirst'
  BY <1>1, <1>2 DEF IInv, SetupInv, Resting, InAPhase, RecoveryAhead, RecoveryComesFirst,
     Setup, Interrupted, Verifies
<1>5. FileKnows' /\ SavedBetween'
  BY <1>1, <1>2 DEF IInv, SetupInv, FileKnows, SavedBetween
<1>6. BehindIsSettled' /\ SkippedIsKnown'
  BY <1>1, <1>2 DEF IInv, SetupInv, BehindIsSettled, Setup, Verifies, LostSince, SkippedIsKnown,
     MayUnskip, Interrupted
<1>7. DoneIsKnown'
  BY <1>1, <1>2 DEF IInv, SetupInv, DoneIsKnown, Interrupted
<1> QED
  BY <1>3, <1>4, <1>5, <1>6, <1>7 DEF IInv, SetupInv

LEMMA KeepsPortKeeps ==
    ASSUME IInv, KeepsPort
    PROVE  IInv'
<1>1. /\ Here("ssh_hardening") /\ WizardShown /\ UNCHANGED <<file, stuck>>
      /\ UNCHANGED <<command, queue, finished, chosen, requests>>
      /\ \/ /\ pc' = "done" /\ UNCHANGED faults
            /\ memory' = [memory EXCEPT !.ssh = "managed", !.members = {}]
            /\ ok' = [ok EXCEPT !["ssh_hardening"] = TRUE]
            /\ Suspects({})
         \/ pc' = "failed" /\ Fault /\ UNCHANGED <<memory, ok, suspect>>
  BY DEF KeepsPort, Outcome
<1>2. /\ pc = "execute" /\ queue # <<>> /\ Head(queue) = "ssh_hardening"
      /\ "ssh_hardening" \in ToSet(queue) /\ "ssh_hardening" \in Phase
      /\ ToSet(memory.order) \subseteq Phase /\ memory \in State
      /\ ~Interrupted(memory)
  BY <1>1, HereFacts DEF WizardShown, Interrupted
<1>3. faults' \in 0..MaxFaults
  BY <1>1, FaultCounts DEF IInv, TypeOK
<1>4. CASE pc' = "failed" /\ UNCHANGED <<memory, ok, suspect>>
  <2>1. TypeOK'
    BY <1>1, <1>3, <1>4 DEF IInv, TypeOK
  <2>2. Resting' /\ InAPhase' /\ RecoveryAhead' /\ RecoveryComesFirst'
    BY <1>1, <1>2, <1>4 DEF IInv, SetupInv, Resting, InAPhase, RecoveryAhead,
       RecoveryComesFirst, Setup, Interrupted
  <2>3. FileKnows' /\ SavedBetween' /\ BehindIsSettled'
    BY <1>1, <1>2, <1>4 DEF IInv, SetupInv, FileKnows, SavedBetween, BehindIsSettled, Setup
  <2>4. SkippedIsKnown' /\ DoneIsKnown'
    BY <1>1, <1>2, <1>4 DEF IInv, SetupInv, SkippedIsKnown, MayUnskip, DoneIsKnown, Interrupted
  <2> QED
    BY <2>1, <2>2, <2>3, <2>4 DEF IInv, SetupInv
<1>5. CASE /\ pc' = "done"
           /\ memory' = [memory EXCEPT !.ssh = "managed", !.members = {}]
           /\ ok' = [ok EXCEPT !["ssh_hardening"] = TRUE]
           /\ Suspects({})
  <2>1. /\ memory' \in State /\ memory'.ssh = "managed" /\ memory'.members = {}
        /\ memory'.order = memory.order /\ memory'.status = memory.status
    BY <1>2, <1>5 DEF State
  <2>2. /\ ok' \in [Phase -> BOOLEAN] /\ ok'["ssh_hardening"]
        /\ \A q \in Phase \ {"ssh_hardening"} : ok'[q] = ok[q]
    BY <1>2, <1>5 DEF IInv, TypeOK
  <2>3. TypeOK'
    BY <1>1, <1>3, <1>5, <2>1, <2>2 DEF IInv, TypeOK, Suspects
  <2>4. Resting' /\ InAPhase' /\ RecoveryAhead' /\ RecoveryComesFirst'
    BY <1>1, <1>2, <1>5, <2>1, <2>2 DEF IInv, SetupInv, Resting, InAPhase, RecoveryAhead,
       RecoveryComesFirst, Setup, Interrupted, Verifies
  <2>5. FileKnows' /\ SavedBetween'
    BY <1>1, <1>2, <1>5, <2>1 DEF IInv, SetupInv, FileKnows, SavedBetween
  <2>6. BehindIsSettled'
    BY <1>1, <1>2, <1>5, <2>1, <2>2
       DEF IInv, SetupInv, BehindIsSettled, Setup, Verifies, LostSince, Suspects
  <2>7. SkippedIsKnown'
    BY <1>1, <1>2, <1>5, <2>1 DEF IInv, SetupInv, SkippedIsKnown, FileKnows, MayUnskip, Interrupted
  <2>8. ASSUME NEW q \in Phase \ {"ssh_hardening"}, NEW state \in {file, memory},
               state.status[q] = "done", ~ok[q]
        PROVE  q \in suspect
    BY <1>2, <2>8 DEF IInv, SetupInv, DoneIsKnown, FileKnows, Interrupted
  <2>9. ASSUME NEW q \in Phase \ {"ssh_hardening"}, NEW state \in {file', memory'},
               state.status[q] = "done", ~ok'[q]
        PROVE  q \in suspect'
    <3>1. state.status = file.status \/ state.status = memory.status
      BY <1>1, <2>1
    <3> QED
      BY <3>1, <2>2, <2>8, <2>9, <1>5 DEF Suspects
  <2>10. DoneIsKnown'
    BY <2>9 DEF DoneIsKnown
  <2> QED
    BY <2>3, <2>4, <2>5, <2>6, <2>7, <2>10 DEF IInv, SetupInv
<1> QED
  BY <1>1, <1>4, <1>5

LEMMA MigratesKeeps ==
    ASSUME IInv, Migrates
    PROVE  IInv'
<1>1. /\ Here("ssh_hardening") /\ WizardShown
      /\ pc' = "migrating" /\ UNCHANGED <<command, queue, finished, chosen, requests>>
      /\ file' = memory' /\ UNCHANGED <<faults, ok, suspect, stuck>>
  BY DEF Migrates, Outcome, Saved
<1>2. PICK members \in SUBSET Components :
        memory' = [memory EXCEPT !.ssh = "interrupted", !.members = members]
  BY DEF Migrates
<1>3. /\ pc = "execute" /\ queue # <<>> /\ Head(queue) = "ssh_hardening"
      /\ memory \in State /\ file \in State /\ ~Interrupted(memory)
  BY <1>1, HereFacts DEF WizardShown, Interrupted
<1>4. /\ memory' \in State /\ memory'.ssh = "interrupted" /\ memory'.members = members
      /\ memory'.order = memory.order /\ memory'.status = memory.status
  BY <1>2, <1>3 DEF State
<1>5. TypeOK'
  BY <1>1, <1>4 DEF IInv, TypeOK
<1>6. Resting' /\ InAPhase' /\ RecoveryAhead' /\ RecoveryComesFirst'
  BY <1>1, <1>3, <1>4 DEF IInv, SetupInv, Resting, InAPhase, RecoveryAhead,
     RecoveryComesFirst, Setup, Interrupted
<1>7. FileKnows'
  BY <1>1, <1>3, <1>4 DEF IInv, SetupInv, InAPhase, FileKnows, Setup
<1>8. SavedBetween' /\ SkippedIsKnown'
  BY <1>1 DEF SavedBetween, SkippedIsKnown
<1>9. BehindIsSettled'
  <2>1. "ssh_hardening" \in ToSet(queue) /\ ToSet(memory.order) \subseteq Phase
    BY <1>1, HereFacts
  <2> QED
    BY <1>1, <1>3, <1>4, <2>1 DEF IInv, SetupInv, BehindIsSettled, Setup, Verifies, LostSince
<1>10. DoneIsKnown'
  BY <1>1, <1>3, <1>4 DEF IInv, SetupInv, DoneIsKnown, Interrupted
<1> QED
  BY <1>5, <1>6, <1>7, <1>8, <1>9, <1>10 DEF IInv, SetupInv

(* Where a transaction ends, its record is saved and is of this process.   *)
LEMMA InTransaction ==
    ASSUME IInv, Moving
    PROVE  /\ pc \in {"execute", "migrating"} /\ queue # <<>>
           /\ Head(queue) = "ssh_hardening" /\ "ssh_hardening" \in ToSet(queue)
           /\ Interrupted(memory) /\ Interrupted(file) /\ file.members = memory.members
           /\ memory \in State /\ file \in State
           /\ memory.members \subseteq Components
           /\ ToSet(memory.order) \subseteq Phase
           /\ pc = "execute" /\ Setup => ToSet(memory.order) \subseteq ToSet(queue)
<1>1. CASE InRecovery
  BY <1>1, HereFacts DEF InRecovery, IInv, SetupInv, FileKnows, Interrupted, RecoveryAhead,
     State
<1>2. CASE pc = "migrating"
  <2>1. queue # <<>> /\ Head(queue) = "ssh_hardening" /\ Interrupted(memory)
    BY <1>2 DEF IInv, SetupInv, InAPhase
  <2>2. "ssh_hardening" \in ToSet(queue)
    BY <2>1, HeadIsMember DEF IInv, TypeOK
  <2>3. memory \in State /\ file \in State /\ ToSet(memory.order) \subseteq Phase
    BY MembersTyped DEF IInv, TypeOK, State
  <2> QED
    BY <1>2, <2>1, <2>2, <2>3 DEF IInv, SetupInv, FileKnows, Interrupted, State
<1> QED
  BY <1>1, <1>2 DEF Moving

LEMMA TransactionEnds ==
    ASSUME IInv, Moving,
           NEW mode \in {"open", "managed"}, NEW synced \in SUBSET memory.members,
           NEW result \in {"done", "skipped", "failed"},
           EndsTransaction(mode, synced, result),
           result = "done" => mode = "managed",
           result # "failed" => synced = memory.members \/ pc = "execute",
           file' = memory' \/ (result = "failed" /\ file' = file),
           faults' \in 0..MaxFaults
    PROVE  IInv'
<1> DEFINE changed == memory.members \cup {"ssh_hardening"}
<1>1. /\ pc \in {"execute", "migrating"} /\ queue # <<>>
      /\ Head(queue) = "ssh_hardening" /\ "ssh_hardening" \in ToSet(queue)
      /\ Interrupted(memory) /\ Interrupted(file) /\ file.members = memory.members
      /\ memory \in State /\ file \in State /\ ToSet(memory.order) \subseteq Phase
      /\ memory.members \subseteq Components
      /\ pc = "execute" /\ Setup => ToSet(memory.order) \subseteq ToSet(queue)
  BY InTransaction
<1>2. /\ memory' = [memory EXCEPT !.ssh = mode, !.members = {},
                                  !.status = Synchronized(@, synced)]
      /\ pc' = result /\ UNCHANGED <<command, queue, finished, chosen, requests, stuck>>
  BY DEF EndsTransaction, Outcome
<1> DEFINE open == memory.members \ synced
<1>lost. PICK lost \in SUBSET Collateral :
           Answers(synced \cup {"ssh_hardening"}, open, lost) /\ Suspects(open \cup lost)
  BY DEF EndsTransaction
<1>3. /\ ok' \in [Phase -> BOOLEAN] /\ \A p \in synced \cup {"ssh_hardening"} : ok'[p]
      /\ \A p \in Phase \ changed : p \notin lost => ok'[p] = ok[p]
  <2>1. synced \cup {"ssh_hardening"} \subseteq Phase
    BY <1>1, NamedPhases
  <2> QED
    BY <1>lost, <2>1, AnswersFacts DEF IInv, TypeOK
<1>suspect. /\ suspect' \subseteq Phase
            /\ \A q \in suspect \cup open \cup lost : ok'[q] \/ q \in suspect'
  BY <1>1, <1>lost, NamedPhases, LostPhases DEF Suspects, IInv, TypeOK
<1>4. "ssh_hardening" \in Phase /\ Components \subseteq Phase
      /\ "ssh_hardening" \notin Components
  BY NamedPhases DEF Components
<1>5. /\ memory' \in State /\ memory'.order = memory.order
      /\ memory'.ssh = mode /\ memory'.members = {}
      /\ \A p \in Phase : memory'.status[p] =
                             IF p \in synced THEN "done" ELSE memory.status[p]
  BY <1>1, <1>2 DEF State, Status, Synchronized
<1> HIDE DEF changed
<1>6. TypeOK'
  BY <1>2, <1>3, <1>5, <1>suspect DEF IInv, TypeOK
<1>7. ~Interrupted(memory')
  BY <1>5 DEF Interrupted
<1>8. Resting' /\ RecoveryAhead' /\ RecoveryComesFirst' /\ SavedBetween'
  BY <1>1, <1>2, <1>7 DEF IInv, SetupInv, Resting, RecoveryAhead, RecoveryComesFirst,
     SavedBetween, Setup, Interrupted
<1>9. InAPhase'
  BY <1>1, <1>2, <1>3, <1>4, <1>5 DEF IInv, SetupInv, InAPhase, Setup, Verifies
<1>10. FileKnows'
  BY <1>1, <1>2, <1>5 DEF IInv, SetupInv, FileKnows
<1>11. BehindIsSettled'
  <2>1. ASSUME Setup, result # "failed", NEW q \in ToSet(memory.order) \ ToSet(queue)
        PROVE  \/ memory'.status[q] = "skipped"
               \/ memory'.status[q] = "done" /\ (Verifies(q)' \/ LostSince(q)')
    <3>1. pc = "migrating" /\ synced = memory.members
      BY <1>1, <2>1
    <3>2. q \in Phase /\ q # "ssh_hardening"
      BY <1>1, <2>1
    <3>3. \/ memory.status[q] = "skipped"
          \/ memory.status[q] = "done" /\ (Verifies(q) \/ LostSince(q))
      BY <2>1, <3>1 DEF IInv, SetupInv, BehindIsSettled
    <3>4. CASE q \in synced
      BY <3>2, <3>4, <1>3, <1>5 DEF Verifies
    <3>5. CASE q \notin synced
      <4>1. memory'.status[q] = memory.status[q]
        BY <3>2, <3>5, <1>5
      <4>2. ok'[q] = ok[q] \/ q \in lost
        BY <3>1, <3>2, <3>5, <1>3 DEF changed
      <4>3. ok'[q] = ok[q] \/ ok'[q] \/ LostSince(q)'
        BY <4>2, <1>suspect, LostPhases DEF LostSince
      <4>4. q \in suspect => ok'[q] \/ q \in suspect'
        BY <1>suspect
      <4> QED
        BY <4>1, <4>3, <4>4, <3>2, <3>3, BehindStays
    <3> QED
      BY <3>4, <3>5
  <2> QED
    BY <2>1, <1>2, <1>5 DEF BehindIsSettled, Setup
<1>12. SkippedIsKnown'
  <2>1. CASE file' = memory'
    BY <2>1 DEF SkippedIsKnown
  <2>2. CASE file' = file
    BY <2>2, <1>1, <1>2, <1>5 DEF IInv, SetupInv, SkippedIsKnown, MayUnskip, Interrupted
  <2> QED
    BY <2>1, <2>2
<1>13. DoneIsKnown'
  <2>1. ASSUME NEW q \in Phase \ {"ssh_hardening"}, memory'.status[q] = "done", ~ok'[q]
        PROVE  q \in suspect'
    <3>1. q \notin synced
      BY <2>1, <1>3
    <3>2. CASE q \in memory.members
      BY <2>1, <3>1, <3>2, <1>suspect
    <3>3. CASE q \notin memory.members
      <4>1. memory.status[q] = "done" /\ (~ok[q] \/ q \in lost)
        BY <3>1, <3>3, <2>1, <1>3, <1>5 DEF changed
      <4>2. ~ok[q] => q \in suspect
        BY <4>1, <3>3, <1>1 DEF IInv, SetupInv, DoneIsKnown
      <4> QED
        BY <4>1, <4>2, <2>1, <1>suspect
    <3> QED
      BY <3>2, <3>3
  <2>2. ASSUME NEW q \in Phase \ {"ssh_hardening"}, file.status[q] = "done", ~ok'[q]
        PROVE  q \in suspect' \/ (Interrupted(file) /\ q \in file.members)
    <3>1. CASE q \in memory.members
      BY <3>1, <1>1
    <3>2. CASE q \notin memory.members
      <4>1. ~ok[q] \/ q \in lost
        BY <3>2, <2>2, <1>3 DEF changed
      <4>2. ~ok[q] => q \in suspect
        BY <2>2, <3>2, <1>1 DEF IInv, SetupInv, DoneIsKnown
      <4> QED
        BY <4>1, <4>2, <2>2, <1>suspect
    <3> QED
      BY <3>1, <3>2
  <2> QED
    BY <2>1, <2>2 DEF DoneIsKnown, Interrupted
<1> QED
  BY <1>6, <1>8, <1>9, <1>10, <1>11, <1>12, <1>13 DEF IInv, SetupInv

LEMMA FinalizesKeeps ==
    ASSUME IInv, Finalizes
    PROVE  IInv'
<1>1. /\ pc = "migrating" /\ EndsTransaction("managed", memory.members, "done")
      /\ file' = memory' /\ UNCHANGED faults
  BY DEF Finalizes, Saved
<1> QED
  BY <1>1, TransactionEnds DEF IInv, TypeOK, Moving

LEMMA RollsBackKeeps ==
    ASSUME IInv, RollsBack
    PROVE  IInv'
<1>1. CASE InRecovery /\ EndsTransaction("open", memory.members, "skipped") /\ Saved
  BY <1>1, TransactionEnds DEF IInv, TypeOK, Saved, Moving
<1>2. CASE /\ Moving
           /\ \E synced \in {memory.members, memory.members \ {"firewall"}},
                 result \in IF InRecovery THEN {"skipped", "failed"} ELSE {"failed"} :
                EndsTransaction("open", synced, result)
           /\ Fault /\ file' \in IF pc' = "failed" THEN {file, memory'} ELSE {memory'}
  <2>1. PICK synced \in SUBSET memory.members, result \in {"skipped", "failed"} :
          EndsTransaction("open", synced, result) /\ (result = "skipped" => InRecovery)
    BY <1>2
  <2>2. pc' = result
    BY <2>1 DEF EndsTransaction, Outcome
  <2>3. InRecovery => pc = "execute"
    BY DEF InRecovery, Here
  <2> QED
    BY <1>2, <2>1, <2>2, <2>3, TransactionEnds, FaultCounts
<1> QED
  BY <1>1, <1>2 DEF RollsBack

LEMMA StaysInterruptedKeeps ==
    ASSUME IInv, StaysInterrupted
    PROVE  IInv'
<1> DEFINE changed == memory.members \cup {"ssh_hardening"}
<1>1. /\ Moving /\ Fault /\ pc' = "failed"
      /\ UNCHANGED <<command, queue, finished, chosen, requests, file, memory, stuck>>
  BY DEF StaysInterrupted, Outcome
<1>2. PICK lost \in SUBSET Collateral : Answers({}, changed, lost) /\ Suspects(lost)
  BY DEF StaysInterrupted
<1>3. /\ ok' \in [Phase -> BOOLEAN]
      /\ \A p \in Phase \ changed : p \notin lost => ok'[p] = ok[p]
  BY <1>2, AnswersFacts DEF IInv, TypeOK
<1>4. /\ pc \in {"execute", "migrating"} /\ queue # <<>>
      /\ Head(queue) = "ssh_hardening" /\ Interrupted(memory) /\ Interrupted(file)
      /\ file.members = memory.members
  BY <1>1, InTransaction
<1>suspect. suspect' \subseteq Phase /\ \A q \in suspect \cup lost : ok'[q] \/ q \in suspect'
  BY <1>2, LostPhases DEF Suspects, IInv, TypeOK
<1>5. TypeOK'
  BY <1>1, <1>3, <1>suspect, FaultCounts DEF IInv, TypeOK
<1>6. Resting' /\ InAPhase' /\ RecoveryAhead' /\ RecoveryComesFirst'
  BY <1>1, <1>4 DEF IInv, SetupInv, Resting, InAPhase, RecoveryAhead, RecoveryComesFirst,
     Setup, Interrupted
<1>7. FileKnows' /\ SavedBetween' /\ BehindIsSettled'
  BY <1>1 DEF IInv, SetupInv, FileKnows, SavedBetween, BehindIsSettled
<1>8. SkippedIsKnown'
  BY <1>1 DEF IInv, SetupInv, SkippedIsKnown, MayUnskip, Interrupted
<1>9. DoneIsKnown'
  <2>1. ASSUME NEW q \in Phase \ {"ssh_hardening"}, NEW state \in {file, memory},
               state.status[q] = "done", ~ok'[q]
        PROVE  q \in suspect' \/ (Interrupted(state) /\ q \in state.members)
    <3>1. CASE q \in memory.members
      BY <3>1, <1>4
    <3>2. CASE q \notin memory.members /\ q \in lost
      BY <3>2, <2>1, <1>suspect
    <3>3. CASE q \notin memory.members /\ q \notin lost
      <4>1. q \in suspect
        BY <3>3, <2>1, <1>3, <1>4 DEF IInv, SetupInv, DoneIsKnown
      <4> QED
        BY <4>1, <2>1, <1>suspect
    <3> QED
      BY <3>1, <3>2, <3>3
  <2> QED
    BY <1>1, <2>1 DEF DoneIsKnown, Interrupted
<1> QED
  BY <1>5, <1>6, <1>7, <1>8, <1>9 DEF IInv, SetupInv

-----------------------------------------------------------------------------
(* What happens to the process and to the host.                            *)

LEMMA DiesKeeps ==
    ASSUME IInv, Dies
    PROVE  IInv'
<1> DEFINE unchanged == {"preflight", "ssh_hardening"} \cup stuck
           touched == CASE Moving -> memory.members \cup {"ssh_hardening"}
                        [] pc = "execute" /\ ~Moving -> {Head(queue)} \ unchanged
                        [] OTHER -> {}
<1>1. /\ pc # "idle" /\ Fault /\ Exit("killed") /\ UNCHANGED <<file, chosen, requests>>
      /\ pc = "execute" => Sticks(Head(queue))
      /\ pc # "execute" => UNCHANGED stuck
  BY DEF Dies
<1>2. PICK lost \in SUBSET Collateral :
        Answers({}, touched, lost) /\ Suspects(Unrecorded \cup lost)
  BY DEF Dies
<1>3. /\ ok' \in [Phase -> BOOLEAN]
      /\ \A p \in Phase \ touched : p \notin lost => ok'[p] = ok[p]
  <2> HIDE DEF touched
  <2> QED
    BY <1>2, AnswersFacts DEF IInv, TypeOK
<1>4. /\ suspect' \subseteq Phase
      /\ \A q \in suspect \cup Unrecorded \cup lost : ok'[q] \/ q \in suspect'
  <2>1. pc \in {"execute", "failed"} => Head(queue) \in Phase
    BY HeadIsMember DEF IInv, TypeOK, SetupInv, InAPhase
  <2> QED
    BY <1>2, <2>1, LostPhases DEF IInv, TypeOK, Unrecorded, Suspects
<1>5. stuck' \subseteq Refusing
  BY <1>1, SticksType DEF IInv, TypeOK
<1>6. ASSUME NEW q \in Phase \ {"ssh_hardening"}, file.status[q] = "done", ~ok'[q]
      PROVE  q \in suspect' \/ (Interrupted(file) /\ q \in file.members)
  <2>1. CASE ~ok[q] \/ q \in lost
    BY <2>1, <1>4, <1>6 DEF IInv, SetupInv, DoneIsKnown, Unrecorded
  <2>2. CASE ok[q] /\ q \notin lost /\ Moving
    <3>1. q \in touched
      BY <2>2, <1>3, <1>6
    <3>2. q \in memory.members
      BY <2>2, <3>1
    <3> QED
      BY <2>2, <3>2, InTransaction
  <2>3. CASE ok[q] /\ q \notin lost /\ ~Moving
    <3>1. q \in touched
      BY <2>3, <1>3, <1>6
    <3>2. pc = "execute" /\ q = Head(queue) /\ q # "preflight"
      BY <2>3, <3>1
    <3>3. ~Setup
      BY <3>2, <1>6 DEF IInv, SetupInv, FileKnows
    <3>4. command = "component"
      BY <3>2, <3>3 DEF IInv, TypeOK, SetupInv, Resting, Setup
    <3>5. q \in Unrecorded
      BY <3>2, <3>4 DEF Unrecorded
    <3> QED
      BY <3>5, <1>4, <1>6
  <2> QED
    BY <2>1, <2>2, <2>3
<1> HIDE DEF touched
<1> QED
  BY <1>1, <1>3, <1>4, <1>5, <1>6, Ended, FaultCounts DEF IInv, TypeOK

LEMMA DriftKeeps ==
    ASSUME IInv, Drift
    PROVE  IInv'
<1>1. /\ pc = "idle" /\ Fault
      /\ UNCHANGED <<file, memory, command, queue, pc, finished, chosen, requests>>
  BY DEF Drift
<1>2. PICK p \in Phase : ok' = [ok EXCEPT ![p] = FALSE] /\ Suspects({p}) /\ Sticks(p)
  BY DEF Drift
<1>3. TypeOK'
  BY <1>1, <1>2, FaultCounts, SticksType DEF IInv, TypeOK, Suspects
<1>4. Resting' /\ InAPhase' /\ RecoveryAhead' /\ RecoveryComesFirst' /\ FileKnows'
      /\ SavedBetween' /\ BehindIsSettled'
  BY <1>1 DEF IInv, SetupInv, Resting, InAPhase, RecoveryAhead, RecoveryComesFirst, FileKnows,
     SavedBetween, BehindIsSettled, Setup, Interrupted
<1>5. SkippedIsKnown'
  BY <1>1 DEF IInv, SetupInv, SkippedIsKnown, MayUnskip, Interrupted
<1>6. DoneIsKnown'
  BY <1>1, <1>2 DEF IInv, TypeOK, SetupInv, DoneIsKnown, Interrupted, Suspects
<1> QED
  BY <1>3, <1>4, <1>5, <1>6 DEF IInv, SetupInv

LEMMA MendKeeps ==
    ASSUME IInv, Mend
    PROVE  IInv'
<1>1. /\ ok' = [ok EXCEPT !["preflight"] = TRUE] /\ Suspects({})
      /\ UNCHANGED <<file, memory, command, queue, pc, finished, chosen, stuck,
                     requests, faults>>
  BY DEF Mend
<1>2. ok' \in [Phase -> BOOLEAN] /\ \A p \in Phase : ok[p] => ok'[p]
  BY <1>1 DEF IInv, TypeOK
<1>suspect. /\ suspect' \subseteq Phase
            /\ \A q \in suspect : ok'[q] \/ q \in suspect'
  BY <1>1 DEF IInv, TypeOK, Suspects
<1>3. TypeOK'
  BY <1>1, <1>2, <1>suspect DEF IInv, TypeOK
<1>4. Resting' /\ RecoveryAhead' /\ RecoveryComesFirst' /\ FileKnows' /\ SavedBetween'
  BY <1>1 DEF IInv, SetupInv, Resting, RecoveryAhead, RecoveryComesFirst, FileKnows,
     SavedBetween, Setup, Interrupted
<1>5. InAPhase'
  <2>1. pc = "done" => Head(queue) \in Phase
    BY HeadIsMember DEF IInv, TypeOK, SetupInv, InAPhase
  <2> QED
    BY <1>1, <1>2, <2>1 DEF IInv, SetupInv, InAPhase, Setup, Interrupted, Verifies
<1>6. BehindIsSettled'
  <2>1. ASSUME NEW q \in ToSet(memory.order), Verifies(q) \/ LostSince(q)
        PROVE  Verifies(q)' \/ LostSince(q)'
    <3>1. q \in Phase
      BY MembersTyped DEF IInv, TypeOK, State
    <3>2. CASE ok[q] = ok'[q]
      BY <1>1, <1>suspect, <2>1, <3>1, <3>2, BehindStays
    <3>3. CASE ok'[q] /\ q # "ssh_hardening"
      BY <3>3 DEF Verifies
    <3>4. q = "ssh_hardening" => ok'[q] = ok[q]
      BY <1>1, <3>1 DEF IInv, TypeOK
    <3> QED
      BY <1>1, <1>2, <3>1, <3>2, <3>3, <3>4 DEF IInv, TypeOK
  <2> QED
    BY <1>1, <2>1 DEF IInv, SetupInv, BehindIsSettled, Setup
<1>7. SkippedIsKnown' /\ DoneIsKnown'
  BY <1>1, <1>2, <1>suspect
     DEF IInv, SetupInv, SkippedIsKnown, MayUnskip, DoneIsKnown, Interrupted
<1> QED
  BY <1>3, <1>4, <1>5, <1>6, <1>7 DEF IInv, SetupInv

-----------------------------------------------------------------------------
(* What a step may write to state.json.                                    *)

Written ==
    /\ file'.order = memory.order
    /\ \A p \in Phase : \/ file'.status[p] = memory.status[p]
                        \/ memory.status[p] # "skipped"
                        \/ MayUnskip(p)

LEMMA RunWrites ==
    ASSUME IInv, Run
    PROVE  file' = file \/ Written
<1> DEFINE p == Head(queue)
           running == [memory EXCEPT !.status[p] = "running"]
<1>1. /\ pc = "next" /\ queue # <<>> /\ ~Settled(p) /\ file' \in {file, running}
  BY DEF Run, Saved, NotSaved
<1>2. p \in Phase /\ memory \in State /\ "running" \in Status
  BY <1>1, HeadIsMember DEF IInv, TypeOK, Status
<1> HIDE DEF p
<1>3. /\ running.order = memory.order
      /\ \A q \in Phase \ {p} : running.status[q] = memory.status[q]
  BY <1>2, Recording
<1>4. memory.status[p] # "skipped" \/ MayUnskip(p)
  BY <1>1 DEF IInv, SetupInv, FileKnows, Settled, Recovering, MayUnskip, Interrupted
<1> HIDE DEF running
<1> QED
  BY <1>1, <1>3, <1>4 DEF Written

LEMMA ConcludeWrites ==
    ASSUME IInv, Conclude
    PROVE  file' = file \/ Written
<1> DEFINE p == Head(queue)
           ended == [memory EXCEPT !.status[p] = pc]
<1>1. pc \in {"done", "skipped", "failed"} /\ queue # <<>> /\ file' \in {file, ended}
  BY DEF Conclude, Saved, NotSaved
<1>2. p \in Phase /\ memory \in State /\ pc \in Status
  BY <1>1, HeadIsMember DEF IInv, TypeOK, Status
<1>3. memory.status[p] # "skipped" \/ MayUnskip(p)
  <2>1. command # "none"
    BY <1>1 DEF IInv, SetupInv, Resting
  <2>2. Setup => memory.status[p] # "skipped"
    BY <1>1 DEF IInv, SetupInv, InAPhase
  <2> QED
    BY <2>1, <2>2 DEF IInv, TypeOK, Setup, MayUnskip
<1> HIDE DEF p
<1>4. /\ ended.order = memory.order
      /\ \A q \in Phase \ {p} : ended.status[q] = memory.status[q]
  BY <1>2, Recording
<1> HIDE DEF ended
<1> QED
  BY <1>1, <1>3, <1>4 DEF Written

LEMMA TransactionWrites ==
    ASSUME IInv, Moving,
           NEW mode, NEW synced \in SUBSET memory.members, NEW result,
           EndsTransaction(mode, synced, result), file' \in {file, memory'}
    PROVE  file' = file \/ Written
<1>1. Head(queue) = "ssh_hardening" /\ memory \in State
  BY InTransaction
<1>2. memory' = [memory EXCEPT !.ssh = mode, !.members = {},
                               !.status = Synchronized(@, synced)]
  BY DEF EndsTransaction
<1>3. /\ memory'.order = memory.order
      /\ \A p \in Phase : p \notin synced => memory'.status[p] = memory.status[p]
  BY <1>1, <1>2 DEF State, Synchronized
<1> QED
  BY <1>1, <1>3 DEF Written, MayUnskip

LEMMA Writes ==
    ASSUME IInv, [Next]_vars
    PROVE  file' = file \/ Written
<1>1. CASE Run
  BY <1>1, RunWrites
<1>2. CASE Conclude
  BY <1>2, ConcludeWrites
<1>3. CASE Migrates
  <2>1. Here("ssh_hardening") /\ file' = memory'
    BY <1>3 DEF Migrates, Saved
  <2>2. PICK members : memory' = [memory EXCEPT !.ssh = "interrupted", !.members = members]
    BY <1>3 DEF Migrates
  <2>3. memory'.order = memory.order /\ memory'.status = memory.status
    BY <2>1, <2>2, HereFacts DEF State
  <2> QED
    BY <2>1, <2>3 DEF Written
<1>4. CASE Finalizes
  BY <1>4, TransactionWrites DEF Finalizes, Saved, Moving
<1>5. CASE RollsBack
  <2>1. CASE InRecovery /\ EndsTransaction("open", memory.members, "skipped") /\ Saved
    BY <2>1, TransactionWrites DEF Saved, Moving
  <2>2. CASE /\ Moving
             /\ \E synced \in {memory.members, memory.members \ {"firewall"}},
                   result \in IF InRecovery THEN {"skipped", "failed"} ELSE {"failed"} :
                  EndsTransaction("open", synced, result)
             /\ file' \in IF pc' = "failed" THEN {file, memory'} ELSE {memory'}
    <3>1. PICK synced \in SUBSET memory.members, result \in {"skipped", "failed"} :
                 EndsTransaction("open", synced, result)
      BY <2>2
    <3> QED
      BY <2>2, <3>1, TransactionWrites
  <2> QED
    BY <1>5, <2>1, <2>2 DEF RollsBack
<1>6. CASE Start \/ Resume
  BY <1>6 DEF Start, StartScope, RefuseScope, StartComponent, Resume, Begin
<1>7. CASE Skip \/ Finish \/ VerifierRaises \/ Executor
  BY <1>7 DEF Skip, Finish, VerifierRaises, Executor, Succeeds, Declines, Fails
<1>8. CASE ChecksSSH \/ KeepsPort \/ StaysInterrupted \/ Dies \/ Drift \/ Mend
  BY <1>8 DEF ChecksSSH, KeepsPort, StaysInterrupted, Dies, Drift, Mend
<1>9. CASE UNCHANGED vars
  BY <1>9 DEF vars
<1> QED
  BY <1>1, <1>2, <1>3, <1>4, <1>5, <1>6, <1>7, <1>8, <1>9
     DEF Next, Process, Loop, SSHExecutor

-----------------------------------------------------------------------------
(* IInv is inductive.                                                      *)

LEMMA StepKeeps ==
    ASSUME IInv, [Next]_vars
    PROVE  IInv'
<1>1. CASE Start
  <2>1. CASE StartScope("base", BasePhases) \/ StartScope("full", DefaultPhases)
    BY <2>1, StartScopeKeeps, Orders
  <2>2. CASE RefuseScope(BasePhases) \/ RefuseScope(DefaultPhases)
    BY <2>2, RefuseScopeKeeps
  <2>3. CASE \E p \in Commands : StartComponent(p)
    BY <2>3, StartComponentKeeps
  <2> QED
    BY <1>1, <2>1, <2>2, <2>3 DEF Start
<1>2. CASE Resume
  BY <1>2, ResumeKeeps
<1>3. CASE Loop
  BY <1>3, SkipKeeps, RunKeeps, FinishKeeps, ConcludeKeeps DEF Loop
<1>4. CASE Executor
  BY <1>4, SucceedsKeeps, DeclinesKeeps, FailsKeeps DEF Executor
<1>5. CASE SSHExecutor
  BY <1>5, ChecksSSHKeeps, KeepsPortKeeps, MigratesKeeps, FinalizesKeeps, RollsBackKeeps,
     StaysInterruptedKeeps DEF SSHExecutor
<1>6. CASE VerifierRaises \/ Dies \/ Drift \/ Mend
  BY <1>6, VerifierRaisesKeeps, DiesKeeps, DriftKeeps, MendKeeps
<1>7. CASE UNCHANGED vars
  BY <1>7 DEF vars, IInv, TypeOK, SetupInv, Resting, InAPhase, RecoveryAhead, FileKnows,
     SavedBetween, BehindIsSettled, SkippedIsKnown, DoneIsKnown, RecoveryComesFirst, MayUnskip,
     Setup, Interrupted, Verifies, LostSince
<1> QED
  BY <1>1, <1>2, <1>3, <1>4, <1>5, <1>6, <1>7 DEF Next, Process

LEMMA Inductive == Spec => []IInv
<1>1. Init => IInv
  BY InitType, InitInv DEF IInv
<1>2. IInv /\ [Next]_vars => IInv'
  BY StepKeeps
<1> QED
  BY <1>1, <1>2, PTL DEF Spec

(* The variables of the orchestrator keep their types: in particular every *)
(* phase order it works through is a sequence of known phases.             *)
THEOREM SetupTypeCorrect == Spec => []TypeOK
<1>1. IInv => TypeOK
  BY DEF IInv
<1> QED
  BY <1>1, Inductive, PTL

(* What relates the process to its file holds in every state.              *)
THEOREM SetupInductive == Spec => []SetupInv
<1>1. IInv => SetupInv
  BY DEF IInv
<1> QED
  BY <1>1, Inductive, PTL

(* base, full and resume never leave an interrupted SSH migration behind   *)
(* them to work on another phase.                                          *)
THEOREM RecoversFirst == Spec => []RecoveryComesFirst
<1>1. IInv => RecoveryComesFirst
  BY DEF IInv, SetupInv
<1> QED
  BY <1>1, Inductive, PTL

(* A setup that reports it finished has every phase of its scope saved as  *)
(* skipped, or as done, and verified unless the rest of the run took from  *)
(* it what it needs (LostSince); no migration is interrupted.              *)
THEOREM FinishedIsVerified == Spec => []FinishedMeansVerified
<1>1. ASSUME IInv, Setup, pc = "next", queue = <<>>
      PROVE  /\ ~Interrupted(file)
             /\ \A p \in ToSet(memory.order) :
                  /\ file.status[p] = memory.status[p]
                  /\ \/ file.status[p] = "skipped"
                     \/ file.status[p] = "done" /\ (Verifies(p) \/ LostSince(p))
  <2>1. ~Interrupted(file)
    BY <1>1 DEF IInv, SetupInv, RecoveryComesFirst, FileKnows, Interrupted
  <2>2. ToSet(queue) = {} /\ ToSet(memory.order) \subseteq Phase
    BY <1>1, MembersTyped, EmptySeq DEF ToSet, IInv, TypeOK, State
  <2>3. \A p \in ToSet(memory.order) :
          \/ memory.status[p] = "skipped"
          \/ memory.status[p] = "done" /\ (Verifies(p) \/ LostSince(p))
    BY <1>1, <2>2 DEF IInv, SetupInv, BehindIsSettled
  <2> QED
    BY <1>1, <2>1, <2>2, <2>3 DEF IInv, SetupInv, SavedBetween
<1>2. IInv => FinishedMeansVerified
  BY <1>1 DEF FinishedMeansVerified
<1> QED
  BY <1>2, Inductive, PTL

(* Between two processes a phase recorded as done verifies, unless one of  *)
(* the causes that DoneIsTrue lists accounts for it.                       *)
THEOREM DoneRecordsHold == Spec => []DoneIsTrue
<1>1. IInv => DoneIsTrue
  BY DEF IInv, SetupInv, DoneIsKnown, DoneIsTrue
<1> QED
  BY <1>1, Inductive, PTL

(* No process takes a declined phase out of skipped, but for its own       *)
(* command and the migration and recovery of SSH.                          *)
THEOREM SkippedRemains == Spec => SkippedStays
<1>1. ASSUME IInv, [Next]_vars, NEW p \in Phase,
             file.status[p] = "skipped", file'.status[p] # "skipped"
      PROVE  MayUnskip(p)
  <2>1. memory.status[p] = "skipped" \/ MayUnskip(p)
    BY <1>1 DEF IInv, SetupInv, SkippedIsKnown
  <2> QED
    BY <1>1, <2>1, Writes DEF Written
<1>2. IInv /\ [Next]_vars =>
        [\A p \in Phase :
           file.status[p] = "skipped" /\ file'.status[p] # "skipped" => MayUnskip(p)]_vars
  BY <1>1
<1> QED
  BY <1>2, Inductive, PTL DEF Spec, SkippedStays

(* Only base and full change the scope that is saved.                      *)
THEOREM ScopeRemains == Spec => ScopeKept
<1>1. ASSUME IInv, [Next]_vars, file.order # <<>>, file'.order # file.order
      PROVE  \/ command \in {"base", "full"}
             \/ /\ "admin_user" \in ToSet(file.order)
                /\ file'.order = AfterAdmin(file.order)
  BY <1>1, Writes DEF Written, IInv, SetupInv, FileKnows
<1>2. IInv /\ [Next]_vars =>
        [file.order # <<>> /\ file'.order # file.order =>
           \/ command \in {"base", "full"}
           \/ "admin_user" \in ToSet(file.order) /\ file'.order = AfterAdmin(file.order)]_vars
  BY <1>1
<1> QED
  BY <1>2, Inductive, PTL DEF Spec, ScopeKept
=============================================================================
