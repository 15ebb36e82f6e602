---------------------------- MODULE LanesProofs ----------------------------
(* The api key, the login limiter and the rate limiter: what a rotation    *)
(* leaves, how long a lock stands and what a sweep may forget.             *)
EXTENDS MCAccounts, TLAPS

allVars == <<vars, rest, clock, lane>>

-----------------------------------------------------------------------------
(* The api key.                                                            *)

\* A rotation's incumbent is a row, and rows stay; outside its lane there are none.
KeysKept ==
  /\ lane = "keys" =>
       /\ Keys!TypeOK
       /\ \A a \in Request : rotation[a] # None /\ rotation[a].incumbent # None =>
            key[rotation[a].incumbent] # None
  /\ lane # "keys" => key = [k \in Key |-> None]

\* A row of the api_key table.
KeyRow == [expires : Nat \cup {None}, revoked : BOOLEAN]

LEMMA FreshIsARow == Keys!Fresh \in KeyRow /\ Keys!Fresh # None
<1>1. Keys!Fresh \in KeyRow
  BY DEF Keys!Fresh, KeyRow
<1>2. None \notin KeyRow
  BY LanesAssumption DEF KeyRow
<1> QED
  BY <1>1, <1>2

\* A row keeps to its type when a rotation ends it, and no row goes.
LEMMA RetiredIsARow ==
  ASSUME KeysKept, lane = "keys", NEW a \in Request, rotation[a] # None
  PROVE  /\ Keys!Superseded(a) \in [Key -> KeyRow \cup {None}]
         /\ \A k \in Key : key[k] # None => Keys!Superseded(a)[k] # None
         /\ \A k \in Key : k # rotation[a].incumbent => Keys!Superseded(a)[k] = key[k]
<1> DEFINE found == rotation[a].incumbent
<1> DEFINE ended == [key[found] EXCEPT !.expires = rotation[a].deadline]
<1>1. /\ rotation[a] \in [incumbent : Key \cup {None}, deadline : Nat]
      /\ key \in [Key -> KeyRow \cup {None}]
  BY DEF KeysKept, Keys!TypeOK, KeyRow
<1>2. CASE found = None
  BY <1>1, <1>2, LanesAssumption DEF Keys!Superseded
<1>3. CASE found # None
  <2>1. found \in Key /\ key[found] \in KeyRow
    BY <1>1, <1>3 DEF KeysKept
  <2>2. ended \in KeyRow /\ ended # None
    BY <1>1, <2>1, LanesAssumption DEF KeyRow
  <2>3. Keys!Superseded(a) = [key EXCEPT ![found] = ended]
    BY <1>3 DEF Keys!Superseded
  <2> QED
    BY <1>1, <2>1, <2>2, <2>3
<1> QED
  BY <1>2, <1>3

LEMMA KeysStart == LaneInit => KeysKept
BY LanesAssumption DEF LaneInit, KeysKept, Keys!TypeOK

LEMMA KeysNext == KeysKept /\ [LaneNext]_allVars => KeysKept'
<1> SUFFICES ASSUME KeysKept, [LaneNext]_allVars PROVE KeysKept'
  OBVIOUS
<1>1. CASE UNCHANGED <<lane, key, rotation, clock>>
  BY <1>1 DEF KeysKept, Keys!TypeOK
<1>2. CASE lane # "keys" /\ LaneNext
  BY <1>2 DEF LaneNext, KeysKept, rest
<1>3. CASE lane = "keys" /\ LaneNext
  <2>1. lane = "keys" /\ lane' = "keys" /\ Keys!Next /\ Keys!TypeOK
    BY <1>3 DEF LaneNext, KeysKept
  <2>2. ASSUME NEW k \in Key, Keys!Create(k) PROVE KeysKept'
    <3>1. Keys!Fresh \in KeyRow /\ Keys!Fresh # None
      BY FreshIsARow
    <3> QED
      BY <2>1, <2>2, <3>1 DEF KeysKept, Keys!TypeOK, Keys!Create, KeyRow
  <2>3. ASSUME NEW k \in Key, Keys!Revoke(k) PROVE KeysKept'
    <3> DEFINE revoked == [key[k] EXCEPT !.revoked = TRUE]
    <3>1. revoked \in KeyRow /\ revoked # None
      BY <2>1, <2>3, LanesAssumption DEF Keys!TypeOK, Keys!Revoke, Keys!Exists, KeyRow
    <3>2. key' = [key EXCEPT ![k] = revoked]
      BY <2>3 DEF Keys!Revoke
    <3> HIDE DEF revoked
    <3> QED
      BY <2>1, <2>3, <3>1, <3>2 DEF KeysKept, Keys!TypeOK, Keys!Revoke, KeyRow
  <2>4. ASSUME NEW a \in Request, NEW k \in Key, Keys!Rotate(a, k) PROVE KeysKept'
    <3>1. Keys!Fresh \in KeyRow /\ Keys!Fresh # None
      BY FreshIsARow
    <3>2. /\ rotation[a] # None /\ rotation' = [rotation EXCEPT ![a] = None]
          /\ key' = [Keys!Superseded(a) EXCEPT ![k] = Keys!Fresh] /\ clock' = clock
      BY <2>4 DEF Keys!Rotate
    <3>3. /\ Keys!Superseded(a) \in [Key -> KeyRow \cup {None}]
          /\ \A x \in Key : key[x] # None => Keys!Superseded(a)[x] # None
      BY <1>3, <3>2, RetiredIsARow
    <3>4. /\ key' \in [Key -> KeyRow \cup {None}]
          /\ \A x \in Key : key[x] # None => key'[x] # None
      BY <3>1, <3>2, <3>3
    <3> QED
      BY <2>1, <3>2, <3>4, LanesAssumption DEF KeysKept, Keys!TypeOK, KeyRow
  <2>5. ASSUME NEW a \in Request, Keys!RollBack(a) PROVE KeysKept'
    BY <2>1, <2>5 DEF KeysKept, Keys!TypeOK, Keys!RollBack
  <2>6. ASSUME NEW a \in Request, NEW overlap \in Overlap, Keys!BeginRotation(a, overlap)
        PROVE  KeysKept'
    <3>1. PICK found \in Key \cup {None} :
            /\ found # None => Keys!Current(found)
            /\ rotation' = [rotation EXCEPT ![a] = [incumbent |-> found, deadline |-> clock + overlap]]
      BY <2>6 DEF Keys!BeginRotation
    <3>2. clock + overlap \in Nat /\ clock \in Nat
      BY <2>1, LanesAssumption DEF Keys!TypeOK
    <3> QED
      BY <2>1, <2>6, <3>1, <3>2, LanesAssumption
      DEF KeysKept, Keys!TypeOK, Keys!BeginRotation, Keys!Current, Keys!Exists
  <2>7. CASE Keys!Tick
    BY <2>1, <2>7 DEF KeysKept, Keys!TypeOK, Keys!Tick
  <2> QED
    BY <2>1, <2>2, <2>3, <2>4, <2>5, <2>6, <2>7 DEF Keys!Next
<1> QED
  BY <1>1, <1>2, <1>3 DEF allVars, rest

LEMMA KeysAlways == LaneSpec => []KeysKept
<1>1. LaneInit => KeysKept
  BY KeysStart
<1>2. KeysKept /\ [LaneNext]_allVars => KeysKept'
  BY KeysNext
<1> QED
  BY <1>1, <1>2, PTL DEF LaneSpec, allVars

\* What a rotation leaves of a key that is neither its incumbent nor its new one.
LEMMA RotationLeaves ==
  ASSUME KeysKept, lane = "keys", NEW a \in Request, NEW k \in Key, Keys!Rotate(a, k),
         NEW x \in Key, x # k, x # rotation[a].incumbent
  PROVE  key'[x] = key[x]
<1>1. /\ Keys!Superseded(a) \in [Key -> KeyRow \cup {None}]
      /\ Keys!Superseded(a)[x] = key[x]
  BY RetiredIsARow DEF Keys!Rotate
<1> QED
  BY <1>1 DEF Keys!Rotate

LEMMA RotationCrowns ==
  ASSUME KeysKept, lane = "keys", NEW a \in Request, NEW k \in Key, Keys!Rotate(a, k)
  PROVE  Keys!HasCurrent'
<1>1. Keys!Superseded(a) \in [Key -> KeyRow \cup {None}]
  BY RetiredIsARow DEF Keys!Rotate
<1>2. key'[k] = Keys!Fresh
  BY <1>1 DEF Keys!Rotate
<1>3. Keys!Current(k)'
  BY <1>2, FreshIsARow DEF Keys!Current, Keys!Exists, Keys!Fresh
<1> QED
  BY <1>3 DEF Keys!HasCurrent

\* No key becomes current, revoked, or changes at all outside its lane.
LEMMA KeysAlone ==
  ASSUME KeysKept, [LaneNext]_allVars, lane # "keys" \/ ~Keys!Next
  PROVE  key' = key /\ (lane = "keys" => UNCHANGED clock)
BY DEF LaneNext, allVars, rest

LEMMA CurrentGoesByRevocation ==
  ASSUME KeysKept, [LaneNext]_allVars, Keys!HasCurrent, ~Keys!HasCurrent'
  PROVE  \E k \in Key : Keys!Current(k) /\ key'[k].revoked
<1>1. PICK x \in Key : Keys!Current(x)
  BY DEF Keys!HasCurrent
<1>2. ~Keys!Current(x)'
  BY DEF Keys!HasCurrent
<1>3. key' # key
  BY <1>1, <1>2 DEF Keys!Current, Keys!Exists
<1>4. lane = "keys" /\ Keys!Next /\ Keys!TypeOK
  BY <1>3, KeysAlone DEF KeysKept
<1>5. PICK k \in Key : Keys!Create(k) \/ Keys!Revoke(k) \/ \E a \in Request : Keys!Rotate(a, k)
  BY <1>3, <1>4 DEF Keys!Next, Keys!RollBack, Keys!BeginRotation, Keys!Tick
<1>6. ~Keys!Create(k)
  BY DEF Keys!Create
<1>7. ~\E a \in Request : Keys!Rotate(a, k)
  BY <1>4, RotationCrowns
<1>8. Keys!Revoke(k)
  BY <1>5, <1>6, <1>7
<1>9. x = k /\ key'[k] = [key[k] EXCEPT !.revoked = TRUE] /\ key[k] \in KeyRow
  BY <1>1, <1>2, <1>4, <1>8 DEF Keys!Revoke, Keys!Current, Keys!Exists, Keys!TypeOK, KeyRow
<1> QED
  BY <1>1, <1>9 DEF KeyRow

LEMMA RetiredStaysRetired ==
  ASSUME KeysKept, [LaneNext]_allVars, NEW x \in Key, Keys!Retired(x), Keys!HasCurrent
  PROVE  /\ key'[x].expires = key[x].expires
         /\ ~Keys!Usable(x) => ~Keys!Usable(x)'
<1>1. lane = "keys" /\ Keys!TypeOK
  BY DEF KeysKept, Keys!Retired, Keys!Exists
<1>2. PICK y \in Key : Keys!Current(y)
  BY DEF Keys!HasCurrent
<1>3. /\ key[x] \in KeyRow /\ key[x].expires \in Nat /\ ~key[x].revoked
      /\ clock \in Nat /\ key[x] # None
  BY <1>1 DEF Keys!TypeOK, Keys!Retired, Keys!Exists, KeyRow
<1>4. CASE key'[x] = key[x] /\ clock' \in {clock, clock + 1}
  BY <1>3, <1>4, LanesAssumption
  DEF Keys!Usable, Keys!Retired, Keys!Current, Keys!Exists
<1>5. CASE Keys!Revoke(x)
  <2>1. key'[x].expires = key[x].expires /\ key'[x].revoked
    BY <1>1, <1>3, <1>5 DEF Keys!Revoke, Keys!TypeOK, KeyRow
  <2> QED
    BY <2>1 DEF Keys!Usable, Keys!Retired, Keys!Current
<1>6. CASE ~Keys!Next
  BY <1>1, <1>4, <1>6, KeysAlone
<1>7. CASE Keys!Next /\ ~Keys!Revoke(x)
  <2>1. ASSUME NEW k \in Key, Keys!Create(k) PROVE key'[x] = key[x] /\ clock' = clock
    BY <2>1 DEF Keys!Create, Keys!HasCurrent
  <2>2. ASSUME NEW k \in Key, Keys!Revoke(k) PROVE key'[x] = key[x] /\ clock' = clock
    BY <1>1, <1>7, <2>2 DEF Keys!Revoke, Keys!TypeOK
  <2>3. ASSUME NEW k \in Key, NEW a \in Request, Keys!Rotate(a, k)
        PROVE  key'[x] = key[x] /\ clock' = clock
    <3>1. y = rotation[a].incumbent
      BY <1>2, <2>3 DEF Keys!Rotate, Keys!IndexTakes
    <3>2. x # y /\ x # k
      BY <1>2, <1>3, <2>3 DEF Keys!Rotate, Keys!Exists, Keys!Current, Keys!Retired
    <3> QED
      BY <1>1, <2>3, <3>1, <3>2, RotationLeaves DEF Keys!Rotate
  <2>4. ASSUME NEW a \in Request, Keys!RollBack(a) PROVE key'[x] = key[x] /\ clock' = clock
    BY <2>4 DEF Keys!RollBack
  <2>5. ASSUME NEW a \in Request, NEW overlap \in Overlap, Keys!BeginRotation(a, overlap)
        PROVE  key'[x] = key[x] /\ clock' = clock
    BY <2>5 DEF Keys!BeginRotation
  <2>6. CASE Keys!Tick
    BY <1>4, <2>6 DEF Keys!Tick
  <2> QED
    BY <1>4, <1>7, <2>1, <2>2, <2>3, <2>4, <2>5, <2>6 DEF Keys!Next
<1> QED
  BY <1>5, <1>6, <1>7

\* Whatever fails, and whatever another admin does between a rotation's read
\* and its transaction: the account's current key goes only by a revocation
\* or to a successor, and a retired key's end moves no more
\* (APIKeyService.Rotate, APIKeyRepository.Rotate).
THEOREM KeysChangeHands == LaneSpec => KeysChangeHandsWhole
<1>1. KeysKept /\ [LaneNext]_allVars =>
        [Keys!HasCurrent /\ ~Keys!HasCurrent' =>
           \E k \in Key : Keys!Current(k) /\ key'[k].revoked]_Keys!vars
  BY CurrentGoesByRevocation
<1>2. KeysKept /\ [LaneNext]_allVars =>
        [\A k \in Key : Keys!Retired(k) /\ Keys!HasCurrent =>
           /\ key'[k].expires = key[k].expires
           /\ ~Keys!Usable(k) => ~Keys!Usable(k)']_Keys!vars
  BY RetiredStaysRetired
<1> QED
  BY <1>1, <1>2, KeysAlways, PTL
  DEF LaneSpec, allVars, KeysChangeHandsWhole, Keys!CurrentUntilRevoked, Keys!RetirementIsFinal

-----------------------------------------------------------------------------
(* The login limiter.                                                      *)

\* An entry of the limiter's map.
Entry == [failures : Nat, lockedUntil : Nat, lastActivity : Nat]

\* Outside its lane the map is empty.
AttemptsKept ==
  /\ lane = "logins" => Logins!TypeOK
  /\ lane # "logins" => state = [e \in Email |-> None]

\* No password check takes longer than Lag.
ChecksAreShort ==
  lane = "logins" => \A r \in Request : attempt[r] # None =>
    attempt[r].at <= clock /\ clock <= attempt[r].at + Lag

\* An entry's count and lock agree, and an entry is stale no sooner than a
\* check after its lock has run out.
EntrySound(st) ==
  /\ st.failures > Threshold => st.lastActivity < st.lockedUntil
  /\ st.lockedUntil # 0 => st.failures > Threshold
  /\ st.lockedUntil <= clock + Window
  /\ st.lockedUntil <= st.lastActivity + Window + Lag

EntriesSound ==
  lane = "logins" => \A e \in Email : state[e] # None => EntrySound(state[e])

LoginsKept == AttemptsKept /\ ChecksAreShort /\ EntriesSound

\* A failure counted at a moment no longer than Lag ago leaves a sound entry.
LEMMA StruckIsSound ==
  ASSUME LoginsKept, lane = "logins", NEW e \in Email, NEW now \in Nat,
         now <= clock, clock <= now + Lag
  PROVE  /\ Logins!Struck(e, now) \in Entry
         /\ EntrySound(Logins!Struck(e, now))
<1> DEFINE st == Logins!Counted(e, now)
<1> DEFINE new == Logins!Struck(e, now)
<1>1. clock \in Nat /\ Threshold \in Nat /\ Lag \in Nat /\ Window \in Nat /\ Window > 0
  BY LanesAssumption DEF LoginsKept, AttemptsKept, Logins!TypeOK
<1>2. /\ st \in Entry
      /\ st.failures > Threshold => now < st.lockedUntil
      /\ st.lockedUntil # 0 => st.failures > Threshold
      /\ st.lockedUntil <= clock + Window
  <2>1. CASE st = Logins!Fresh
    BY <1>1, <2>1 DEF Logins!Fresh, Entry
  <2>2. CASE /\ st = state[e] /\ state[e] # None
             /\ state[e].lockedUntil = 0 \/ ~(now >= state[e].lockedUntil)
    <3>1. state[e] \in Entry /\ EntrySound(state[e])
      BY <2>2 DEF LoginsKept, AttemptsKept, EntriesSound, Logins!TypeOK, Entry
    <3> QED
      BY <1>1, <2>2, <3>1 DEF EntrySound, Entry
  <2> QED
    BY <2>1, <2>2 DEF Logins!Counted
<1>3. new = [failures |-> st.failures + 1, lastActivity |-> now,
             lockedUntil |-> IF st.failures + 1 = Threshold + 1 THEN now + Window ELSE st.lockedUntil]
  BY DEF Logins!Struck
<1> HIDE DEF st
<1>4. new \in Entry
  BY <1>1, <1>2, <1>3 DEF Entry
<1>5. CASE st.failures = Threshold
  BY <1>1, <1>2, <1>3, <1>5 DEF EntrySound, Entry
<1>6. CASE st.failures # Threshold
  BY <1>1, <1>2, <1>3, <1>6 DEF EntrySound, Entry
<1> QED
  BY <1>4, <1>5, <1>6

\* The moment a failure is counted at, and the entries it leaves.
LEMMA FailureCounts ==
  ASSUME LoginsKept, lane = "logins", NEW r \in Request, Logins!RecordFailure(r)
  PROVE  \E now \in Nat :
           /\ attempt[r] # None /\ attempt[r].email \in Email
           /\ now <= clock /\ clock <= now + Lag
           /\ state' = [x \in Email |-> IF x = attempt[r].email THEN Logins!Struck(x, now)
                                        ELSE IF x \in Logins!Swept(attempt[r].email, now)
                                             THEN None ELSE state[x]]
<1> DEFINE now == IF attempt[r].form THEN clock ELSE attempt[r].at
<1>1. /\ attempt[r] # None /\ attempt[r] \in [email : Email, at : Nat, form : BOOLEAN]
      /\ clock \in Nat /\ Lag \in Nat
  BY LanesAssumption DEF LoginsKept, AttemptsKept, Logins!TypeOK, Logins!RecordFailure
<1>2. attempt[r].at <= clock /\ clock <= attempt[r].at + Lag
  BY <1>1 DEF LoginsKept, ChecksAreShort
<1>3. now \in Nat /\ now <= clock /\ clock <= now + Lag
  BY <1>1, <1>2
<1> QED
  BY <1>1, <1>3 DEF Logins!RecordFailure

LEMMA LoginsStart == LaneInit => LoginsKept
BY LanesAssumption
DEF LaneInit, LoginsKept, AttemptsKept, ChecksAreShort, EntriesSound, Logins!TypeOK

LEMMA LoginsNext == LoginsKept /\ [LaneNext]_allVars => LoginsKept'
<1> SUFFICES ASSUME LoginsKept, [LaneNext]_allVars PROVE LoginsKept'
  OBVIOUS
<1>1. CASE UNCHANGED <<lane, state, attempt, clock>>
  BY <1>1 DEF LoginsKept, AttemptsKept, ChecksAreShort, EntriesSound, EntrySound, Logins!TypeOK
<1>2. CASE lane # "logins" /\ LaneNext
  BY <1>2 DEF LaneNext, LoginsKept, AttemptsKept, ChecksAreShort, EntriesSound, rest
<1>3. CASE lane = "logins" /\ LaneNext
  <2>1. lane = "logins" /\ lane' = "logins" /\ Logins!Next
    BY <1>3 DEF LaneNext
  <2>2. /\ state \in [Email -> Entry \cup {None}]
        /\ attempt \in [Request -> [email : Email, at : Nat, form : BOOLEAN] \cup {None}]
        /\ clock \in Nat /\ Lag \in Nat /\ Window \in Nat
    BY <2>1, LanesAssumption DEF LoginsKept, AttemptsKept, Logins!TypeOK, Entry
  <2>3. ASSUME NEW r \in Request, attempt' = [attempt EXCEPT ![r] = None], clock' = clock,
               state' \in [Email -> Entry \cup {None}],
               \A e \in Email : state'[e] # None => EntrySound(state'[e])
        PROVE  LoginsKept'
    <3>1. AttemptsKept'
      BY <2>1, <2>2, <2>3 DEF AttemptsKept, Logins!TypeOK, Entry
    <3>2. ChecksAreShort'
      BY <2>1, <2>2, <2>3 DEF LoginsKept, ChecksAreShort
    <3>3. EntriesSound'
      BY <2>1, <2>3 DEF EntriesSound, EntrySound
    <3> QED
      BY <3>1, <3>2, <3>3 DEF LoginsKept
  <2>4. \A e \in Email : state[e] # None => EntrySound(state[e])
    BY <2>1 DEF LoginsKept, EntriesSound
  <2>5. ASSUME NEW r \in Request, Logins!RecordFailure(r) PROVE LoginsKept'
    <3>1. PICK now \in Nat :
            /\ attempt[r].email \in Email /\ now <= clock /\ clock <= now + Lag
            /\ state' = [x \in Email |-> IF x = attempt[r].email THEN Logins!Struck(x, now)
                                         ELSE IF x \in Logins!Swept(attempt[r].email, now)
                                              THEN None ELSE state[x]]
      BY <2>1, <2>5, FailureCounts
    <3>2. /\ Logins!Struck(attempt[r].email, now) \in Entry
          /\ EntrySound(Logins!Struck(attempt[r].email, now))
      BY <2>1, <3>1, StruckIsSound
    <3>3. state' \in [Email -> Entry \cup {None}]
      BY <2>2, <3>1, <3>2
    <3>4. \A e \in Email : state'[e] # None => EntrySound(state'[e])
      BY <2>4, <3>1, <3>2, Zenon
    <3> QED
      BY <2>3, <2>5, <3>3, <3>4 DEF Logins!RecordFailure
  <2>6. ASSUME NEW r \in Request, Logins!RecordSuccess(r) PROVE LoginsKept'
    <3>1. /\ state' \in [Email -> Entry \cup {None}]
          /\ \A e \in Email : state'[e] # None => EntrySound(state'[e])
      BY <2>2, <2>4, <2>6 DEF Logins!RecordSuccess
    <3> QED
      BY <2>3, <2>6, <3>1 DEF Logins!RecordSuccess
  <2>7. ASSUME NEW r \in Request, Logins!Fail(r) PROVE LoginsKept'
    BY <2>2, <2>3, <2>4, <2>7 DEF Logins!Fail
  <2>8. ASSUME NEW r \in Request, NEW e \in Email, NEW form \in BOOLEAN, Logins!Begin(r, e, form)
        PROVE  LoginsKept'
    <3> DEFINE begun == [email |-> e, at |-> clock, form |-> form]
    <3>1. /\ attempt' = [attempt EXCEPT ![r] = begun] /\ UNCHANGED <<state, clock>>
          /\ begun \in [email : Email, at : Nat, form : BOOLEAN] /\ begun.at = clock
      BY <2>2, <2>8 DEF Logins!Begin
    <3> HIDE DEF begun
    <3>2. AttemptsKept'
      BY <2>1, <2>2, <3>1 DEF AttemptsKept, Logins!TypeOK, Entry
    <3>3. ChecksAreShort'
      BY <2>1, <2>2, <3>1 DEF LoginsKept, ChecksAreShort
    <3>4. EntriesSound'
      BY <2>1, <2>4, <3>1 DEF EntriesSound, EntrySound
    <3> QED
      BY <3>2, <3>3, <3>4 DEF LoginsKept
  <2>9. CASE Logins!Tick
    <3>1. clock' = clock + 1 /\ UNCHANGED <<state, attempt>>
      BY <2>9 DEF Logins!Tick
    <3>2. AttemptsKept'
      BY <2>1, <2>2, <3>1 DEF AttemptsKept, Logins!TypeOK, Entry
    <3>3. ChecksAreShort'
      BY <2>1, <2>2, <2>9 DEF LoginsKept, ChecksAreShort, Logins!Tick
    <3>4. EntriesSound'
      BY <2>1, <2>2, <2>4, <3>1 DEF EntriesSound, EntrySound, Entry
    <3> QED
      BY <3>2, <3>3, <3>4 DEF LoginsKept
  <2> QED
    BY <2>1, <2>5, <2>6, <2>7, <2>8, <2>9 DEF Logins!Next
<1> QED
  BY <1>1, <1>2, <1>3 DEF allVars, rest

LEMMA LoginsAlways == LaneSpec => []LoginsKept
<1>1. LaneInit => LoginsKept
  BY LoginsStart
<1>2. LoginsKept /\ [LaneNext]_allVars => LoginsKept'
  BY LoginsNext
<1> QED
  BY <1>1, <1>2, PTL DEF LaneSpec, allVars

\* What becomes of an entry whose lock has more than a check left to run.
LEMMA LockOutlasts ==
  ASSUME LoginsKept, [LaneNext]_allVars, NEW e \in Logins!Tracked,
         clock' + Lag < state[e].lockedUntil
  PROVE  \/ state'[e] # None /\ state'[e].lockedUntil = state[e].lockedUntil
         \/ \E r \in Request : /\ attempt[r] # None /\ attempt[r].email = e
                              /\ attempt'[r] = None /\ state'[e] = None
<1>1. e \in Email /\ state[e] # None
  BY DEF Logins!Tracked
<1>2. /\ lane = "logins" /\ Logins!TypeOK
      /\ state[e] \in Entry /\ EntrySound(state[e])
      /\ clock \in Nat /\ Lag \in Nat /\ Window \in Nat /\ Threshold \in Nat
  BY <1>1, LanesAssumption DEF LoginsKept, AttemptsKept, EntriesSound, Logins!TypeOK, Entry
<1>3. CASE state' = state
  BY <1>1, <1>3
<1>4. ASSUME NEW r \in Request, Logins!RecordFailure(r)
      PROVE  state'[e] # None /\ state'[e].lockedUntil = state[e].lockedUntil
  <2>1. PICK now \in Nat :
          /\ now <= clock
          /\ state' = [x \in Email |-> IF x = attempt[r].email THEN Logins!Struck(x, now)
                                       ELSE IF x \in Logins!Swept(attempt[r].email, now)
                                            THEN None ELSE state[x]]
    BY <1>2, <1>4, FailureCounts
  <2>2. clock' = clock
    BY <1>4 DEF Logins!RecordFailure
  <2>3. now < state[e].lockedUntil /\ state[e].failures + 1 # Threshold + 1
    BY <1>2, <2>1, <2>2 DEF EntrySound, Entry
  <2>4. CASE e = attempt[r].email
    <3>1. Logins!Counted(e, now) = state[e]
      BY <1>1, <1>2, <2>3 DEF Logins!Counted, Entry
    <3>2. state'[e] = [failures |-> state[e].failures + 1, lastActivity |-> now,
                       lockedUntil |-> state[e].lockedUntil]
      BY <1>1, <2>1, <2>3, <2>4, <3>1 DEF Logins!Struck
    <3>3. state'[e] \in Entry
      BY <1>2, <3>2 DEF Entry
    <3> QED
      BY <3>2, <3>3, LanesAssumption DEF Entry
  <2>5. CASE e # attempt[r].email
    <3>1. ~Logins!Stale(e, now)
      BY <1>2, <2>1, <2>2 DEF EntrySound, Entry, Logins!Stale
    <3>2. state'[e] = state[e]
      BY <1>1, <2>1, <2>5, <3>1 DEF Logins!Swept
    <3> QED
      BY <1>1, <3>2
  <2> QED
    BY <2>4, <2>5
<1>5. ASSUME NEW r \in Request, Logins!RecordSuccess(r)
      PROVE  \/ state'[e] = state[e]
             \/ attempt[r] # None /\ attempt[r].email = e /\ attempt'[r] = None /\ state'[e] = None
  BY <1>1, <1>2, <1>5 DEF Logins!RecordSuccess, Logins!TypeOK
<1>6. state' = state \/ \E r \in Request : Logins!RecordFailure(r) \/ Logins!RecordSuccess(r)
  BY <1>2 DEF LaneNext, allVars, rest, Logins!Next, Logins!Fail, Logins!Begin, Logins!Tick
<1> QED
  BY <1>1, <1>3, <1>4, <1>5, <1>6

\* However many password checks are in flight and however late each is
\* counted: the count never passes the threshold without a lock, and until a
\* check's length before its time nothing but the right password lifts that
\* lock, the sweep of a full map included (LoginAttemptLimiter).
THEOREM LocksHold == LaneSpec => LockHolds
<1>1. LoginsKept => Logins!NoCountPastTheLock
  BY DEF LoginsKept, AttemptsKept, EntriesSound, EntrySound, Logins!NoCountPastTheLock, Logins!Tracked
<1>2. LoginsKept /\ [LaneNext]_allVars =>
        [\A e \in Logins!Tracked : clock' + Lag < state[e].lockedUntil =>
           \/ state'[e] # None /\ state'[e].lockedUntil = state[e].lockedUntil
           \/ \E r \in Request : /\ attempt[r] # None /\ attempt[r].email = e
                                /\ attempt'[r] = None /\ state'[e] = None]_Logins!vars
  BY LockOutlasts
<1> QED
  BY <1>1, <1>2, LoginsAlways, PTL DEF LaneSpec, allVars, LockHolds, Logins!LockStands

-----------------------------------------------------------------------------
(* The rate limiter.                                                       *)

Bucket == [tokens : 0..Burst, at : Nat]

\* A bucket is full, or has had the time to be, or has rested for the window.
FullBy(b) == Burst <= b.tokens + Rate * (clock - b.at)
Rested(b) == FullBy(b) \/ Rate * StaleAfter <= b.tokens + Rate * (clock - b.at)

\* The map and the limiter that forgets nobody saw the last call of a client at
\* the same time, and an absent bucket has rested.
BucketsKept ==
  /\ clock \in Nat
  /\ ideal \in [Client -> Bucket]
  /\ bucket \in [Client -> Bucket \cup {None}]
  /\ \A c \in Client : ideal[c].at <= clock
  /\ \A c \in Client : bucket[c] # None =>
       bucket[c].at = ideal[c].at /\ Calls!Near(bucket[c].tokens, ideal[c].tokens)
  /\ \A c \in Client : bucket[c] = None => Rested(ideal[c])

LEMMA ProductsOrdered ==
  ASSUME NEW a \in Nat, NEW b \in Nat, NEW c \in Nat, b <= c
  PROVE  a * b \in Nat /\ a * c \in Nat /\ a * b <= a * c
OBVIOUS

\* A bucket's level is a number of tokens up to Burst, and Burst when it is full.
LEMMA Levels ==
  ASSUME NEW b \in Bucket, clock \in Nat, b.at <= clock
  PROVE  /\ Calls!Level(b) \in 0..Burst
         /\ b.tokens + Rate * (clock - b.at) \in Nat
         /\ Calls!Level(b) = IF FullBy(b) THEN Burst ELSE b.tokens + Rate * (clock - b.at)
<1> DEFINE level == b.tokens + Rate * (clock - b.at)
<1>1. Burst \in Nat /\ Rate \in Nat /\ clock - b.at \in Nat /\ b.tokens \in 0..Burst
  BY LanesAssumption DEF Bucket
<1>2. Rate * (clock - b.at) \in Nat
  BY <1>1, ProductsOrdered
<1>3. level \in Nat
  BY <1>1, <1>2
<1> HIDE DEF level
<1>4. Calls!Level(b) = Calls!Min({Burst, level})
  BY DEF Calls!Level, level
<1>5. PICK m \in {Burst, level} : \A y \in {Burst, level} : m <= y
  BY <1>1, <1>3
<1>6. Calls!Min({Burst, level}) \in {Burst, level} /\ \A y \in {Burst, level} : Calls!Min({Burst, level}) <= y
  BY <1>5 DEF Calls!Min
<1>7. FullBy(b) <=> Burst <= level
  BY DEF FullBy, level
<1>8. Calls!Level(b) \in 0..Burst /\ Calls!Level(b) = IF FullBy(b) THEN Burst ELSE level
  BY <1>1, <1>3, <1>4, <1>6, <1>7
<1> QED
  BY <1>3, <1>8 DEF level

LEMMA BucketsStart == LaneInit => BucketsKept
<1> SUFFICES ASSUME LaneInit PROVE BucketsKept
  OBVIOUS
<1>1. clock \in {0, 1} /\ Burst \in Nat /\ Rate \in Nat
  BY LanesAssumption DEF LaneInit
<1>2. Rate * (clock - 0) \in Nat
  BY <1>1, ProductsOrdered
<1> QED
  BY <1>1, <1>2 DEF LaneInit, BucketsKept, Bucket, FullBy, Rested

\* A bucket that has rested stays so.
LEMMA RestStays ==
  ASSUME NEW b \in Bucket, clock \in Nat, b.at <= clock, clock' \in {clock, clock + 1}, Rested(b)
  PROVE  /\ b.at <= clock'
         /\ \/ Burst <= b.tokens + Rate * (clock' - b.at)
            \/ Rate * StaleAfter <= b.tokens + Rate * (clock' - b.at)
<1>1. /\ Burst \in Nat /\ Rate \in Nat /\ StaleAfter \in Nat /\ b.tokens \in 0..Burst /\ b.at \in Nat
      /\ clock - b.at \in Nat /\ clock' - b.at \in Nat /\ clock - b.at <= clock' - b.at
  BY LanesAssumption DEF Bucket
<1>2. /\ Rate * (clock - b.at) \in Nat /\ Rate * (clock' - b.at) \in Nat
      /\ Rate * (clock - b.at) <= Rate * (clock' - b.at)
  BY <1>1, ProductsOrdered
<1> DEFINE before == Rate * (clock - b.at)
<1> DEFINE after == Rate * (clock' - b.at)
<1> DEFINE due == Rate * StaleAfter
<1>3. Burst <= b.tokens + before \/ due <= b.tokens + before
  BY DEF FullBy, Rested
<1>4. before \in Nat /\ after \in Nat /\ before <= after
  BY <1>2
<1>5. due \in Nat
  BY <1>1, ProductsOrdered
<1> HIDE DEF before, after, due
<1>6. Burst <= b.tokens + after \/ due <= b.tokens + after
  BY <1>1, <1>3, <1>4, <1>5
<1> QED
  BY <1>1, <1>6 DEF after, due

\* Remembered or not, a client's bucket is near the one that was never forgotten.
LEMMA LevelsNear ==
  ASSUME BucketsKept, NEW c \in Client
  PROVE  /\ Calls!Near(Calls!Level(Calls!LimiterFor(c)), Calls!Level(ideal[c]))
         /\ Calls!Level(Calls!LimiterFor(c)) \in 0..Burst /\ Calls!Level(ideal[c]) \in 0..Burst
<1> DEFINE due == Rate * StaleAfter
<1>1. /\ clock \in Nat /\ ideal[c] \in Bucket /\ ideal[c].at <= clock /\ Burst \in Nat
      /\ Rate \in Nat /\ due \in Nat
  BY LanesAssumption, ProductsOrdered DEF BucketsKept
<1>2. /\ Calls!Level(ideal[c]) \in 0..Burst
      /\ ideal[c].tokens + Rate * (clock - ideal[c].at) \in Nat
      /\ Calls!Level(ideal[c]) =
           IF FullBy(ideal[c]) THEN Burst ELSE ideal[c].tokens + Rate * (clock - ideal[c].at)
  BY <1>1, Levels
<1>3. CASE bucket[c] # None
  <2> DEFINE b == bucket[c]
             i == ideal[c]
             gain == Rate * (clock - i.at)
  <2>1. b \in Bucket /\ b.at = i.at /\ Calls!Near(b.tokens, i.tokens) /\ Calls!LimiterFor(c) = b
    BY <1>3 DEF BucketsKept, Calls!LimiterFor
  <2>2. /\ Calls!Level(b) \in 0..Burst
        /\ Calls!Level(b) = IF FullBy(b) THEN Burst ELSE b.tokens + Rate * (clock - b.at)
    BY <1>1, <2>1, Levels
  <2>3. gain \in Nat /\ b.tokens \in Nat /\ i.tokens \in Nat
    <3>1. clock - i.at \in Nat
      BY <1>1 DEF Bucket
    <3> QED
      BY <1>1, <2>1, <3>1, ProductsOrdered DEF Bucket
  <2>4. /\ Calls!Level(b) = IF Burst <= b.tokens + gain THEN Burst ELSE b.tokens + gain
        /\ Calls!Level(i) = IF Burst <= i.tokens + gain THEN Burst ELSE i.tokens + gain
    BY <1>2, <2>1, <2>2 DEF FullBy
  <2>5. i.tokens <= b.tokens /\ (b.tokens = i.tokens \/ b.tokens + due <= i.tokens + Burst)
    BY <2>1 DEF Calls!Near
  <2> DEFINE bt == b.tokens
             it == i.tokens
             bl == Calls!Level(b)
             il == Calls!Level(i)
  <2>6. /\ bl = IF Burst <= bt + gain THEN Burst ELSE bt + gain
        /\ il = IF Burst <= it + gain THEN Burst ELSE it + gain
        /\ bt \in Nat /\ it \in Nat /\ gain \in Nat /\ due \in Nat /\ Burst \in Nat
        /\ it <= bt /\ (bt = it \/ bt + due <= it + Burst)
    BY <1>1, <2>3, <2>4, <2>5
  <2> HIDE DEF bt, it, gain, due, bl, il
  <2>7. il <= bl /\ (bl = il \/ bl + due <= il + Burst)
    BY <2>6
  <2> QED
    BY <1>2, <2>1, <2>2, <2>7 DEF Calls!Near, bl, il, due
<1>4. CASE bucket[c] = None
  <2>1. Calls!Full \in Bucket /\ Calls!Full.at = clock /\ Calls!Full.tokens = Burst
    BY <1>1 DEF Calls!Full, Bucket
  <2>2. Rate * (clock - Calls!Full.at) = 0
    BY <1>1, <2>1
  <2>3. FullBy(Calls!Full)
    BY <1>1, <2>1, <2>2 DEF FullBy
  <2>4. Calls!Level(Calls!Full) = Burst
    BY <1>1, <2>1, <2>3, Levels
  <2>5. Calls!Level(ideal[c]) = Burst \/ due <= Calls!Level(ideal[c])
    BY <1>2, <1>4 DEF BucketsKept, Rested
  <2> DEFINE il == Calls!Level(ideal[c])
  <2> HIDE DEF due, il
  <2>6. il <= Burst /\ (Burst = il \/ Burst + due <= il + Burst)
    BY <1>1, <1>2, <2>5 DEF il
  <2> QED
    BY <1>1, <1>2, <1>4, <2>4, <2>6 DEF Calls!Near, Calls!LimiterFor, il, due
<1> QED
  BY <1>3, <1>4

\* A call leaves the two buckets near each other.
LEMMA AskedNear ==
  ASSUME BucketsKept, NEW c \in Client
  PROVE  LET real == Calls!Asked(Calls!LimiterFor(c))
             kept == Calls!Asked(ideal[c])
         IN  /\ real \in Bucket /\ kept \in Bucket /\ real.at = clock /\ kept.at = clock
             /\ Calls!Near(real.tokens, kept.tokens)
<1> DEFINE rl == Calls!Level(Calls!LimiterFor(c))
           il == Calls!Level(ideal[c])
           rt == IF rl > 0 THEN rl - 1 ELSE rl
           it == IF il > 0 THEN il - 1 ELSE il
           due == Rate * StaleAfter
<1>1. clock \in Nat /\ Burst \in Nat /\ due \in Nat
  BY LanesAssumption, ProductsOrdered DEF BucketsKept
<1>2. rl \in 0..Burst /\ il \in 0..Burst /\ il <= rl /\ (rl = il \/ rl + due <= il + Burst)
  BY LevelsNear DEF Calls!Near
<1>3. /\ Calls!Asked(Calls!LimiterFor(c)) = [tokens |-> rt, at |-> clock]
      /\ Calls!Asked(ideal[c]) = [tokens |-> it, at |-> clock]
  BY DEF Calls!Asked, Calls!Taken, Calls!Touched
<1> HIDE DEF rl, il, due
<1>4. rt \in 0..Burst /\ it \in 0..Burst
  BY <1>1, <1>2
<1>5. it <= rt /\ (rt = it \/ rt + due <= it + Burst)
  <2>1. CASE il > 0
    BY <1>1, <1>2, <2>1
  <2>2. CASE il = 0 /\ rl > 0
    BY <1>1, <1>2, <2>2
  <2>3. CASE il = 0 /\ rl = 0
    BY <1>1, <1>2, <2>3
  <2> QED
    BY <1>1, <1>2, <2>1, <2>2, <2>3
<1> HIDE DEF rt, it
<1> QED
  BY <1>1, <1>3, <1>4, <1>5 DEF Bucket, Calls!Near, due

\* The sweep takes only buckets that have rested.
LEMMA SweptHaveRested ==
  ASSUME BucketsKept, NEW c \in Client, NEW x \in Calls!Swept(c)
  PROVE  x \in Client /\ Rested(ideal[x])
<1>1. x \in Client /\ bucket[x] # None /\ bucket[x].at + StaleAfter < clock
  BY DEF Calls!Swept, Calls!Tracked, Calls!Sweepable
<1>2. /\ bucket[x].at = ideal[x].at /\ ideal[x] \in Bucket /\ clock \in Nat
      /\ Rate \in Nat /\ StaleAfter \in Nat
  BY <1>1, LanesAssumption DEF BucketsKept
<1> DEFINE age == clock - ideal[x].at
<1>3. age \in Nat /\ StaleAfter <= age /\ ideal[x].tokens \in Nat
  BY <1>1, <1>2 DEF Bucket
<1> HIDE DEF age
<1> DEFINE refill == Rate * age
           due == Rate * StaleAfter
<1>4. refill \in Nat /\ due \in Nat /\ due <= refill
  BY <1>2, <1>3, ProductsOrdered
<1> HIDE DEF refill, due
<1>5. due <= ideal[x].tokens + refill
  BY <1>3, <1>4
<1> QED
  BY <1>1, <1>5 DEF Rested, refill, due, age

LEMMA BucketsNext == BucketsKept /\ [LaneNext]_allVars => BucketsKept'
<1> SUFFICES ASSUME BucketsKept, [LaneNext]_allVars PROVE BucketsKept'
  OBVIOUS
<1>1. CASE UNCHANGED <<bucket, ideal>> /\ clock' \in {clock, clock + 1}
  <2>1. clock' \in Nat /\ \A c \in Client : ideal[c] \in Bucket /\ ideal[c].at <= clock'
    BY <1>1 DEF BucketsKept, Bucket
  <2>2. ASSUME NEW c \in Client, bucket[c] = None
        PROVE  \/ Burst <= ideal[c].tokens + Rate * (clock' - ideal[c].at)
               \/ Rate * StaleAfter <= ideal[c].tokens + Rate * (clock' - ideal[c].at)
    BY <1>1, <2>2, RestStays DEF BucketsKept
  <2> QED
    BY <1>1, <2>1, <2>2 DEF BucketsKept, FullBy, Rested, Calls!Near
<1>2. ASSUME NEW c \in Client, Calls!Allow(c) PROVE BucketsKept'
  <2> DEFINE real == Calls!Asked(Calls!LimiterFor(c))
             kept == Calls!Asked(ideal[c])
  <2>1. /\ bucket' = [x \in Client |-> IF x = c THEN real
                                        ELSE IF x \in Calls!Swept(c) THEN None ELSE bucket[x]]
        /\ ideal' = [ideal EXCEPT ![c] = kept]
        /\ clock' = clock
    BY <1>2 DEF Calls!Allow
  <2>2. /\ real \in Bucket /\ kept \in Bucket /\ real.at = clock /\ kept.at = clock
        /\ Calls!Near(real.tokens, kept.tokens)
    BY AskedNear
  <2>3. real # None
    BY <2>2, LanesAssumption DEF Bucket
  <2> HIDE DEF real, kept
  <2>4. \A x \in Client : /\ x = c => bucket'[x] = real /\ ideal'[x] = kept
                          /\ x # c => /\ ideal'[x] = ideal[x]
                                      /\ bucket'[x] = IF x \in Calls!Swept(c) THEN None ELSE bucket[x]
    BY <2>1 DEF BucketsKept
  <2>5. ideal' \in [Client -> Bucket] /\ bucket' \in [Client -> Bucket \cup {None}]
    BY <2>1, <2>2 DEF BucketsKept
  <2>6. ASSUME NEW x \in Client
        PROVE  /\ ideal'[x].at <= clock'
               /\ bucket'[x] # None =>
                    bucket'[x].at = ideal'[x].at /\ Calls!Near(bucket'[x].tokens, ideal'[x].tokens)
               /\ bucket'[x] = None =>
                    \/ Burst <= ideal'[x].tokens + Rate * (clock' - ideal'[x].at)
                    \/ Rate * StaleAfter <= ideal'[x].tokens + Rate * (clock' - ideal'[x].at)
    <3>1. CASE x = c
      BY <2>1, <2>2, <2>3, <2>4, <3>1 DEF BucketsKept
    <3>2. CASE x # c /\ x \in Calls!Swept(c)
      BY <2>1, <2>4, <3>2, SweptHaveRested DEF BucketsKept, FullBy, Rested
    <3>3. CASE x # c /\ x \notin Calls!Swept(c)
      BY <2>1, <2>4, <3>3 DEF BucketsKept, FullBy, Rested
    <3> QED
      BY <3>1, <3>2, <3>3
  <2> QED
    BY <2>1, <2>5, <2>6 DEF BucketsKept, FullBy, Rested, Calls!Near
<1>3. CASE LaneNext
  <2>1. CASE lane = "accounts" /\ UNCHANGED <<rest, clock>>
    BY <1>1, <2>1 DEF rest
  <2>2. CASE Keys!Next /\ UNCHANGED <<bucket, ideal>>
    BY <1>1, <2>2
    DEF Keys!Next, Keys!Create, Keys!Revoke, Keys!Rotate, Keys!RollBack, Keys!BeginRotation, Keys!Tick
  <2>3. CASE Logins!Next /\ UNCHANGED <<bucket, ideal>>
    BY <1>1, <2>3
    DEF Logins!Next, Logins!RecordFailure, Logins!RecordSuccess, Logins!Fail, Logins!Begin, Logins!Tick
  <2>4. CASE Calls!Next
    BY <1>1, <1>2, <2>4 DEF Calls!Next, Calls!Tick
  <2> QED
    BY <1>3, <2>1, <2>2, <2>3, <2>4 DEF LaneNext
<1> QED
  BY <1>1, <1>3 DEF allVars, rest

\* Whatever the rates, the burst and the window, and however often the sweeps
\* forget a client: he is refused no call that a limiter which forgets nobody
\* grants, and gains no more than the part of a burst that the window would not
\* have refilled (KeyedRateLimiter; nothing where the window refills a burst).
THEOREM SweepsAreBounded == LaneSpec => []SweepIsBounded
<1>1. LaneInit => BucketsKept
  BY BucketsStart
<1>2. BucketsKept /\ [LaneNext]_allVars => BucketsKept'
  BY BucketsNext
<1>3. BucketsKept => SweepIsBounded
  BY LevelsNear DEF SweepIsBounded, Calls!SweepIsBounded
<1> QED
  BY <1>1, <1>2, <1>3, PTL DEF LaneSpec, allVars
=============================================================================
