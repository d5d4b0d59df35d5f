--------------------------- MODULE SettingsProofs ---------------------------
(***************************************************************************)
(* Proofs about Settings, for any numbers a user may type: repairing the   *)
(* store never changes what is in effect, one pass repairs everything that *)
(* can be written, what a call or a recording goes on with stays in effect *)
(* until a command changes the store, and a shown value until a command    *)
(* changes its key.                                                        *)
(***************************************************************************)
EXTENDS Settings, TLAPS

-----------------------------------------------------------------------------
(* The clock window and the resolution of a reading.                       *)

\* Two facts of arithmetic: the default pair is legal, and beside the default
\* rate no smaller slot is.
LEMMA DefaultClock ==
    /\ DEFAULT_BITS \in Nat /\ DEFAULT_RATE_HZ \in Nat
    /\ mic_settings_valid(DEFAULT_BITS, DEFAULT_RATE_HZ)
    /\ \A b \in Nat : mic_settings_valid(b, DEFAULT_RATE_HZ) => b = DEFAULT_BITS
<1> USE DEF mic_settings_valid, DEFAULT_BITS, DEFAULT_RATE_HZ, MIN_SLOT_BITS,
           MAX_SLOT_BITS, MIN_MIC_BCLK_HZ, MAX_MIC_BCLK_HZ
<1>1. mic_settings_valid(DEFAULT_BITS, DEFAULT_RATE_HZ)
  BY SMT
<1>2. \A b \in Nat : mic_settings_valid(b, DEFAULT_RATE_HZ) => b = DEFAULT_BITS
  BY SMT
<1> QED
  BY <1>1, <1>2, SMT

LEMMA KeysDistinct ==
    /\ BITS_KEY \in Keys /\ RATE_KEY \in Keys /\ EDGE_KEY \in Keys
    /\ BITS_KEY # RATE_KEY /\ BITS_KEY # EDGE_KEY /\ RATE_KEY # EDGE_KEY
    /\ ClockKeys = {BITS_KEY, RATE_KEY}
    /\ \A k \in Keys : k = BITS_KEY \/ k = RATE_KEY \/ k = EDGE_KEY
  BY DEF Keys, BITS_KEY, RATE_KEY, EDGE_KEY, ClockKeys

LEMMA Defaults ==
    /\ Default(BITS_KEY) = DEFAULT_BITS
    /\ Default(RATE_KEY) = DEFAULT_RATE_HZ
    /\ \A k \in Keys : Default(k) \in Nat
    /\ Absent \notin Nat /\ Malformed \notin Nat /\ Absent # Malformed
<1>1. DEFAULT_EDGE_FLIP \in Nat /\ Absent \notin Nat /\ Malformed \notin Nat
      /\ Absent # Malformed
  BY SMT DEF DEFAULT_EDGE_FLIP, Absent, Malformed
<1>2. /\ Default(BITS_KEY) = DEFAULT_BITS
      /\ Default(RATE_KEY) = DEFAULT_RATE_HZ
      /\ Default(EDGE_KEY) = DEFAULT_EDGE_FLIP
  BY KeysDistinct DEF Default
<1> QED
  BY <1>1, <1>2, KeysDistinct, DefaultClock

\* Settings with the same values are the same.
LEMMA SameSettings ==
    ASSUME NEW f \in [Keys -> Nat], NEW g \in [Keys -> Nat],
           \A k \in Keys : f[k] = g[k]
    PROVE  f = g
  OBVIOUS

\* What a reading holds.
LEMMA ReadingTypes ==
    ASSUME NEW r \in Readings
    PROVE  /\ r \in [Keys -> Values]
           /\ \A k \in Keys : r[k] \in Stored(k)
           /\ \A k \in Keys : \A v \in Stored(k) : [r EXCEPT ![k] = v] \in Readings
<1>1. r \in [Keys -> Values] /\ \A k \in Keys : r[k] \in Stored(k)
  BY DEF Readings
<1>2. ASSUME NEW k \in Keys, NEW v \in Stored(k)
      PROVE  [r EXCEPT ![k] = v] \in Readings
  <2>1. v \in Values
    BY <1>2 DEF Values
  <2> QED
    BY <1>1, <1>2, <2>1 DEF Readings
<1> QED
  BY <1>1, <1>2

\* The raw settings are numbers; resolving them changes only the clock pair.
LEMMA RawType ==
    ASSUME NEW r \in Readings
    PROVE  /\ Raw(r) \in [Keys -> Nat]
           /\ \A k \in Keys : Raw(r)[k] = IF r[k] \in Nat THEN r[k] ELSE Default(k)
  BY Defaults DEF Raw

LEMMA ResolveCases ==
    ASSUME NEW raw \in [Keys -> Nat]
    PROVE  /\ Resolve(raw) \in [Keys -> Nat]
           /\ mic_settings_valid(Resolve(raw)[BITS_KEY], Resolve(raw)[RATE_KEY])
           /\ Resolve(raw)[EDGE_KEY] = raw[EDGE_KEY]
           /\ \/ /\ mic_settings_valid(raw[BITS_KEY], raw[RATE_KEY])
                 /\ Resolve(raw) = raw
              \/ /\ ~mic_settings_valid(raw[BITS_KEY], raw[RATE_KEY])
                 /\ Resolve(raw)[BITS_KEY] = DEFAULT_BITS
                 /\ Resolve(raw)[RATE_KEY] = DEFAULT_RATE_HZ
<1>0. DEFAULT_BITS \in Nat /\ DEFAULT_RATE_HZ \in Nat
  BY DefaultClock
<1>1. CASE mic_settings_valid(raw[BITS_KEY], raw[RATE_KEY])
  BY <1>1 DEF Resolve
<1>2. CASE ~mic_settings_valid(raw[BITS_KEY], raw[RATE_KEY])
  <2>1. Resolve(raw) = [raw EXCEPT ![BITS_KEY] = DEFAULT_BITS,
                                   ![RATE_KEY] = DEFAULT_RATE_HZ]
    BY <1>2 DEF Resolve
  <2> QED
    BY <1>0, <1>2, <2>1, KeysDistinct, DefaultClock
<1> QED
  BY <1>1, <1>2

\* What is in effect can always be stored.
LEMMA EffectiveType ==
    ASSUME NEW r \in Readings
    PROVE  /\ Effective(r) \in [Keys -> Nat]
           /\ \A k \in Keys : Effective(r)[k] \in Stored(k)
           /\ mic_settings_valid(Effective(r)[BITS_KEY], Effective(r)[RATE_KEY])
<1>1. Raw(r) \in [Keys -> Nat]
  BY RawType
<1>2. /\ Effective(r) \in [Keys -> Nat]
      /\ mic_settings_valid(Effective(r)[BITS_KEY], Effective(r)[RATE_KEY])
  BY <1>1, ResolveCases DEF Effective
<1>3. ASSUME NEW k \in Keys PROVE Effective(r)[k] \in Stored(k)
  <2>1. Effective(r)[k] = Default(k) \/ Effective(r)[k] = Raw(r)[k]
    BY <1>1, ResolveCases, KeysDistinct, Defaults DEF Effective
  <2>2. Raw(r)[k] = Default(k) \/ Raw(r)[k] = r[k]
    BY RawType
  <2>3. r[k] \in Stored(k) /\ Default(k) \in Stored(k)
    BY ReadingTypes DEF Stored
  <2> QED
    BY <2>1, <2>2, <2>3
<1> QED
  BY <1>2, <1>3

\* Readings with the same raw settings have the same effective ones, and a
\* reading that stores what is in effect for both clock keys keeps it.
LEMMA EffectiveFromRaw ==
    ASSUME NEW r \in Readings, NEW s \in Readings, NEW e \in [Keys -> Nat],
           mic_settings_valid(e[BITS_KEY], e[RATE_KEY]),
           \A k \in Keys : Raw(s)[k] = e[k]
    PROVE  Effective(s) = e
<1>1. Raw(s) \in [Keys -> Nat]
  BY RawType
<1>2. Raw(s) = e
  BY <1>1
<1> QED
  BY <1>2 DEF Effective, Resolve

\* A key that is not stale reads as what is in effect.
LEMMA NotStaleRaw ==
    ASSUME NEW r \in Readings, NEW k \in Keys, k \notin Stale(r)
    PROVE  Raw(r)[k] = Effective(r)[k]
<1>1. r[k] = Absent \/ r[k] = Effective(r)[k]
  BY DEF Stale
<1>2. Effective(r)[k] \in Nat /\ Raw(r) \in [Keys -> Nat]
  BY EffectiveType, RawType
<1>3. CASE r[k] = Effective(r)[k]
  BY <1>2, <1>3, RawType
<1>4. CASE r[k] = Absent
  <2>1. Raw(r)[k] = Default(k)
    BY <1>4, RawType, Defaults
  <2> QED
    BY <1>2, <2>1, ResolveCases, KeysDistinct, Defaults DEF Effective
<1> QED
  BY <1>1, <1>3, <1>4

\* The edge's effective value is its own.
LEMMA EdgeAlone ==
    ASSUME NEW r \in Readings
    PROVE  Effective(r)[EDGE_KEY] = Raw(r)[EDGE_KEY]
  BY RawType, ResolveCases DEF Effective

\* The clock pair's effective values are the pair's own.
LEMMA ClockAlone ==
    ASSUME NEW r \in Readings, NEW s \in Readings,
           \A k \in ClockKeys : Raw(r)[k] = Raw(s)[k]
    PROVE  \A k \in ClockKeys : Effective(r)[k] = Effective(s)[k]
<1>1. Raw(r) \in [Keys -> Nat] /\ Raw(s) \in [Keys -> Nat]
  BY RawType
<1>2. Raw(r)[BITS_KEY] = Raw(s)[BITS_KEY] /\ Raw(r)[RATE_KEY] = Raw(s)[RATE_KEY]
  BY KeysDistinct
<1> QED
  BY <1>1, <1>2, ResolveCases, KeysDistinct DEF Effective

\* Writing the effective value of one key keeps what is in effect, if the other
\* clock key is not stale; and that key is repaired.
LEMMA WriteEffective ==
    ASSUME NEW r \in Readings, NEW k \in Keys,
           k \in ClockKeys => \A o \in ClockKeys \ {k} : o \notin Stale(r),
           NEW s, s = [r EXCEPT ![k] = Effective(r)[k]]
    PROVE  /\ s \in Readings
           /\ Effective(s) = Effective(r)
           /\ Stale(s) = Stale(r) \ {k}
<1> DEFINE e == Effective(r)
<1>1. /\ e \in [Keys -> Nat]
      /\ e[k] \in Stored(k)
      /\ mic_settings_valid(e[BITS_KEY], e[RATE_KEY])
  BY EffectiveType
<1>2. s \in Readings
  BY <1>1, ReadingTypes
<1>3. \A j \in Keys : s[j] = IF j = k THEN e[k] ELSE r[j]
  BY ReadingTypes
<1>4. \A j \in Keys : Raw(s)[j] = IF j = k THEN e[k] ELSE Raw(r)[j]
  <2>1. \A j \in Keys : Raw(s)[j] = IF s[j] \in Nat THEN s[j] ELSE Default(j)
    BY <1>2, RawType
  <2>2. \A j \in Keys : Raw(r)[j] = IF r[j] \in Nat THEN r[j] ELSE Default(j)
    BY RawType
  <2>3. e[k] \in Nat
    BY <1>1
  <2> QED
    BY <1>3, <2>1, <2>2, <2>3
<1>5. Effective(s) = e
  <2>1. CASE k = EDGE_KEY
    <3>1. \A j \in Keys : Raw(s)[j] = Raw(r)[j]
      BY <1>4, <2>1, EdgeAlone
    <3>2. Raw(s) \in [Keys -> Nat] /\ Raw(r) \in [Keys -> Nat]
      BY <1>2, RawType
    <3>3. Raw(s) = Raw(r)
      BY <3>1, <3>2, SameSettings
    <3> QED
      BY <3>3 DEF Effective
  <2>2. CASE k \in ClockKeys
    <3>1. \A j \in Keys : j # k => Raw(r)[j] = e[j]
      BY <2>2, EdgeAlone, NotStaleRaw, KeysDistinct
    <3>2. \A j \in Keys : Raw(s)[j] = e[j]
      BY <1>4, <3>1
    <3> QED
      BY <1>1, <1>2, <3>2, EffectiveFromRaw
  <2> QED
    BY <2>1, <2>2, KeysDistinct
<1>6. Stale(s) = Stale(r) \ {k}
  BY <1>3, <1>5 DEF Stale
<1> QED
  BY <1>2, <1>5, <1>6

\* The repair of the pair: when both keys are stale the defaults are in effect,
\* after the rate is written and after both are.
LEMMA PairWrites ==
    ASSUME NEW r \in Readings, PairStale(r),
           NEW s, s = [r EXCEPT ![RATE_KEY] = Effective(r)[RATE_KEY]],
           NEW u, u = [s EXCEPT ![BITS_KEY] = Effective(r)[BITS_KEY]]
    PROVE  /\ s \in Readings /\ u \in Readings
           /\ Effective(s) = Effective(r) /\ Effective(u) = Effective(r)
           /\ Stale(u) = Stale(r) \ ClockKeys
           /\ [s EXCEPT ![RATE_KEY] = r[RATE_KEY]] = r
<1> DEFINE e == Effective(r)
<1>1. /\ e \in [Keys -> Nat]
      /\ \A k \in Keys : e[k] \in Stored(k)
      /\ mic_settings_valid(e[BITS_KEY], e[RATE_KEY])
  BY EffectiveType
<1>2. s \in Readings /\ u \in Readings
  BY <1>1, ReadingTypes, KeysDistinct
<1>3. \A k \in Keys : /\ s[k] = IF k = RATE_KEY THEN e[k] ELSE r[k]
                      /\ u[k] = IF k \in ClockKeys THEN e[k] ELSE r[k]
  BY <1>2, ReadingTypes, KeysDistinct
<1>4. Raw(r) \in [Keys -> Nat] /\ Raw(s) \in [Keys -> Nat] /\ Raw(u) \in [Keys -> Nat]
  BY <1>2, RawType
<1>5. e[BITS_KEY] = DEFAULT_BITS /\ e[RATE_KEY] = DEFAULT_RATE_HZ
  <2>1. r[BITS_KEY] # e[BITS_KEY] /\ r[RATE_KEY] # e[RATE_KEY]
    BY KeysDistinct DEF PairStale, Stale
  <2>2. CASE ~mic_settings_valid(Raw(r)[BITS_KEY], Raw(r)[RATE_KEY])
    BY <1>4, <2>2, ResolveCases DEF Effective
  <2>3. CASE e = Raw(r)
    <3>1. r[BITS_KEY] \notin Nat /\ r[RATE_KEY] \notin Nat
      BY <2>1, <2>3, RawType, KeysDistinct
    <3> QED
      BY <2>3, <3>1, RawType, KeysDistinct, Defaults
  <2> QED
    BY <1>4, <2>2, <2>3, ResolveCases DEF Effective
<1>11. \A k \in Keys :
         /\ Raw(r)[k] = IF r[k] \in Nat THEN r[k] ELSE Default(k)
         /\ Raw(s)[k] = IF s[k] \in Nat THEN s[k] ELSE Default(k)
         /\ Raw(u)[k] = IF u[k] \in Nat THEN u[k] ELSE Default(k)
  BY <1>2, RawType
<1>12. Raw(r)[EDGE_KEY] = e[EDGE_KEY]
  BY EdgeAlone
<1>6. /\ Raw(s)[RATE_KEY] = DEFAULT_RATE_HZ
      /\ Raw(s)[BITS_KEY] = Raw(r)[BITS_KEY]
      /\ Raw(s)[EDGE_KEY] = e[EDGE_KEY]
  <2>1. s[RATE_KEY] = DEFAULT_RATE_HZ
    BY <1>3, <1>5, KeysDistinct
  <2>2. s[BITS_KEY] = r[BITS_KEY] /\ s[EDGE_KEY] = r[EDGE_KEY]
    BY <1>3, KeysDistinct
  <2> QED
    BY <1>11, <1>12, <2>1, <2>2, KeysDistinct, DefaultClock
<1>7. Effective(s) = e
  <2>1. CASE mic_settings_valid(Raw(s)[BITS_KEY], Raw(s)[RATE_KEY])
    <3>1. Raw(s)[BITS_KEY] = DEFAULT_BITS
      BY <1>4, <1>6, <2>1, DefaultClock, KeysDistinct
    <3>2. \A k \in Keys : Raw(s)[k] = e[k]
      BY <1>5, <1>6, <3>1, KeysDistinct
    <3> QED
      BY <1>1, <1>2, <3>2, EffectiveFromRaw
  <2>2. CASE ~mic_settings_valid(Raw(s)[BITS_KEY], Raw(s)[RATE_KEY])
    <3>1. /\ Effective(s)[BITS_KEY] = DEFAULT_BITS
          /\ Effective(s)[RATE_KEY] = DEFAULT_RATE_HZ
      BY <1>4, <2>2, ResolveCases DEF Effective
    <3>2. Effective(s)[EDGE_KEY] = e[EDGE_KEY]
      BY <1>2, <1>6, EdgeAlone
    <3>3. \A k \in Keys : Effective(s)[k] = e[k]
      BY <1>5, <3>1, <3>2, KeysDistinct
    <3>4. Effective(s) \in [Keys -> Nat]
      BY <1>2, EffectiveType
    <3>5. e \in [Keys -> Nat]
      BY <1>1
    <3> HIDE DEF e
    <3> QED
      BY <3>3, <3>4, <3>5, SameSettings
  <2> QED
    BY <2>1, <2>2
<1>8. Effective(u) = e
  <2>0. \A k \in Keys : e[k] \in Nat
    BY <1>1
  <2>1. \A k \in Keys : Raw(u)[k] = e[k]
    <3>1. ASSUME NEW k \in ClockKeys PROVE Raw(u)[k] = e[k]
      <4>1. k \in Keys
        BY KeysDistinct
      <4> QED
        BY <1>3, <1>11, <2>0, <4>1
    <3>2. Raw(u)[EDGE_KEY] = e[EDGE_KEY]
      <4>1. u[EDGE_KEY] = r[EDGE_KEY]
        BY <1>3, KeysDistinct
      <4> QED
        BY <1>11, <1>12, <4>1, KeysDistinct
    <3> QED
      BY <3>1, <3>2, KeysDistinct
  <2> QED
    BY <1>1, <1>2, <2>1, EffectiveFromRaw
<1>9. Stale(u) = Stale(r) \ ClockKeys
  BY <1>3, <1>8 DEF Stale
<1>10. [s EXCEPT ![RATE_KEY] = r[RATE_KEY]] = r
  BY ReadingTypes
<1> QED
  BY <1>2, <1>7, <1>8, <1>9, <1>10

-----------------------------------------------------------------------------
(* Type correctness.                                                       *)

LEMMA TaskFacts ==
    /\ Capture \in Tasks /\ Keyboard \in Consoles /\ Capture \notin Consoles
    /\ Consoles \subseteq Tasks /\ Nobody \notin Tasks
    /\ \A t \in Tasks : t # Capture => t \in Consoles
  BY SettingsAssumption DEF SettingsAssumption, Tasks

LEMMA StoredValues ==
    /\ \A k \in Keys : /\ Absent \in Stored(k) /\ Malformed \in Typed(k)
                       /\ Typed(k) \subseteq Stored(k)
                       /\ Stored(k) \subseteq Values
    /\ Malformed \in Values /\ Absent \in Values
  BY KeysDistinct DEF Stored, Typed, Values

LEMMA NoCallType == NoCall \in Calls /\ NoCall.op = "get"
<1>1. [k \in Keys |-> Absent] \in Readings
  BY StoredValues DEF Readings
<1> QED
  BY <1>1, StoredValues, KeysDistinct DEF NoCall, Calls, Ops

LEMMA ReadingWithoutType ==
    ASSUME store \in Readings, NEW unread \in Unread
    PROVE  ReadingWithout(unread) \in Readings
<1>1. \A k \in Keys : store[k] \in Stored(k) /\ Absent \in Stored(k)
                      /\ Stored(k) \subseteq Values
  BY StoredValues, ReadingTypes
<1> QED
  BY <1>1 DEF ReadingWithout, Readings

\* The fields of a call.
LEMMA CallFields ==
    ASSUME NEW c \in Calls
    PROVE  /\ c.op \in Ops /\ c.key \in Keys /\ c.value \in Values
           /\ c.seen \in Readings /\ c.todo \in SUBSET Keys
           /\ c.blind \in BOOLEAN /\ c.failed \in BOOLEAN
  BY DEF Calls

\* A write leaves a store.
LEMMA WriteType ==
    ASSUME store \in Readings, NEW k \in Keys, NEW v \in Stored(k),
           NEW landed \in BOOLEAN, Write(k, v, landed)
    PROVE  store' \in Readings
  BY ReadingTypes DEF Write

LEMMA ForgetType ==
    ASSUME shown \in [key : Keys, value : Values], NEW keys, Forget(keys)
    PROVE  shown' \in [key : Keys, value : Values]
  BY StoredValues, KeysDistinct DEF Forget, NotShown

LEMMA InitTypeOK == ASSUME Init PROVE TypeOK
<1>1. shown \in [key : Keys, value : Values]
  BY StoredValues, KeysDistinct DEF Init, NotShown
<1>2. call \in [Tasks -> Calls] /\ \A t \in Tasks : call[t].op = "get"
  BY NoCallType DEF Init
<1>3. \A t \in Tasks : pc[t] = "idle" /\ holder # t
  BY TaskFacts DEF Init
<1>4. pc \in [Tasks -> Places] /\ current = {}
  BY DEF Init, Places
<1> QED
  BY <1>1, <1>2, <1>3, <1>4 DEF Init, TypeOK, Repairing

Locked == Repairing \cup {"store"}

\* What a step of one task must do to keep the types: the other tasks stay where
\* they are, and the lock goes with its place.
LEMMA OneTaskTypeOK ==
    ASSUME TypeOK, NEW t \in Tasks, NEW c \in Calls, NEW place \in Places,
           store' \in Readings,
           shown' \in [key : Keys, value : Values],
           call' = [call EXCEPT ![t] = c],
           pc' = [pc EXCEPT ![t] = place],
           c.op = "record" <=> (t = Capture /\ place # "idle"),
           c.op = "set" => c.value \in Typed(c.key),
           place \in Locked => holder \in {t, Nobody} /\ holder' = t,
           place \notin Locked => holder' = IF holder = t THEN Nobody ELSE holder,
           current' \subseteq current \cup {t}, t \in current' => place \in Outcomes
    PROVE  TypeOK'
<1>1. call' \in [Tasks -> Calls] /\ pc' \in [Tasks -> Places]
  BY DEF TypeOK
<1>2. /\ call'[t] = c /\ pc'[t] = place
      /\ \A u \in Tasks \ {t} : call'[u] = call[u] /\ pc'[u] = pc[u]
  BY DEF TypeOK
<1>3. holder' \in Tasks \cup {Nobody}
  BY DEF TypeOK
<1>4. ASSUME NEW u \in Tasks
      PROVE  /\ call'[u].op = "record" <=> (u = Capture /\ pc'[u] # "idle")
             /\ call'[u].op = "set" => call'[u].value \in Typed(call'[u].key)
             /\ (holder' = u) <=> (pc'[u] \in Repairing \cup {"store"})
  <2>1. CASE u = t
    <3>1. (holder' = t) <=> (place \in Locked)
      BY TaskFacts
    <3> QED
      BY <1>2, <2>1, <3>1 DEF Locked
  <2>2. CASE u # t
    <3>1. (holder = u) <=> (pc[u] \in Repairing \cup {"store"})
      BY DEF TypeOK
    <3>2. (holder' = u) <=> (holder = u)
      BY <2>2, TaskFacts
    <3> QED
      BY <1>2, <2>2, <3>1, <3>2 DEF TypeOK
  <2> QED
    BY <2>1, <2>2
<1>5. current' \subseteq {u \in Tasks : pc'[u] \in Outcomes}
  BY <1>2 DEF TypeOK
<1> QED
  BY <1>1, <1>3, <1>4, <1>5 DEF TypeOK

\* Who trusts an outcome has one.
LEMMA TrustFacts ==
    ASSUME TypeOK
    PROVE  /\ \A t \in current : t \in Tasks /\ pc[t] \in Outcomes
           /\ \A place \in Repairing \cup {"idle"} : place \notin Outcomes
  BY DEF TypeOK, Outcomes, Repairing

LEMMA BeginTypeOK == ASSUME TypeOK, NEW t \in Tasks, Begin(t) PROVE TypeOK'
<1>1. PICK request \in Requests(t), unread \in Unread :
         LET seen == ReadingWithout(unread) IN
         /\ call' = [call EXCEPT ![t] =
                [op |-> request[1], key |-> request[2], value |-> request[3],
                 seen |-> seen,
                 todo |-> IF PairStale(seen) THEN Stale(seen) \ ClockKeys
                                             ELSE Stale(seen),
                 blind |-> seen # store, failed |-> seen # store]]
         /\ Goto(t, IF PairStale(seen) THEN "pair rate" ELSE "single")
  BY DEF Begin
<1> DEFINE seen == ReadingWithout(unread)
           todo == IF PairStale(seen) THEN Stale(seen) \ ClockKeys ELSE Stale(seen)
<1>2. seen \in Readings /\ todo \subseteq Keys
  BY ReadingWithoutType DEF TypeOK, Stale
<1>3. /\ request[1] \in Ops /\ request[2] \in Keys /\ request[3] \in Values
      /\ request[1] = "record" <=> t = Capture
      /\ request[1] = "set" => request[3] \in Typed(request[2])
  <2>1. CASE t = Capture
    BY <2>1, StoredValues, KeysDistinct DEF Requests, Ops
  <2>2. CASE t # Capture
    <3>1. CASE \E k \in Keys : request = <<"get", k, Malformed>>
      BY <2>2, <3>1, StoredValues DEF Ops
    <3>2. CASE \E k \in Keys : \E v \in Typed(k) : request = <<"set", k, v>>
      BY <2>2, <3>2, StoredValues DEF Ops
    <3> QED
      BY <2>2, <3>1, <3>2 DEF Requests
  <2> QED
    BY <2>1, <2>2
<1>4. [op |-> request[1], key |-> request[2], value |-> request[3], seen |-> seen,
       todo |-> todo, blind |-> seen # store, failed |-> seen # store] \in Calls
  BY <1>2, <1>3 DEF Calls
<1>5. ("pair rate" \in Places /\ "single" \in Places)
      /\ ("pair rate" \in Locked /\ "single" \in Locked)
  BY DEF Places, Locked, Repairing
<1>6. /\ holder' = t /\ holder = Nobody /\ UNCHANGED <<store, shown, current>>
      /\ t \notin current
  BY TrustFacts DEF Begin
<1>7. CASE PairStale(seen)
  BY <1>1, <1>3, <1>4, <1>5, <1>6, <1>7, OneTaskTypeOK DEF TypeOK, Goto
<1>8. CASE ~PairStale(seen)
  BY <1>1, <1>3, <1>4, <1>5, <1>6, <1>8, OneTaskTypeOK DEF TypeOK, Goto
<1> QED
  BY <1>7, <1>8

\* The call of a task that repairs keeps its request.
LEMMA RequestKept ==
    ASSUME TypeOK, NEW t \in Tasks
    PROVE  /\ call[t] \in Calls
           /\ call[t].op = "record" <=> (t = Capture /\ pc[t] # "idle")
           /\ call[t].op = "set" => call[t].value \in Typed(call[t].key)
           /\ (holder = t) <=> (pc[t] \in Locked)
  BY DEF TypeOK, Locked

\* A repair step: one write of a storable value, and a place in the repair.
LEMMA RepairTypeOK ==
    ASSUME TypeOK, NEW t \in Tasks, pc[t] \in Repairing,
           NEW k \in Keys, NEW v \in Stored(k), NEW landed \in BOOLEAN,
           Write(k, v, landed), RepairForgets(t), UNCHANGED holder,
           NEW todo \in SUBSET Keys, NEW failed \in BOOLEAN,
           call' = [call EXCEPT ![t] = [call[t] EXCEPT !.todo = todo, !.failed = failed]],
           NEW place \in Repairing, pc' = [pc EXCEPT ![t] = place]
    PROVE  TypeOK'
<1> DEFINE c == [call[t] EXCEPT !.todo = todo, !.failed = failed]
<1>1. store' \in Readings
  BY WriteType DEF TypeOK
<1>2. shown' \in [key : Keys, value : Values]
  BY ForgetType DEF TypeOK, RepairForgets
<1>3. /\ c \in Calls /\ c.op = call[t].op /\ c.key = call[t].key
      /\ c.value = call[t].value
  BY RequestKept DEF Calls
<1>4. place \in Places /\ place \in Locked /\ place # "idle" /\ pc[t] # "idle"
      /\ pc[t] \in Locked
  BY DEF Places, Locked, Repairing
<1>5. /\ holder = t /\ holder' = t
      /\ current' \subseteq current /\ t \notin current
  BY <1>4, RequestKept, TrustFacts DEF RepairForgets
<1>6. /\ c.op = "record" <=> (t = Capture /\ place # "idle")
      /\ c.op = "set" => c.value \in Typed(c.key)
  BY <1>3, <1>4, RequestKept
<1> HIDE DEF c
<1>7. call' = [call EXCEPT ![t] = c]
  BY DEF c
<1> QED
  BY <1>1, <1>2, <1>3, <1>4, <1>5, <1>6, <1>7, OneTaskTypeOK

LEMMA RepairStepsTypeOK ==
    ASSUME TypeOK, NEW t \in Tasks,
           RepairRate(t) \/ RepairBits(t) \/ RestoreRate(t) \/ RepairSingle(t)
    PROVE  TypeOK'
<1> DEFINE seen == call[t].seen
<1>1. /\ call[t] \in Calls /\ seen \in Readings
      /\ call[t].todo \in SUBSET Keys /\ call[t].failed \in BOOLEAN
  BY CallFields, RequestKept
<1>2. \A k \in Keys : Effective(seen)[k] \in Stored(k) /\ seen[k] \in Stored(k)
  BY <1>1, EffectiveType, ReadingTypes
<1>3. /\ "pair rate" \in Repairing /\ "pair bits" \in Repairing
      /\ "restore" \in Repairing /\ "single" \in Repairing
  BY DEF Repairing
<1>4. ASSUME NEW landed \in BOOLEAN, NEW todo
      PROVE  [Failing(t, landed) EXCEPT ![t].todo = todo]
               = [call EXCEPT ![t] = [call[t] EXCEPT !.todo = todo,
                      !.failed = call[t].failed \/ ~landed]]
  BY <1>1 DEF Failing, TypeOK, Calls
<1>5. ASSUME NEW landed \in BOOLEAN
      PROVE  Failing(t, landed)
               = [call EXCEPT ![t] = [call[t] EXCEPT !.todo = call[t].todo,
                      !.failed = call[t].failed \/ ~landed]]
  BY <1>1 DEF Failing, TypeOK, Calls
<1>6. CASE RepairRate(t)
  <2>1. PICK landed \in BOOLEAN :
          /\ Write(RATE_KEY, Effective(seen)[RATE_KEY], landed)
          /\ call' = Failing(t, landed)
          /\ Goto(t, IF landed THEN "pair bits" ELSE "single")
    BY <1>6 DEF RepairRate
  <2> DEFINE place == IF landed THEN "pair bits" ELSE "single"
             failed == call[t].failed \/ ~landed
             v == Effective(seen)[RATE_KEY]
  <2>2. place \in Repairing /\ failed \in BOOLEAN /\ v \in Stored(RATE_KEY)
    BY <1>2, <1>3, KeysDistinct
  <2>3. call' = [call EXCEPT ![t] = [call[t] EXCEPT !.todo = call[t].todo,
                                                    !.failed = failed]]
    BY <1>5, <2>1
  <2>4. pc' = [pc EXCEPT ![t] = place] /\ Write(RATE_KEY, v, landed)
    BY <2>1 DEF Goto
  <2>5. pc[t] \in Repairing /\ RepairForgets(t) /\ UNCHANGED holder
    BY <1>3, <1>6 DEF RepairRate
  <2> HIDE DEF place, failed, v
  <2> QED
    BY <1>1, <2>2, <2>3, <2>4, <2>5, KeysDistinct, RepairTypeOK
<1>7. CASE RepairBits(t)
  <2>1. PICK landed \in BOOLEAN :
          /\ Write(BITS_KEY, Effective(seen)[BITS_KEY], landed)
          /\ call' = Failing(t, landed)
          /\ Goto(t, IF landed THEN "single" ELSE "restore")
    BY <1>7 DEF RepairBits
  <2> DEFINE place == IF landed THEN "single" ELSE "restore"
             failed == call[t].failed \/ ~landed
             v == Effective(seen)[BITS_KEY]
  <2>2. place \in Repairing /\ failed \in BOOLEAN /\ v \in Stored(BITS_KEY)
    BY <1>2, <1>3, KeysDistinct
  <2>3. call' = [call EXCEPT ![t] = [call[t] EXCEPT !.todo = call[t].todo,
                                                    !.failed = failed]]
    BY <1>5, <2>1
  <2>4. pc' = [pc EXCEPT ![t] = place] /\ Write(BITS_KEY, v, landed)
    BY <2>1 DEF Goto
  <2>5. pc[t] \in Repairing /\ RepairForgets(t) /\ UNCHANGED holder
    BY <1>3, <1>7 DEF RepairBits
  <2> HIDE DEF place, failed, v
  <2> QED
    BY <1>1, <2>2, <2>3, <2>4, <2>5, KeysDistinct, RepairTypeOK
<1>8. CASE RestoreRate(t)
  <2>1. PICK landed \in BOOLEAN : Write(RATE_KEY, seen[RATE_KEY], landed)
    BY <1>8 DEF RestoreRate
  <2>2. call' = [call EXCEPT ![t] = [call[t] EXCEPT !.todo = call[t].todo,
                                                    !.failed = call[t].failed]]
    BY <1>1, <1>8 DEF RestoreRate, TypeOK, Calls
  <2>3. pc' = [pc EXCEPT ![t] = "single"] /\ seen[RATE_KEY] \in Stored(RATE_KEY)
    BY <1>2, <1>8, KeysDistinct DEF RestoreRate, Goto
  <2>4. pc[t] \in Repairing /\ RepairForgets(t) /\ UNCHANGED holder
    BY <1>3, <1>8 DEF RestoreRate
  <2> HIDE DEF seen
  <2> QED
    BY <1>1, <1>3, <2>1, <2>2, <2>3, <2>4, KeysDistinct, RepairTypeOK
<1>9. CASE RepairSingle(t)
  <2>1. PICK k \in call[t].todo, landed \in BOOLEAN :
          /\ Write(k, Effective(seen)[k], landed)
          /\ call' = [Failing(t, landed) EXCEPT ![t].todo = @ \ {k}]
    BY <1>9 DEF RepairSingle
  <2>2. call' = [call EXCEPT ![t] = [call[t] EXCEPT !.todo = call[t].todo \ {k},
                     !.failed = call[t].failed \/ ~landed]]
    BY <1>1, <2>1 DEF Failing, TypeOK, Calls
  <2>3. pc' = [pc EXCEPT ![t] = "single"]
    BY <1>9 DEF RepairSingle, TypeOK
  <2> DEFINE failed == call[t].failed \/ ~landed
             todo == call[t].todo \ {k}
             v == Effective(seen)[k]
  <2>4. /\ k \in Keys /\ v \in Stored(k) /\ failed \in BOOLEAN
        /\ todo \in SUBSET Keys
    BY <1>1, <1>2
  <2>5. call' = [call EXCEPT ![t] = [call[t] EXCEPT !.todo = todo,
                                                    !.failed = failed]]
    BY <2>2
  <2>6. pc[t] \in Repairing /\ RepairForgets(t) /\ UNCHANGED holder
    BY <1>3, <1>9 DEF RepairSingle
  <2>7. Write(k, v, landed)
    BY <2>1
  <2> HIDE DEF failed, todo, v
  <2> QED
    BY <1>3, <2>3, <2>4, <2>5, <2>6, <2>7, RepairTypeOK
<1> QED
  BY <1>6, <1>7, <1>8, <1>9

\* The end of a reconciliation.
LEMMA ProceedTypeOK ==
    ASSUME TypeOK, NEW t \in Tasks, NEW seen \in Readings,
           pc[t] # "idle", Accepts(t, seen) => holder \in {t, Nobody},
           NEW trusted, trusted \subseteq current \cup {t},
           Proceed(t, seen, trusted), Shows(t, seen), UNCHANGED store
    PROVE  TypeOK'
<1> DEFINE kept == [call[t] EXCEPT !.seen = seen, !.blind = FALSE, !.failed = FALSE]
<1>1. /\ call[t] \in Calls /\ kept \in Calls
      /\ kept.op = call[t].op /\ kept.key = call[t].key /\ kept.value = call[t].value
  BY RequestKept DEF Calls
<1>2. shown' \in [key : Keys, value : Values]
  <2>1. call[t].key \in Keys
    BY <1>1, CallFields
  <2>2. Effective(seen)[call[t].key] \in Values
    BY <2>1, EffectiveType, StoredValues
  <2>3. NotShown \in [key : Keys, value : Values]
    BY KeysDistinct, StoredValues DEF NotShown
  <2> QED
    BY <2>1, <2>2, <2>3 DEF Shows, TypeOK
<1>3. store' \in Readings
  BY DEF TypeOK
<1>4. /\ "store" \in Places /\ "recording" \in Places /\ "idle" \in Places
      /\ "store" \in Locked /\ "recording" \notin Locked /\ "idle" \notin Locked
      /\ "store" \in Outcomes /\ "recording" \in Outcomes
  BY DEF Places, Locked, Repairing, Outcomes
<1>5. CASE Accepts(t, seen)
  <2>1. /\ call' = [call EXCEPT ![t] = kept]
        /\ pc' = [pc EXCEPT ![t] = "store"]
        /\ holder' = t
        /\ current' \subseteq current \cup {t}
    BY <1>5 DEF Proceed, Goto, Keep, TypeOK, Calls
  <2> HIDE DEF kept
  <2>2. /\ kept.op = "record" <=> (t = Capture /\ "store" # "idle")
        /\ kept.op = "set" => kept.value \in Typed(kept.key)
    BY <1>1, RequestKept
  <2> QED
    BY <1>1, <1>2, <1>3, <1>4, <1>5, <2>1, <2>2, OneTaskTypeOK
<1>6. CASE ~Accepts(t, seen) /\ call[t].op = "record"
  <2>1. /\ call' = [call EXCEPT ![t] = kept]
        /\ pc' = [pc EXCEPT ![t] = "recording"]
        /\ holder' = IF holder = t THEN Nobody ELSE holder
        /\ current' \subseteq current \cup {t}
    BY <1>6 DEF Proceed, Goto, Keep, Release, TypeOK, Calls
  <2> HIDE DEF kept
  <2>2. /\ kept.op = "record" <=> (t = Capture /\ "recording" # "idle")
        /\ kept.op = "set" => kept.value \in Typed(kept.key)
    BY <1>1, RequestKept
  <2> QED
    BY <1>1, <1>2, <1>3, <1>4, <2>1, <2>2, OneTaskTypeOK
<1>7. CASE ~Accepts(t, seen) /\ call[t].op # "record"
  <2>1. /\ call' = [call EXCEPT ![t] = NoCall]
        /\ pc' = [pc EXCEPT ![t] = "idle"]
        /\ holder' = IF holder = t THEN Nobody ELSE holder
        /\ current' = current \ {t}
    BY <1>7 DEF Proceed, Goto, Return, Release
  <2> QED
    BY <1>2, <1>3, <1>4, <2>1, NoCallType, OneTaskTypeOK
<1> QED
  BY <1>5, <1>6, <1>7

LEMMA RereadTypeOK == ASSUME TypeOK, NEW t \in Tasks, Reread(t) PROVE TypeOK'
<1>1. PICK unread \in Unread :
        LET seen == ReadingWithout(unread) IN
         IF Stale(seen) = {}
         THEN /\ Proceed(t, seen, Trusting(t, seen))
              /\ Shows(t, seen)
         ELSE /\ Goto(t, "notice")
              /\ call' = [call EXCEPT ![t].seen = seen,
                                      ![t].blind = FALSE,
                                      ![t].failed = @ \/ seen # store]
              /\ Release(t)
              /\ current' = Trusting(t, seen)
              /\ UNCHANGED shown
  BY DEF Reread
<1> DEFINE seen == ReadingWithout(unread)
           failed == call[t].failed \/ seen # store
           kept == [call[t] EXCEPT !.seen = seen, !.blind = FALSE, !.failed = failed]
<1>2. seen \in Readings /\ UNCHANGED store /\ pc[t] = "single"
  BY ReadingWithoutType DEF TypeOK, Reread
<1>3. /\ pc[t] \in Locked /\ holder = t
      /\ Trusting(t, seen) \subseteq current \cup {t}
  BY <1>2, RequestKept DEF Locked, Repairing, Trusting
<1>4. CASE Stale(seen) = {}
  <2>1. Proceed(t, seen, Trusting(t, seen)) /\ Shows(t, seen)
    BY <1>1, <1>4
  <2> HIDE DEF seen
  <2> QED
    BY <1>2, <1>3, <2>1, ProceedTypeOK
<1>5. CASE Stale(seen) # {}
  <2>1. /\ call' = [call EXCEPT ![t] = kept]
        /\ pc' = [pc EXCEPT ![t] = "notice"]
        /\ holder' = IF holder = t THEN Nobody ELSE holder
        /\ current' \subseteq current \cup {t}
        /\ UNCHANGED shown
    <3>1. /\ call' = [call EXCEPT ![t].seen = seen, ![t].blind = FALSE,
                                  ![t].failed = @ \/ seen # store]
          /\ Goto(t, "notice") /\ Release(t) /\ UNCHANGED shown
          /\ current' \subseteq current \cup {t}
      BY <1>1, <1>3, <1>5
    <3> HIDE DEF seen
    <3> QED
      BY <3>1 DEF Goto, Release, TypeOK, Calls
  <2>2. failed \in BOOLEAN
    BY RequestKept, CallFields
  <2>3. /\ kept \in Calls
        /\ kept.op = call[t].op /\ kept.key = call[t].key /\ kept.value = call[t].value
    <3> HIDE DEF seen, failed
    <3> QED
      BY <1>2, <2>2, RequestKept DEF Calls
  <2> HIDE DEF kept
  <2>4. /\ kept.op = "record" <=> (t = Capture /\ "notice" # "idle")
        /\ kept.op = "set" => kept.value \in Typed(kept.key)
    BY <1>2, <2>3, RequestKept
  <2>5. "notice" \in Places /\ "notice" \notin Locked /\ "notice" \in Outcomes
    BY DEF Places, Locked, Repairing, Outcomes
  <2>6. store' \in Readings /\ shown' \in [key : Keys, value : Values]
    BY <1>2, <2>1 DEF TypeOK
  <2> QED
    BY <2>1, <2>3, <2>4, <2>5, <2>6, OneTaskTypeOK
<1> QED
  BY <1>4, <1>5

LEMMA NoticedTypeOK == ASSUME TypeOK, NEW t \in Tasks, Noticed(t) PROVE TypeOK'
<1>1. call[t].seen \in Readings
  BY RequestKept, CallFields
<1> QED
  BY <1>1, ProceedTypeOK DEF Noticed

\* A task that goes back to its idle place.
LEMMA ReturnTypeOK ==
    ASSUME TypeOK, NEW t \in Tasks, Return(t), store' \in Readings,
           shown' \in [key : Keys, value : Values],
           holder' = IF holder = t THEN Nobody ELSE holder,
           current' \subseteq current \ {t}
    PROVE  TypeOK'
<1>1. "idle" \in Places /\ "idle" \notin Locked
  BY DEF Places, Locked, Repairing
<1> QED
  BY <1>1, NoCallType, OneTaskTypeOK DEF Return, Goto

LEMMA StoreSettingTypeOK ==
    ASSUME TypeOK, NEW t \in Consoles, StoreSetting(t),
           call[t].op = "set"
    PROVE  TypeOK'
<1>1. t \in Tasks /\ call[t].key \in Keys
  BY TaskFacts, RequestKept, CallFields
<1>2. call[t].value \in Stored(call[t].key)
  BY <1>1, RequestKept, StoredValues
<1>3. store' \in Readings
  BY <1>1, <1>2, WriteType DEF StoreSetting, TypeOK
<1>4. shown' \in [key : Keys, value : Values]
  BY ForgetType DEF StoreSetting, TypeOK
<1> QED
  BY <1>1, <1>3, <1>4, ReturnTypeOK DEF StoreSetting, Release

LEMMA OtherTypeOK ==
    ASSUME TypeOK,
           \/ RecordingEnds \/ CutOff \/ Restart
           \/ \E t \in Consoles : Remove(t) \/ Format(t)
    PROVE  TypeOK'
<1>1. CASE RecordingEnds
  <2>1. holder # Capture
    BY <1>1, TaskFacts, RequestKept DEF RecordingEnds, Locked, Repairing
  <2> QED
    BY <1>1, <2>1, TaskFacts, ReturnTypeOK DEF RecordingEnds, TypeOK
<1>2. CASE CutOff
  BY <1>2, TaskFacts, ReturnTypeOK DEF CutOff, TypeOK, Release
<1>3. CASE Restart
  <2>1. call' \in [Tasks -> Calls] /\ \A t \in Tasks : call'[t].op = "get"
    BY <1>3, NoCallType DEF Restart
  <2>2. \A t \in Tasks : pc'[t] = "idle" /\ holder' # t
    BY <1>3, TaskFacts DEF Restart
  <2>3. /\ pc' \in [Tasks -> Places] /\ holder' = Nobody
        /\ current' = {} /\ UNCHANGED <<store, shown>>
    BY <1>3 DEF Restart, Places
  <2> QED
    BY <2>1, <2>2, <2>3 DEF TypeOK, Repairing
<1>4. CASE \E t \in Consoles : Remove(t) \/ Format(t)
  <2>1. UNCHANGED <<holder, pc, call>> /\ current' = {}
    BY <1>4 DEF Remove, Format
  <2>2. store' \in Readings
    <3>1. CASE \E t \in Consoles : Remove(t)
      BY <3>1, StoredValues, WriteType DEF Remove, TypeOK
    <3>2. CASE \E t \in Consoles : Format(t)
      <4>1. \A k \in Keys : store[k] \in Stored(k) /\ Absent \in Stored(k)
                            /\ Stored(k) \subseteq Values
        BY StoredValues, ReadingTypes DEF TypeOK
      <4> QED
        BY <3>2, <4>1 DEF Format, Readings
    <3> QED
      BY <1>4, <3>1, <3>2
  <2>3. shown' \in [key : Keys, value : Values]
    BY <1>4, ForgetType DEF Remove, Format, TypeOK
  <2> QED
    BY <2>1, <2>2, <2>3 DEF TypeOK
<1> QED
  BY <1>1, <1>2, <1>3, <1>4

-----------------------------------------------------------------------------
(* The inductive invariant.  A repair that has read right knows what is     *)
(* stored: before the pair is written all it read, then all but the rate;   *)
(* and of the keys it rewrites alone at most one is of the clock.  As long  *)
(* as nothing failed, what is stale is what it still has to write.          *)

KnowsStore(t, seen, todo) ==
    /\ Effective(store) = Effective(seen)
    /\ pc[t] = "pair rate" => store = seen
    /\ pc[t] \in {"pair bits", "restore"} =>
           store = [seen EXCEPT ![RATE_KEY] = Effective(seen)[RATE_KEY]]
    /\ pc[t] # "single" => /\ PairStale(seen)
                           /\ todo \cap ClockKeys = {}
                           /\ Stale(seen) \subseteq todo \cup ClockKeys
    /\ pc[t] = "single" =>
           \A k \in todo \cap ClockKeys : ClockKeys \cap Stale(store) \subseteq {k}

RepairInv(t) ==
    pc[t] \in Repairing =>
        /\ call[t].blind => call[t].failed
        /\ pc[t] = "restore" => call[t].failed
        /\ ~call[t].blind => KnowsStore(t, call[t].seen, call[t].todo)
        /\ pc[t] = "single" /\ ~call[t].failed => Stale(store) \subseteq call[t].todo

\* A value about to be stored has been accepted beside what was read.
StoreInv(t) == pc[t] = "store" => Accepts(t, call[t].seen)

NoticeInv(t) == pc[t] = "notice" => call[t].failed

IInv ==
    /\ TypeOK
    /\ \A t \in Tasks : RepairInv(t) /\ StoreInv(t) /\ NoticeInv(t)
    /\ ShownStaysInEffect

\* While one task writes no other repairs: the others' parts stay true.
LEMMA OthersKeep ==
    ASSUME IInv, NEW t, NEW u \in Tasks, u # t,
           call'[u] = call[u], pc'[u] = pc[u],
           UNCHANGED store \/ holder = t \/ holder = Nobody
    PROVE  RepairInv(u)' /\ StoreInv(u)' /\ NoticeInv(u)'
<1>1. StoreInv(u)' /\ NoticeInv(u)'
  BY DEF IInv, StoreInv, NoticeInv, Accepts
<1>2. CASE UNCHANGED store
  BY <1>1, <1>2 DEF IInv, RepairInv, KnowsStore
<1>3. CASE holder = t \/ holder = Nobody
  <2>1. pc[u] \notin Repairing
    BY <1>3, TaskFacts, RequestKept DEF IInv, Locked
  <2> QED
    BY <1>1, <2>1 DEF RepairInv
<1> QED
  BY <1>2, <1>3

LEMMA InitIInv == ASSUME Init PROVE IInv
<1>1. \A t \in Tasks : pc[t] = "idle"
  BY DEF Init
<1>2. ShownStaysInEffect
  BY DEF Init, ShownStaysInEffect
<1> QED
  BY <1>1, <1>2, InitTypeOK DEF IInv, RepairInv, StoreInv, NoticeInv, Repairing

LEMMA BeginIInv == ASSUME IInv, NEW t \in Tasks, Begin(t) PROVE IInv'
<1>1. PICK request \in Requests(t), unread \in Unread :
         LET seen == ReadingWithout(unread) IN
         /\ call' = [call EXCEPT ![t] =
                [op |-> request[1], key |-> request[2], value |-> request[3],
                 seen |-> seen,
                 todo |-> IF PairStale(seen) THEN Stale(seen) \ ClockKeys
                                             ELSE Stale(seen),
                 blind |-> seen # store, failed |-> seen # store]]
         /\ Goto(t, IF PairStale(seen) THEN "pair rate" ELSE "single")
  BY DEF Begin
<1>2. PICK seen : seen = ReadingWithout(unread)
  OBVIOUS
<1>3. PICK todo : todo = IF PairStale(seen) THEN Stale(seen) \ ClockKeys
                                            ELSE Stale(seen)
  OBVIOUS
<1>4. /\ call'[t].seen = seen /\ call'[t].todo = todo
      /\ call'[t].blind <=> seen # store
      /\ call'[t].failed <=> seen # store
      /\ pc'[t] = IF PairStale(seen) THEN "pair rate" ELSE "single"
      /\ \A u \in Tasks \ {t} : call'[u] = call[u] /\ pc'[u] = pc[u]
      /\ UNCHANGED <<store, shown>>
  BY <1>1, <1>2, <1>3 DEF IInv, TypeOK, Goto, Begin
<1>5. KnowsStore(t, seen, todo)' \/ seen # store
  <2> SUFFICES ASSUME seen = store PROVE KnowsStore(t, seen, todo)'
    OBVIOUS
  <2>1. CASE PairStale(seen)
    BY <1>3, <1>4, <2>1 DEF KnowsStore
  <2>2. CASE ~PairStale(seen)
    <3>1. \A k \in todo \cap ClockKeys : ClockKeys \cap Stale(seen) \subseteq {k}
      BY <1>3, <2>2, KeysDistinct DEF PairStale
    <3> QED
      BY <1>4, <2>2, <3>1 DEF KnowsStore
  <2> QED
    BY <2>1, <2>2
<1>6. pc'[t] = "single" /\ ~call'[t].failed => Stale(store') \subseteq todo
  BY <1>3, <1>4
<1>7. RepairInv(t)'
  BY <1>4, <1>5, <1>6 DEF RepairInv
<1>8. StoreInv(t)' /\ NoticeInv(t)'
  BY <1>4 DEF StoreInv, NoticeInv
<1>9. \A u \in Tasks \ {t} : RepairInv(u)' /\ StoreInv(u)' /\ NoticeInv(u)'
  BY <1>4, OthersKeep
<1>10. ShownStaysInEffect'
  BY <1>4 DEF IInv, ShownStaysInEffect
<1> QED
  BY <1>7, <1>8, <1>9, <1>10, BeginTypeOK DEF IInv

\* Every repair step keeps what was shown: on a right reading nothing in effect
\* changes, on a wrong one what was shown no longer counts.
LEMMA RepairKeepsShown ==
    ASSUME IInv, NEW t, RepairForgets(t),
           ~call[t].blind => Effective(store') = Effective(store)
    PROVE  ShownStaysInEffect'
<1>1. CASE call[t].blind
  <2>1. shown' = NotShown
    BY <1>1 DEF RepairForgets, Forget, IInv, TypeOK
  <2> QED
    BY <2>1 DEF ShownStaysInEffect
<1>2. CASE ~call[t].blind
  <2>1. shown' = shown
    BY <1>2 DEF RepairForgets, Forget
  <2> QED
    BY <1>2, <2>1 DEF IInv, ShownStaysInEffect
<1> QED
  BY <1>1, <1>2

\* What a repair step leaves to show.
LEMMA RepairIInv ==
    ASSUME IInv, NEW t \in Tasks, pc[t] \in Repairing, TypeOK', RepairForgets(t),
           \A u \in Tasks \ {t} : call'[u] = call[u] /\ pc'[u] = pc[u],
           pc'[t] \in Repairing,
           call'[t].blind <=> call[t].blind,
           ~call[t].blind => Effective(store') = Effective(store),
           RepairInv(t)'
    PROVE  IInv'
<1>1. holder = t
  BY RequestKept DEF IInv, Locked
<1>2. StoreInv(t)' /\ NoticeInv(t)'
  BY DEF StoreInv, NoticeInv, Repairing
<1>3. \A u \in Tasks \ {t} : RepairInv(u)' /\ StoreInv(u)' /\ NoticeInv(u)'
  BY <1>1, OthersKeep
<1> QED
  BY <1>2, <1>3, RepairKeepsShown DEF IInv

\* The fields of the call after a step that may have failed.
LEMMA FailingFields ==
    ASSUME TypeOK, NEW t \in Tasks, NEW landed \in BOOLEAN,
           call' = Failing(t, landed)
    PROVE  /\ call'[t].seen = call[t].seen /\ call'[t].todo = call[t].todo
           /\ call'[t].blind = call[t].blind
           /\ call'[t].failed <=> call[t].failed \/ ~landed
           /\ \A u \in Tasks \ {t} : call'[u] = call[u]
  BY DEF Failing, TypeOK, Calls

LEMMA RepairRateIInv == ASSUME IInv, NEW t \in Tasks, RepairRate(t) PROVE IInv'
<1>1. PICK landed \in BOOLEAN :
        /\ Write(RATE_KEY, Effective(call[t].seen)[RATE_KEY], landed)
        /\ call' = Failing(t, landed)
        /\ Goto(t, IF landed THEN "pair bits" ELSE "single")
  BY DEF RepairRate
<1>2. PICK seen : seen = call[t].seen
  OBVIOUS
<1>3. PICK todo : todo = call[t].todo
  OBVIOUS
<1>4. /\ call'[t].seen = seen /\ call'[t].todo = todo
      /\ call'[t].blind = call[t].blind
      /\ call'[t].failed <=> call[t].failed \/ ~landed
      /\ \A u \in Tasks \ {t} : call'[u] = call[u]
  BY <1>1, <1>2, <1>3, FailingFields DEF IInv
<1>5. /\ pc'[t] = IF landed THEN "pair bits" ELSE "single"
      /\ \A u \in Tasks \ {t} : pc'[u] = pc[u]
  BY <1>1 DEF Goto, IInv, TypeOK
<1>6. /\ pc[t] = "pair rate" /\ pc[t] \in Repairing /\ pc'[t] \in Repairing
      /\ RepairForgets(t) /\ seen \in Readings
  BY <1>2, <1>5, RequestKept, CallFields DEF RepairRate, Repairing, IInv
<1>7. ~call[t].blind => KnowsStore(t, seen, todo)
  BY <1>2, <1>3, <1>6 DEF IInv, RepairInv
<1>8. ASSUME ~call[t].blind
      PROVE  Effective(store') = Effective(store) /\ KnowsStore(t, seen, todo)'
  <2>1. /\ store = seen /\ PairStale(seen) /\ todo \cap ClockKeys = {}
        /\ Stale(seen) \subseteq todo \cup ClockKeys
    BY <1>6, <1>7, <1>8 DEF KnowsStore
  <2>2. CASE landed
    <3>1. store' = [seen EXCEPT ![RATE_KEY] = Effective(seen)[RATE_KEY]]
      BY <1>1, <1>2, <2>1, <2>2 DEF Write
    <3>2. Effective(store') = Effective(seen)
      BY <1>6, <2>1, <3>1, PairWrites
    <3> QED
      BY <1>5, <2>1, <2>2, <3>1, <3>2 DEF KnowsStore
  <2>3. CASE ~landed
    <3>1. store' = store
      BY <1>1, <2>3 DEF Write
    <3> QED
      BY <1>5, <2>1, <2>3, <3>1 DEF KnowsStore
  <2> QED
    BY <2>2, <2>3
<1>9. RepairInv(t)'
  BY <1>2, <1>4, <1>5, <1>6, <1>8 DEF IInv, RepairInv
<1> QED
  BY <1>4, <1>5, <1>6, <1>8, <1>9, RepairIInv, RepairStepsTypeOK DEF IInv

LEMMA RepairBitsIInv == ASSUME IInv, NEW t \in Tasks, RepairBits(t) PROVE IInv'
<1>1. PICK landed \in BOOLEAN :
        /\ Write(BITS_KEY, Effective(call[t].seen)[BITS_KEY], landed)
        /\ call' = Failing(t, landed)
        /\ Goto(t, IF landed THEN "single" ELSE "restore")
  BY DEF RepairBits
<1>2. PICK seen : seen = call[t].seen
  OBVIOUS
<1>3. PICK todo : todo = call[t].todo
  OBVIOUS
<1>4. /\ call'[t].seen = seen /\ call'[t].todo = todo
      /\ call'[t].blind = call[t].blind
      /\ call'[t].failed <=> call[t].failed \/ ~landed
      /\ \A u \in Tasks \ {t} : call'[u] = call[u]
  BY <1>1, <1>2, <1>3, FailingFields DEF IInv
<1>5. /\ pc'[t] = IF landed THEN "single" ELSE "restore"
      /\ \A u \in Tasks \ {t} : pc'[u] = pc[u]
  BY <1>1 DEF Goto, IInv, TypeOK
<1>6. /\ pc[t] = "pair bits" /\ pc[t] \in Repairing /\ pc'[t] \in Repairing
      /\ RepairForgets(t) /\ seen \in Readings
  BY <1>2, <1>5, RequestKept, CallFields DEF RepairBits, Repairing, IInv
<1>7. ~call[t].blind => KnowsStore(t, seen, todo)
  BY <1>2, <1>3, <1>6 DEF IInv, RepairInv
<1>8. ASSUME ~call[t].blind
      PROVE  /\ Effective(store') = Effective(store)
             /\ KnowsStore(t, seen, todo)'
             /\ landed => Stale(store') \subseteq todo
  <2>1. /\ store = [seen EXCEPT ![RATE_KEY] = Effective(seen)[RATE_KEY]]
        /\ Effective(store) = Effective(seen)
        /\ PairStale(seen) /\ todo \cap ClockKeys = {}
        /\ Stale(seen) \subseteq todo \cup ClockKeys
    BY <1>6, <1>7, <1>8 DEF KnowsStore
  <2>2. CASE landed
    <3>1. store' = [store EXCEPT ![BITS_KEY] = Effective(seen)[BITS_KEY]]
      BY <1>1, <1>2, <2>2 DEF Write
    <3>2. /\ Effective(store') = Effective(seen)
          /\ Stale(store') = Stale(seen) \ ClockKeys
      BY <1>6, <2>1, <3>1, PairWrites
    <3> QED
      BY <1>5, <2>1, <2>2, <3>2 DEF KnowsStore
  <2>3. CASE ~landed
    <3>1. store' = store
      BY <1>1, <2>3 DEF Write
    <3> QED
      BY <1>5, <2>1, <2>3, <3>1 DEF KnowsStore
  <2> QED
    BY <2>2, <2>3
<1>9. RepairInv(t)'
  BY <1>2, <1>4, <1>5, <1>6, <1>8 DEF IInv, RepairInv
<1> QED
  BY <1>4, <1>5, <1>6, <1>8, <1>9, RepairIInv, RepairStepsTypeOK DEF IInv

LEMMA RestoreRateIInv == ASSUME IInv, NEW t \in Tasks, RestoreRate(t) PROVE IInv'
<1>1. PICK landed \in BOOLEAN : Write(RATE_KEY, call[t].seen[RATE_KEY], landed)
  BY DEF RestoreRate
<1>2. PICK seen : seen = call[t].seen
  OBVIOUS
<1>3. PICK todo : todo = call[t].todo
  OBVIOUS
<1>4. /\ call' = call
      /\ pc'[t] = "single" /\ \A u \in Tasks \ {t} : pc'[u] = pc[u]
  BY DEF RestoreRate, Goto, IInv, TypeOK
<1>5. /\ pc[t] = "restore" /\ pc[t] \in Repairing /\ pc'[t] \in Repairing
      /\ RepairForgets(t) /\ seen \in Readings
  BY <1>2, <1>4, RequestKept, CallFields DEF RestoreRate, Repairing, IInv
<1>6. /\ ~call[t].blind => KnowsStore(t, seen, todo)
      /\ call[t].failed
  BY <1>2, <1>3, <1>5 DEF IInv, RepairInv
<1>7. ASSUME ~call[t].blind
      PROVE  Effective(store') = Effective(store) /\ KnowsStore(t, seen, todo)'
  <2>1. /\ store = [seen EXCEPT ![RATE_KEY] = Effective(seen)[RATE_KEY]]
        /\ Effective(store) = Effective(seen)
        /\ PairStale(seen) /\ todo \cap ClockKeys = {}
    BY <1>5, <1>6, <1>7 DEF KnowsStore
  <2>2. store' = seen \/ store' = store
    <3>1. [store EXCEPT ![RATE_KEY] = seen[RATE_KEY]] = seen
      BY <1>5, <2>1, PairWrites
    <3> QED
      BY <1>1, <1>2, <3>1 DEF Write
  <2> QED
    BY <1>4, <2>1, <2>2 DEF KnowsStore
<1>8. RepairInv(t)'
  BY <1>2, <1>3, <1>4, <1>5, <1>6, <1>7 DEF IInv, RepairInv
<1> QED
  BY <1>4, <1>5, <1>7, <1>8, RepairIInv, RepairStepsTypeOK DEF IInv

LEMMA RepairSingleIInv == ASSUME IInv, NEW t \in Tasks, RepairSingle(t) PROVE IInv'
<1>1. PICK k \in call[t].todo, landed \in BOOLEAN :
        /\ Write(k, Effective(call[t].seen)[k], landed)
        /\ call' = [Failing(t, landed) EXCEPT ![t].todo = @ \ {k}]
  BY DEF RepairSingle
<1>2. PICK seen : seen = call[t].seen
  OBVIOUS
<1>3. PICK todo : todo = call[t].todo
  OBVIOUS
<1>4. /\ call'[t].seen = seen /\ call'[t].todo = todo \ {k}
      /\ call'[t].blind = call[t].blind
      /\ call'[t].failed <=> call[t].failed \/ ~landed
      /\ \A u \in Tasks \ {t} : call'[u] = call[u]
  BY <1>1, <1>2, <1>3 DEF Failing, IInv, TypeOK, Calls
<1>5. /\ pc[t] = "single" /\ pc' = pc /\ pc[t] \in Repairing /\ pc'[t] \in Repairing
      /\ RepairForgets(t)
  BY DEF RepairSingle, Repairing
<1>6. seen \in Readings /\ k \in Keys /\ todo \subseteq Keys /\ store \in Readings
  BY <1>2, <1>3, RequestKept, CallFields DEF IInv, TypeOK
<1>7. /\ ~call[t].blind => KnowsStore(t, seen, todo)
      /\ call[t].blind => call[t].failed
      /\ ~call[t].failed => Stale(store) \subseteq todo
  BY <1>2, <1>3, <1>5 DEF IInv, RepairInv
<1>8. ASSUME ~call[t].blind
      PROVE  /\ Effective(store') = Effective(store)
             /\ KnowsStore(t, seen, todo \ {k})'
             /\ landed => Stale(store') = Stale(store) \ {k}
  <2>1. /\ Effective(store) = Effective(seen)
        /\ \A j \in todo \cap ClockKeys : ClockKeys \cap Stale(store) \subseteq {j}
    BY <1>5, <1>7, <1>8 DEF KnowsStore
  <2>2. CASE landed
    <3>1. store' = [store EXCEPT ![k] = Effective(store)[k]]
      BY <1>1, <1>2, <2>1, <2>2 DEF Write
    <3>2. k \in ClockKeys => \A o \in ClockKeys \ {k} : o \notin Stale(store)
      BY <1>3, <2>1
    <3>3. Effective(store') = Effective(store) /\ Stale(store') = Stale(store) \ {k}
      BY <1>6, <3>1, <3>2, WriteEffective
    <3> QED
      BY <1>5, <2>1, <3>3 DEF KnowsStore
  <2>3. CASE ~landed
    <3>1. store' = store
      BY <1>1, <2>3 DEF Write
    <3> QED
      BY <1>5, <2>1, <2>3, <3>1 DEF KnowsStore
  <2> QED
    BY <2>2, <2>3
<1>9. RepairInv(t)'
  BY <1>4, <1>5, <1>7, <1>8 DEF RepairInv
<1> QED
  BY <1>4, <1>5, <1>8, <1>9, RepairIInv, RepairStepsTypeOK DEF IInv

\* A task that leaves the repair: nothing is claimed of it but what it stores.
LEMMA ProceedIInv ==
    ASSUME IInv, NEW t \in Tasks, NEW seen \in Readings,
           pc[t] # "idle", Accepts(t, seen) => holder \in {t, Nobody},
           NEW trusted, trusted \subseteq current \cup {t},
           Proceed(t, seen, trusted), Shows(t, seen), UNCHANGED store
    PROVE  IInv'
<1>1. /\ pc'[t] \in {"store", "recording", "idle"}
      /\ pc'[t] = "store" => Accepts(t, seen) /\ Keep(t, seen)
      /\ \A u \in Tasks \ {t} : call'[u] = call[u] /\ pc'[u] = pc[u]
  BY DEF Proceed, Keep, Return, Goto, IInv, TypeOK
<1>2. StoreInv(t)'
  <2> SUFFICES ASSUME pc'[t] = "store" PROVE Accepts(t, call[t].seen)'
    BY DEF StoreInv
  <2>1. /\ call'[t].op = call[t].op /\ call'[t].key = call[t].key
        /\ call'[t].value = call[t].value /\ call'[t].seen = seen
    BY <1>1 DEF Keep, IInv, TypeOK, Calls
  <2> QED
    BY <1>1, <2>1 DEF Accepts
<1>3. RepairInv(t)' /\ NoticeInv(t)'
  BY <1>1 DEF RepairInv, NoticeInv, Repairing
<1>4. \A u \in Tasks \ {t} : RepairInv(u)' /\ StoreInv(u)' /\ NoticeInv(u)'
  BY <1>1, OthersKeep
<1>5. ShownStaysInEffect'
  <2>1. CASE shown' = shown
    BY <2>1 DEF IInv, ShownStaysInEffect
  <2>2. CASE shown' = NotShown
    BY <2>2 DEF ShownStaysInEffect
  <2>3. CASE seen = store /\ shown' = [key |-> call[t].key,
                                       value |-> Effective(seen)[call[t].key]]
    BY <2>3 DEF ShownStaysInEffect
  <2> QED
    BY <2>1, <2>2, <2>3 DEF Shows
<1> QED
  BY <1>2, <1>3, <1>4, <1>5, ProceedTypeOK DEF IInv

\* One pass repairs all: what is still stale was not written, or not read.
LEMMA RereadIInv == ASSUME IInv, NEW t \in Tasks, Reread(t) PROVE IInv'
<1>1. PICK unread \in Unread :
        LET seen == ReadingWithout(unread) IN
         IF Stale(seen) = {}
         THEN /\ Proceed(t, seen, Trusting(t, seen))
              /\ Shows(t, seen)
         ELSE /\ Goto(t, "notice")
              /\ call' = [call EXCEPT ![t].seen = seen,
                                      ![t].blind = FALSE,
                                      ![t].failed = @ \/ seen # store]
              /\ Release(t)
              /\ current' = Trusting(t, seen)
              /\ UNCHANGED shown
  BY DEF Reread
<1>2. PICK seen : seen = ReadingWithout(unread)
  OBVIOUS
<1>3. seen \in Readings /\ UNCHANGED store /\ pc[t] = "single" /\ call[t].todo = {}
  BY <1>2, ReadingWithoutType DEF IInv, TypeOK, Reread
<1>4. /\ pc[t] \in Repairing /\ holder = t
      /\ Trusting(t, seen) \subseteq current \cup {t}
  BY <1>3, RequestKept DEF Locked, Repairing, IInv, Trusting
<1>5. CASE Stale(seen) = {}
  <2>1. Proceed(t, seen, Trusting(t, seen)) /\ Shows(t, seen) /\ pc[t] # "idle"
    BY <1>1, <1>2, <1>3, <1>5
  <2> QED
    BY <1>3, <1>4, <2>1, ProceedIInv
<1>6. CASE Stale(seen) # {}
  <2>1. /\ pc'[t] = "notice"
        /\ call'[t].failed <=> call[t].failed \/ seen # store
        /\ \A u \in Tasks \ {t} : call'[u] = call[u] /\ pc'[u] = pc[u]
        /\ UNCHANGED <<store, shown>>
    BY <1>1, <1>2, <1>3, <1>6 DEF Goto, IInv, TypeOK, Calls
  <2>2. call[t].failed \/ seen # store
    BY <1>3, <1>4, <1>6 DEF IInv, RepairInv
  <2>3. RepairInv(t)' /\ StoreInv(t)' /\ NoticeInv(t)'
    BY <2>1, <2>2 DEF RepairInv, StoreInv, NoticeInv, Repairing
  <2>4. \A u \in Tasks \ {t} : RepairInv(u)' /\ StoreInv(u)' /\ NoticeInv(u)'
    BY <2>1, OthersKeep
  <2>5. ShownStaysInEffect'
    BY <2>1 DEF IInv, ShownStaysInEffect
  <2> QED
    BY <2>3, <2>4, <2>5, RereadTypeOK DEF IInv
<1> QED
  BY <1>5, <1>6

LEMMA NoticedIInv == ASSUME IInv, NEW t \in Tasks, Noticed(t) PROVE IInv'
<1>1. call[t].seen \in Readings
  BY RequestKept, CallFields DEF IInv
<1> QED
  BY <1>1, ProceedIInv DEF Noticed

\* Changing the edge leaves the clock alone, and the other way round.
LEMMA KindsApart ==
    ASSUME NEW r \in Readings, NEW s \in Readings, NEW k \in Keys, NEW j \in Keys,
           \A i \in Keys \ {k} : s[i] = r[i],
           \/ k = EDGE_KEY /\ j \in ClockKeys
           \/ k \in ClockKeys /\ j = EDGE_KEY
    PROVE  Effective(s)[j] = Effective(r)[j]
<1>1. \A i \in Keys \ {k} : Raw(s)[i] = Raw(r)[i]
  BY RawType
<1>2. CASE k = EDGE_KEY /\ j \in ClockKeys
  BY <1>1, <1>2, ClockAlone, KeysDistinct
<1>3. CASE k \in ClockKeys /\ j = EDGE_KEY
  BY <1>1, <1>3, EdgeAlone, KeysDistinct
<1> QED
  BY <1>2, <1>3

\* An accepted value changes nothing but its own key.
LEMMA AcceptedSetKeepsOthers ==
    ASSUME NEW r \in Readings, NEW s \in Readings, NEW k \in Keys, NEW j \in Keys,
           validate_setting_with_store(r, k, s[k]),
           \A i \in Keys \ {k} : s[i] = r[i],
           j # k
    PROVE  Effective(s)[j] = Effective(r)[j]
<1>0. PICK v : v = s[k]
  OBVIOUS
<1>1. /\ \A i \in Keys : s[i] = IF i = k THEN v ELSE r[i]
      /\ validate_setting_with_store(r, k, v)
  BY <1>0
<1>2. CASE k = EDGE_KEY \/ j = EDGE_KEY
  <2>1. \/ k = EDGE_KEY /\ j \in ClockKeys
        \/ k \in ClockKeys /\ j = EDGE_KEY
    BY <1>2, KeysDistinct
  <2>2. \A i \in Keys \ {k} : s[i] = r[i]
    BY <1>1
  <2> QED
    BY <1>1, <2>1, <2>2, KindsApart
<1>3. CASE k \in ClockKeys /\ j \in ClockKeys
  <2>1. v \in Nat
    BY <1>1 DEF validate_setting_with_store, validate_setting
  <2>2. Resolve([Raw(r) EXCEPT ![k] = v])[j] = Effective(r)[j]
    BY <1>1, <1>3 DEF validate_setting_with_store, set_changes_other_clock_key
  <2>3. Raw(s) = [Raw(r) EXCEPT ![k] = v]
    <3>1. \A i \in Keys : Raw(s)[i] = IF s[i] \in Nat THEN s[i] ELSE Default(i)
      BY <1>1, RawType
    <3>2. \A i \in Keys : Raw(s)[i] = IF i = k THEN v ELSE Raw(r)[i]
      <4>1. \A i \in Keys : Raw(r)[i] = IF r[i] \in Nat THEN r[i] ELSE Default(i)
        BY RawType
      <4> QED
        BY <1>1, <2>1, <3>1, <4>1
    <3>3. Raw(s) \in [Keys -> Nat] /\ Raw(r) \in [Keys -> Nat]
      BY <1>1, RawType
    <3>4. [Raw(r) EXCEPT ![k] = v] \in [Keys -> Nat]
      BY <2>1, <3>3
    <3>5. \A i \in Keys : Raw(s)[i] = [Raw(r) EXCEPT ![k] = v][i]
      BY <3>2, <3>3
    <3> QED
      BY <3>3, <3>4, <3>5, SameSettings
  <2> QED
    BY <2>2, <2>3 DEF Effective
<1> QED
  BY <1>2, <1>3, KeysDistinct

LEMMA StoreSettingIInv ==
    ASSUME IInv, NEW t \in Consoles, StoreSetting(t) PROVE IInv'
<1>1. t \in Tasks /\ pc[t] = "store" /\ Accepts(t, call[t].seen)
  BY TaskFacts DEF IInv, StoreInv, StoreSetting
<1>2. call[t].op = "set"
  BY <1>1 DEF Accepts
<1>3. /\ call[t].key \in Keys /\ call[t].value \in Stored(call[t].key)
      /\ holder = t
  BY <1>1, <1>2, RequestKept, CallFields, StoredValues DEF IInv, Locked
<1>4. /\ pc'[t] = "idle"
      /\ \A u \in Tasks \ {t} : call'[u] = call[u] /\ pc'[u] = pc[u]
  BY <1>1 DEF StoreSetting, Return, Goto, IInv, TypeOK
<1>5. RepairInv(t)' /\ StoreInv(t)' /\ NoticeInv(t)'
  BY <1>4 DEF RepairInv, StoreInv, NoticeInv, Repairing
<1>6. \A u \in Tasks \ {t} : RepairInv(u)' /\ StoreInv(u)' /\ NoticeInv(u)'
  BY <1>3, <1>4, OthersKeep
<1>7. ShownStaysInEffect'
  <2>1. PICK landed \in BOOLEAN :
          /\ Write(call[t].key, call[t].value, landed)
          /\ Forget(IF ~landed THEN {}
                    ELSE IF call[t].seen = store THEN {call[t].key} ELSE Keys)
    BY DEF StoreSetting
  <2>2. shown.key \in Keys /\ store \in Readings
    BY DEF IInv, TypeOK
  <2>3. CASE ~landed
    BY <2>1, <2>3 DEF Write, Forget, IInv, ShownStaysInEffect
  <2>4. CASE landed /\ call[t].seen # store
    BY <2>1, <2>2, <2>4 DEF Forget, ShownStaysInEffect
  <2>5. CASE landed /\ call[t].seen = store /\ shown.key = call[t].key
    BY <2>1, <2>5 DEF Forget, ShownStaysInEffect
  <2>6. CASE landed /\ call[t].seen = store /\ shown.key # call[t].key
    <3>1. shown' = shown /\ store' = [store EXCEPT ![call[t].key] = call[t].value]
      BY <2>1, <2>6 DEF Forget, Write
    <3>2. validate_setting_with_store(store, call[t].key, call[t].value)
      BY <1>1, <2>6 DEF Accepts
    <3>3. Effective(store')[shown.key] = Effective(store)[shown.key]
      <4>1. PICK s, k : s = store' /\ k = call[t].key
        OBVIOUS
      <4>2. /\ k \in Keys /\ shown.key # k /\ s \in Readings
            /\ validate_setting_with_store(store, k, s[k])
            /\ \A i \in Keys \ {k} : s[i] = store[i]
        <5>1. k \in Keys /\ call[t].value \in Stored(k) /\ shown.key # k
          BY <1>3, <2>6, <4>1
        <5>2. s = [store EXCEPT ![k] = call[t].value]
          BY <3>1, <4>1
        <5>3. s \in Readings
          BY <2>2, <5>1, <5>2, ReadingTypes
        <5>4. store \in [Keys -> Values]
          BY <2>2, ReadingTypes
        <5>5. s[k] = call[t].value /\ \A i \in Keys \ {k} : s[i] = store[i]
          BY <5>1, <5>2, <5>4
        <5> QED
          BY <3>2, <4>1, <5>1, <5>3, <5>5
      <4>3. Effective(s)[shown.key] = Effective(store)[shown.key]
        BY <2>2, <4>2, AcceptedSetKeepsOthers
      <4> QED
        BY <4>1, <4>3
    <3> QED
      BY <3>1, <3>3 DEF IInv, ShownStaysInEffect
  <2> QED
    BY <2>3, <2>4, <2>5, <2>6
<1> QED
  BY <1>2, <1>5, <1>6, <1>7, StoreSettingTypeOK DEF IInv

LEMMA OtherIInv ==
    ASSUME IInv,
           \/ RecordingEnds \/ CutOff \/ Restart
           \/ \E t \in Consoles : Remove(t) \/ Format(t)
    PROVE  IInv'
<1>1. TypeOK'
  BY OtherTypeOK DEF IInv
<1>2. ASSUME NEW t \in Tasks, Return(t), UNCHANGED <<store, shown>>
      PROVE  IInv'
  <2>1. /\ pc'[t] = "idle"
        /\ \A u \in Tasks \ {t} : call'[u] = call[u] /\ pc'[u] = pc[u]
    BY <1>2 DEF Return, Goto, IInv, TypeOK
  <2>2. RepairInv(t)' /\ StoreInv(t)' /\ NoticeInv(t)'
    BY <2>1 DEF RepairInv, StoreInv, NoticeInv, Repairing
  <2>3. \A u \in Tasks \ {t} : RepairInv(u)' /\ StoreInv(u)' /\ NoticeInv(u)'
    BY <1>2, <2>1, OthersKeep
  <2>4. ShownStaysInEffect'
    BY <1>2 DEF IInv, ShownStaysInEffect
  <2> QED
    BY <1>1, <2>2, <2>3, <2>4 DEF IInv
<1>3. CASE RecordingEnds
  BY <1>2, <1>3, TaskFacts DEF RecordingEnds
<1>4. CASE CutOff
  BY <1>2, <1>4, TaskFacts DEF CutOff
<1>5. CASE Restart
  <2>1. \A t \in Tasks : pc'[t] = "idle"
    BY <1>5 DEF Restart
  <2>2. \A t \in Tasks : RepairInv(t)' /\ StoreInv(t)' /\ NoticeInv(t)'
    BY <2>1 DEF RepairInv, StoreInv, NoticeInv, Repairing
  <2>3. ShownStaysInEffect'
    BY <1>5 DEF Restart, IInv, ShownStaysInEffect
  <2> QED
    BY <1>1, <2>2, <2>3 DEF IInv
<1>6. CASE \E t \in Consoles : Remove(t) \/ Format(t)
  <2>1. holder = Nobody /\ UNCHANGED <<holder, pc, call>>
    BY <1>6 DEF Remove, Format
  <2>2. ASSUME NEW t \in Tasks PROVE RepairInv(t)' /\ StoreInv(t)' /\ NoticeInv(t)'
    <3>1. pc[t] \notin Repairing
      BY <2>1, TaskFacts, RequestKept DEF IInv, Locked
    <3> QED
      BY <2>1, <3>1 DEF IInv, RepairInv, StoreInv, NoticeInv, Accepts
  <2>3. store \in Readings /\ store' \in Readings /\ shown.key \in Keys
    BY <1>1 DEF IInv, TypeOK
  <2>4. ShownStaysInEffect'
    <3>1. CASE \E t \in Consoles : Format(t)
      BY <2>3, <3>1 DEF Format, Forget, ShownStaysInEffect
    <3>2. CASE \E t \in Consoles : Remove(t)
      <4>1. PICK k \in Keys :
              /\ store' = [store EXCEPT ![k] = Absent]
              /\ Forget(IF k \in ClockKeys THEN ClockKeys ELSE {k})
        BY <3>2 DEF Remove, Write
      <4>2. CASE shown' = NotShown
        BY <4>2 DEF ShownStaysInEffect
      <4>3. CASE shown' # NotShown
        <5>1. /\ shown' = shown
              /\ shown.key \notin IF k \in ClockKeys THEN ClockKeys ELSE {k}
          BY <4>1, <4>3 DEF Forget
        <5>2. Effective(store')[shown.key] = Effective(store)[shown.key]
          <6>1. \A i \in Keys \ {k} : store'[i] = store[i]
            BY <2>3, <4>1, ReadingTypes
          <6>2. \/ k = EDGE_KEY /\ shown.key \in ClockKeys
                \/ k \in ClockKeys /\ shown.key = EDGE_KEY
            BY <2>3, <5>1, KeysDistinct
          <6>3. PICK s : s = store'
            OBVIOUS
          <6>4. Effective(s)[shown.key] = Effective(store)[shown.key]
            BY <2>3, <6>1, <6>2, <6>3, KindsApart
          <6> QED
            BY <6>3, <6>4
        <5> QED
          BY <5>1, <5>2 DEF IInv, ShownStaysInEffect
      <4> QED
        BY <4>2, <4>3
    <3> QED
      BY <1>6, <3>1, <3>2
  <2> QED
    BY <1>1, <2>2, <2>4 DEF IInv
<1> QED
  BY <1>3, <1>4, <1>5, <1>6

LEMMA StepIInv == ASSUME IInv, [Next]_vars PROVE IInv'
<1>1. CASE UNCHANGED vars
  BY <1>1 DEF vars, IInv, TypeOK, RepairInv, KnowsStore, StoreInv, NoticeInv,
              Accepts, ShownStaysInEffect
<1>2. ASSUME NEW t \in Tasks, Reconcile(t) PROVE IInv'
  BY <1>2, BeginIInv, RepairRateIInv, RepairBitsIInv, RestoreRateIInv,
     RepairSingleIInv, RereadIInv, NoticedIInv DEF Reconcile
<1>3. ASSUME NEW t \in Consoles, StoreSetting(t) \/ Remove(t) \/ Format(t)
      PROVE  IInv'
  BY <1>3, StoreSettingIInv, OtherIInv
<1>4. CASE RecordingEnds \/ CutOff \/ Restart
  BY <1>4, OtherIInv
<1> QED
  BY <1>1, <1>2, <1>3, <1>4 DEF Next

\* The invariant holds in every reachable state.
THEOREM Inductive == Spec => []IInv
  BY InitIInv, StepIInv, PTL DEF Spec

-----------------------------------------------------------------------------
(* What a trusted reading is worth.  The store may have been repaired since, *)
(* or half of it; then each key says what it said or what is in effect.  A   *)
(* repair under way may put back what it read itself, so the same holds of   *)
(* its reading.                                                              *)

Kept(r, s) ==
    /\ Effective(s) = Effective(r)
    /\ \A k \in Keys : Raw(s)[k] \in {Raw(r)[k], Effective(r)[k]}

TrustInv(t) ==
    /\ Kept(call[t].seen, store)
    /\ \A u \in Tasks :
          pc[u] \in Repairing /\ ~call[u].blind => Kept(call[t].seen, call[u].seen)

CurrentInv == \A t \in current : TrustInv(t)

\* A store put together from what was kept, what a repair read and what is in
\* effect is kept, if it is still what is in effect.
LEMMA KeptMix ==
    ASSUME NEW r \in Readings, NEW s \in Readings, NEW q \in Readings,
           NEW m \in Readings, Kept(r, s), Kept(r, q), Effective(m) = Effective(q),
           \A k \in Keys : m[k] \in {s[k], q[k], Effective(q)[k]}
    PROVE  Kept(r, m)
<1>1. Effective(m) = Effective(r) /\ Effective(q) = Effective(r)
  BY DEF Kept
<1>2. ASSUME NEW k \in Keys PROVE Raw(m)[k] \in {Raw(r)[k], Effective(r)[k]}
  <2>1. /\ Raw(m)[k] = IF m[k] \in Nat THEN m[k] ELSE Default(k)
        /\ Raw(s)[k] = IF s[k] \in Nat THEN s[k] ELSE Default(k)
        /\ Raw(q)[k] = IF q[k] \in Nat THEN q[k] ELSE Default(k)
    BY RawType
  <2>2. Effective(r)[k] \in Nat
    BY EffectiveType
  <2>3. Raw(m)[k] \in {Raw(s)[k], Raw(q)[k], Effective(r)[k]}
    BY <1>1, <2>1, <2>2
  <2> QED
    BY <2>3 DEF Kept
<1> QED
  BY <1>1, <1>2 DEF Kept

\* What every step but a repair's leaves to show: the store stays, trust goes
\* only to who had it or has just read under the lock, and a repair that begins
\* has read what is stored.
LEMMA StoreStaysTrust ==
    ASSUME TypeOK, CurrentInv, NEW t \in Tasks, UNCHANGED store,
           \A u \in Tasks \ {t} : call'[u] = call[u] /\ pc'[u] = pc[u],
           current' \subseteq current \cup {t},
           t \in current' => \/ t \in current /\ call'[t].seen = call[t].seen
                             \/ holder = t /\ call'[t].seen = store,
           pc'[t] \in Repairing => call'[t].blind \/ call'[t].seen = store
    PROVE  CurrentInv'
<1>0. \A v \in current' : v \in Tasks /\ (v # t => v \in current)
  BY TrustFacts
<1>1. ASSUME NEW v \in current' PROVE Kept(call'[v].seen, store)
  <2>1. CASE call'[v].seen = store
    BY <2>1 DEF Kept
  <2>2. CASE v \in current /\ call'[v].seen = call[v].seen
    BY <2>2 DEF CurrentInv, TrustInv
  <2> QED
    BY <1>0, <2>1, <2>2
<1>2. ASSUME NEW v \in current', NEW u \in Tasks, pc'[u] \in Repairing, ~call'[u].blind
      PROVE  Kept(call'[v].seen, call'[u].seen)
  <2>1. CASE u = t
    <3>1. call'[u].seen = store
      BY <1>2, <2>1
    <3> QED
      BY <1>1, <3>1
  <2>2. CASE u # t /\ v \in current /\ call'[v].seen = call[v].seen
    BY <1>2, <2>2 DEF CurrentInv, TrustInv
  <2>3. CASE u # t /\ holder = t
    <3>1. pc[u] \in Locked
      BY <1>2, <2>3 DEF Locked
    <3> QED
      BY <2>3, <3>1, RequestKept
  <2> QED
    BY <1>0, <1>2, <2>1, <2>2, <2>3
<1> QED
  BY <1>1, <1>2 DEF CurrentInv, TrustInv

LEMMA BeginTrust ==
    ASSUME IInv, CurrentInv, NEW t \in Tasks, Begin(t) PROVE CurrentInv'
<1>1. PICK request \in Requests(t), unread \in Unread :
         LET seen == ReadingWithout(unread) IN
         /\ call' = [call EXCEPT ![t] =
                [op |-> request[1], key |-> request[2], value |-> request[3],
                 seen |-> seen,
                 todo |-> IF PairStale(seen) THEN Stale(seen) \ ClockKeys
                                             ELSE Stale(seen),
                 blind |-> seen # store, failed |-> seen # store]]
         /\ Goto(t, IF PairStale(seen) THEN "pair rate" ELSE "single")
  BY DEF Begin
<1>2. PICK seen : seen = ReadingWithout(unread)
  OBVIOUS
<1>3. /\ call'[t].seen = seen
      /\ call'[t].blind <=> seen # store
      /\ \A u \in Tasks \ {t} : call'[u] = call[u] /\ pc'[u] = pc[u]
  BY <1>1, <1>2 DEF IInv, TypeOK, Goto
<1>4. UNCHANGED store /\ current' = current /\ t \notin current
  BY TrustFacts DEF Begin, IInv
<1> QED
  BY <1>3, <1>4, StoreStaysTrust DEF IInv

\* A repair writes what is in effect, or puts back what it read.
LEMMA RepairWrites ==
    ASSUME IInv, NEW t \in Tasks,
           RepairRate(t) \/ RepairBits(t) \/ RestoreRate(t) \/ RepairSingle(t)
    PROVE  /\ pc[t] \in Repairing /\ pc'[t] \in Repairing
           /\ RepairForgets(t)
           /\ call'[t].seen = call[t].seen /\ call'[t].blind = call[t].blind
           /\ \A u \in Tasks \ {t} : call'[u] = call[u] /\ pc'[u] = pc[u]
           /\ \A k \in Keys : store'[k] \in {store[k], call[t].seen[k],
                                             Effective(call[t].seen)[k]}
<1>1. /\ store \in [Keys -> Values] /\ call \in [Tasks -> Calls]
      /\ pc \in [Tasks -> Places] /\ call[t] \in Calls
  BY ReadingTypes, RequestKept DEF IInv, TypeOK
<1>2. ASSUME NEW k, NEW v, NEW landed \in BOOLEAN, Write(k, v, landed),
             v = call[t].seen[k] \/ v = Effective(call[t].seen)[k]
      PROVE  \A j \in Keys : store'[j] \in {store[j], call[t].seen[j],
                                            Effective(call[t].seen)[j]}
  <2>1. store' = store \/ store' = [store EXCEPT ![k] = v]
    BY <1>2 DEF Write
  <2>2. ASSUME NEW j \in Keys PROVE store'[j] = store[j] \/ (j = k /\ store'[j] = v)
    BY <1>1, <2>1
  <2> QED
    BY <1>2, <2>2
<1>3. CASE RepairRate(t)
  <2>1. PICK landed \in BOOLEAN :
          /\ Write(RATE_KEY, Effective(call[t].seen)[RATE_KEY], landed)
          /\ call' = Failing(t, landed)
          /\ Goto(t, IF landed THEN "pair bits" ELSE "single")
    BY <1>3 DEF RepairRate
  <2>2. /\ call'[t].seen = call[t].seen /\ call'[t].blind = call[t].blind
        /\ \A u \in Tasks \ {t} : call'[u] = call[u]
    BY <2>1, FailingFields DEF IInv
  <2>3. /\ pc[t] \in Repairing /\ pc'[t] \in Repairing /\ RepairForgets(t)
        /\ \A u \in Tasks \ {t} : pc'[u] = pc[u]
    BY <1>1, <1>3, <2>1 DEF RepairRate, Goto, Repairing
  <2>4. \A j \in Keys : store'[j] \in {store[j], call[t].seen[j],
                                       Effective(call[t].seen)[j]}
    BY <1>2, <2>1
  <2> QED
    BY <2>2, <2>3, <2>4
<1>4. CASE RepairBits(t)
  <2>1. PICK landed \in BOOLEAN :
          /\ Write(BITS_KEY, Effective(call[t].seen)[BITS_KEY], landed)
          /\ call' = Failing(t, landed)
          /\ Goto(t, IF landed THEN "single" ELSE "restore")
    BY <1>4 DEF RepairBits
  <2>2. /\ call'[t].seen = call[t].seen /\ call'[t].blind = call[t].blind
        /\ \A u \in Tasks \ {t} : call'[u] = call[u]
    BY <2>1, FailingFields DEF IInv
  <2>3. /\ pc[t] \in Repairing /\ pc'[t] \in Repairing /\ RepairForgets(t)
        /\ \A u \in Tasks \ {t} : pc'[u] = pc[u]
    BY <1>1, <1>4, <2>1 DEF RepairBits, Goto, Repairing
  <2>4. \A j \in Keys : store'[j] \in {store[j], call[t].seen[j],
                                       Effective(call[t].seen)[j]}
    BY <1>2, <2>1
  <2> QED
    BY <2>2, <2>3, <2>4
<1>5. CASE RestoreRate(t)
  BY <1>1, <1>2, <1>5 DEF RestoreRate, Goto, Repairing
<1>6. CASE RepairSingle(t)
  <2>1. PICK k \in call[t].todo, landed \in BOOLEAN :
          /\ Write(k, Effective(call[t].seen)[k], landed)
          /\ call' = [Failing(t, landed) EXCEPT ![t].todo = @ \ {k}]
    BY <1>6 DEF RepairSingle
  <2>2. /\ call'[t].seen = call[t].seen /\ call'[t].blind = call[t].blind
        /\ \A u \in Tasks \ {t} : call'[u] = call[u]
    BY <1>1, <2>1 DEF Failing, Calls
  <2>3. \A j \in Keys : store'[j] \in {store[j], call[t].seen[j],
                                       Effective(call[t].seen)[j]}
    BY <1>2, <2>1
  <2> QED
    BY <1>6, <2>2, <2>3 DEF RepairSingle, Repairing
<1> QED
  BY <1>3, <1>4, <1>5, <1>6

LEMMA RepairTrust ==
    ASSUME IInv, IInv', CurrentInv, NEW t \in Tasks,
           RepairRate(t) \/ RepairBits(t) \/ RestoreRate(t) \/ RepairSingle(t)
    PROVE  CurrentInv'
<1>1. /\ pc[t] \in Repairing /\ pc'[t] \in Repairing
      /\ RepairForgets(t)
      /\ call'[t].seen = call[t].seen /\ call'[t].blind = call[t].blind
      /\ \A u \in Tasks \ {t} : call'[u] = call[u] /\ pc'[u] = pc[u]
      /\ \A k \in Keys : store'[k] \in {store[k], call[t].seen[k],
                                        Effective(call[t].seen)[k]}
  BY RepairWrites
<1>2. CASE call[t].blind
  BY <1>1, <1>2 DEF RepairForgets, CurrentInv
<1>3. CASE ~call[t].blind
  <2>1. current' = current
    BY <1>1, <1>3 DEF RepairForgets
  <2>2. Effective(store') = Effective(call[t].seen)
    <3>1. RepairInv(t)'
      BY DEF IInv
    <3>2. KnowsStore(t, call[t].seen, call[t].todo)'
      BY <1>1, <1>3, <3>1 DEF RepairInv
    <3> QED
      BY <1>1, <3>2 DEF KnowsStore
  <2>3. \A u \in Tasks : call'[u].seen = call[u].seen /\ call'[u].blind = call[u].blind
                         /\ (pc'[u] \in Repairing <=> pc[u] \in Repairing)
    BY <1>1
  <2>4. ASSUME NEW v \in current PROVE Kept(call[v].seen, store')
    <3>1. /\ Kept(call[v].seen, store) /\ Kept(call[v].seen, call[t].seen)
      BY <1>1, <1>3 DEF CurrentInv, TrustInv
    <3>2. /\ call[v].seen \in Readings /\ call[t].seen \in Readings
          /\ store \in Readings /\ store' \in Readings
      BY TrustFacts, RequestKept, CallFields DEF IInv, TypeOK
    <3> QED
      BY <1>1, <2>2, <3>1, <3>2, KeptMix
  <2>5. ASSUME NEW v \in current' PROVE TrustInv(v)'
    <3>1. v \in current /\ v \in Tasks
      BY <2>1, <2>5, TrustFacts DEF IInv
    <3>2. TrustInv(v)
      BY <3>1 DEF CurrentInv
    <3> QED
      BY <2>3, <2>4, <3>1, <3>2 DEF TrustInv
  <2> QED
    BY <2>5 DEF CurrentInv
<1> QED
  BY <1>2, <1>3

LEMMA ProceedTrust ==
    ASSUME IInv, CurrentInv, NEW t \in Tasks, NEW seen, NEW trusted,
           Proceed(t, seen, trusted), UNCHANGED store,
           trusted \subseteq current \cup {t},
           t \in trusted => \/ t \in current /\ seen = call[t].seen
                            \/ holder = t /\ seen = store
    PROVE  CurrentInv'
<1>1. /\ pc'[t] \notin Repairing
      /\ \A u \in Tasks \ {t} : call'[u] = call[u] /\ pc'[u] = pc[u]
      /\ current' \subseteq current \cup {t}
      /\ t \in current' => t \in trusted /\ call'[t].seen = seen
  <2>0. Keep(t, seen) => /\ call'[t].seen = seen
                         /\ \A u \in Tasks \ {t} : call'[u] = call[u]
    BY DEF Keep, IInv, TypeOK, Calls
  <2>1. CASE Accepts(t, seen)
    <3>1. Goto(t, "store") /\ Keep(t, seen) /\ current' = trusted
      BY <2>1 DEF Proceed
    <3> QED
      BY <2>0, <3>1 DEF Goto, IInv, TypeOK, Repairing
  <2>2. CASE ~Accepts(t, seen) /\ call[t].op = "record"
    <3>1. Goto(t, "recording") /\ Keep(t, seen) /\ current' = trusted
      BY <2>2 DEF Proceed
    <3> QED
      BY <2>0, <3>1 DEF Goto, IInv, TypeOK, Repairing
  <2>3. CASE ~Accepts(t, seen) /\ call[t].op # "record"
    BY <2>3 DEF Proceed, Return, Goto, IInv, TypeOK, Repairing
  <2> QED
    BY <2>1, <2>2, <2>3
<1> QED
  BY <1>1, StoreStaysTrust DEF IInv

LEMMA RereadTrust ==
    ASSUME IInv, CurrentInv, NEW t \in Tasks, Reread(t) PROVE CurrentInv'
<1>1. PICK unread \in Unread :
        LET seen == ReadingWithout(unread) IN
         IF Stale(seen) = {}
         THEN /\ Proceed(t, seen, Trusting(t, seen))
              /\ Shows(t, seen)
         ELSE /\ Goto(t, "notice")
              /\ call' = [call EXCEPT ![t].seen = seen,
                                      ![t].blind = FALSE,
                                      ![t].failed = @ \/ seen # store]
              /\ Release(t)
              /\ current' = Trusting(t, seen)
              /\ UNCHANGED shown
  BY DEF Reread
<1>2. PICK seen : seen = ReadingWithout(unread)
  OBVIOUS
<1>3. UNCHANGED store /\ pc[t] \in Repairing /\ holder = t /\ t \notin current
  BY RequestKept, TrustFacts DEF Reread, Locked, Repairing, IInv
<1>4. /\ Trusting(t, seen) \subseteq current \cup {t}
      /\ t \in Trusting(t, seen) => seen = store
  BY <1>3 DEF Trusting
<1>5. CASE Stale(seen) = {}
  <2>1. Proceed(t, seen, Trusting(t, seen))
    BY <1>1, <1>2, <1>5
  <2> QED
    BY <1>3, <1>4, <2>1, ProceedTrust
<1>6. CASE Stale(seen) # {}
  <2>1. /\ pc'[t] = "notice" /\ call'[t].seen = seen
        /\ \A u \in Tasks \ {t} : call'[u] = call[u] /\ pc'[u] = pc[u]
        /\ current' = Trusting(t, seen)
    BY <1>1, <1>2, <1>6 DEF Goto, IInv, TypeOK, Calls
  <2>2. pc'[t] \notin Repairing
    BY <2>1 DEF Repairing
  <2> QED
    BY <1>3, <1>4, <2>1, <2>2, StoreStaysTrust DEF IInv
<1> QED
  BY <1>5, <1>6

LEMMA OtherTrust ==
    ASSUME IInv, CurrentInv,
           \/ RecordingEnds \/ CutOff \/ Restart
           \/ \E t \in Consoles : StoreSetting(t) \/ Remove(t) \/ Format(t)
    PROVE  CurrentInv'
<1>1. ASSUME NEW t \in Tasks, Return(t), UNCHANGED store, current' = current \ {t}
      PROVE  CurrentInv'
  <2>1. /\ pc'[t] \notin Repairing
        /\ \A u \in Tasks \ {t} : call'[u] = call[u] /\ pc'[u] = pc[u]
    BY <1>1 DEF Return, Goto, IInv, TypeOK, Repairing
  <2> QED
    BY <1>1, <2>1, StoreStaysTrust DEF IInv
<1>2. CASE current' = {}
  BY <1>2 DEF CurrentInv
<1>3. CASE RecordingEnds \/ CutOff
  BY <1>1, <1>3, TaskFacts DEF RecordingEnds, CutOff
<1>4. CASE Restart \/ \E t \in Consoles : Remove(t) \/ Format(t)
  BY <1>2, <1>4 DEF Restart, Remove, Format
<1>5. ASSUME NEW t \in Consoles, StoreSetting(t) PROVE CurrentInv'
  <2>1. PICK landed \in BOOLEAN :
          /\ Write(call[t].key, call[t].value, landed)
          /\ current' = IF landed THEN {} ELSE current \ {t}
    BY <1>5 DEF StoreSetting
  <2>2. CASE landed
    BY <1>2, <2>1, <2>2
  <2>3. CASE ~landed
    BY <1>1, <1>5, <2>1, <2>3, TaskFacts DEF StoreSetting, Write
  <2> QED
    BY <2>2, <2>3
<1> QED
  BY <1>3, <1>4, <1>5

LEMMA StepTrust ==
    ASSUME IInv, IInv', CurrentInv, [Next]_vars PROVE CurrentInv'
<1>1. CASE UNCHANGED vars
  BY <1>1 DEF vars, CurrentInv, TrustInv
<1>2. ASSUME NEW t \in Tasks, Noticed(t) PROVE CurrentInv'
  <2>1. /\ Proceed(t, call[t].seen, current) /\ UNCHANGED store
    BY <1>2 DEF Noticed
  <2> QED
    BY <2>1, ProceedTrust
<1>3. ASSUME NEW t \in Tasks, Reconcile(t) PROVE CurrentInv'
  BY <1>2, <1>3, BeginTrust, RepairTrust, RereadTrust DEF Reconcile
<1>4. CASE \/ RecordingEnds \/ CutOff \/ Restart
           \/ \E t \in Consoles : StoreSetting(t) \/ Remove(t) \/ Format(t)
  BY <1>4, OtherTrust
<1> QED
  BY <1>1, <1>3, <1>4 DEF Next

\* An accepted value, stored beside what has been kept of the reading it was
\* accepted for, changes nothing but its own key.
LEMMA AcceptedLater ==
    ASSUME NEW r \in Readings, NEW s \in Readings, Kept(r, s),
           NEW k \in Keys, NEW v \in Stored(k), validate_setting_with_store(r, k, v),
           NEW j \in Keys, j # k
    PROVE  Effective([s EXCEPT ![k] = v])[j] = Effective(s)[j]
<1>1. PICK rv, sv : rv = [r EXCEPT ![k] = v] /\ sv = [s EXCEPT ![k] = v]
  OBVIOUS
<1>2. /\ rv \in Readings /\ sv \in Readings
      /\ \A i \in Keys : rv[i] = IF i = k THEN v ELSE r[i]
      /\ \A i \in Keys : sv[i] = IF i = k THEN v ELSE s[i]
  <2>1. rv \in Readings /\ sv \in Readings
    BY <1>1, ReadingTypes
  <2>2. r \in [Keys -> Values] /\ s \in [Keys -> Values]
    BY ReadingTypes
  <2>3. \A i \in Keys : rv[i] = IF i = k THEN v ELSE r[i]
    BY <1>1, <2>2
  <2>4. \A i \in Keys : sv[i] = IF i = k THEN v ELSE s[i]
    BY <1>1, <2>2
  <2> QED
    BY <2>1, <2>3, <2>4
<1>3. v \in Nat /\ validate_setting(Effective(r), k, v)
  BY DEF validate_setting_with_store, validate_setting
<1>4. CASE k = EDGE_KEY \/ j = EDGE_KEY
  <2>1. \/ k = EDGE_KEY /\ j \in ClockKeys
        \/ k \in ClockKeys /\ j = EDGE_KEY
    BY <1>4, KeysDistinct
  <2>2. \A i \in Keys \ {k} : sv[i] = s[i]
    BY <1>2
  <2>3. Effective(sv)[j] = Effective(s)[j]
    BY <1>2, <2>1, <2>2, KindsApart
  <2> QED
    BY <1>1, <2>3
<1>5. CASE k \in ClockKeys /\ j \in ClockKeys
  <2>1. /\ Effective(s)[j] = Effective(r)[j]
        /\ Raw(s)[j] = Raw(r)[j] \/ Raw(s)[j] = Effective(r)[j]
    BY DEF Kept
  <2>2. /\ Raw(sv)[k] = v /\ Raw(sv)[j] = Raw(s)[j]
        /\ Raw(rv)[k] = v /\ Raw(rv)[j] = Raw(r)[j]
    BY <1>2, <1>3, RawType
  <2>3. CASE Raw(s)[j] = Raw(r)[j]
    <3>1. \A i \in ClockKeys : Raw(sv)[i] = Raw(rv)[i]
      BY <1>5, <2>2, <2>3, KeysDistinct
    <3>2. Effective(sv)[j] = Effective(rv)[j]
      BY <1>2, <1>5, <3>1, ClockAlone
    <3>3. Effective(rv)[j] = Effective(r)[j]
      <4>1. rv[k] = v /\ \A i \in Keys \ {k} : rv[i] = r[i]
        BY <1>2
      <4> QED
        BY <1>2, <4>1, AcceptedSetKeepsOthers
    <3> QED
      BY <1>1, <2>1, <3>2, <3>3
  <2>4. CASE Raw(s)[j] = Effective(r)[j]
    <3>1. PICK c : c = [Effective(r) EXCEPT ![k] = v]
      OBVIOUS
    <3>2. /\ mic_settings_valid(c[BITS_KEY], c[RATE_KEY])
          /\ c[k] = v /\ c[j] = Effective(r)[j]
      BY <1>3, <3>1, EffectiveType DEF validate_setting
    <3>3. c[BITS_KEY] = Raw(sv)[BITS_KEY] /\ c[RATE_KEY] = Raw(sv)[RATE_KEY]
      BY <1>5, <2>2, <2>4, <3>2, KeysDistinct
    <3>4. mic_settings_valid(Raw(sv)[BITS_KEY], Raw(sv)[RATE_KEY])
      BY <3>2, <3>3
    <3>5. Effective(sv) = Raw(sv)
      BY <3>4 DEF Effective, Resolve
    <3> QED
      BY <1>1, <2>1, <2>2, <2>4, <3>5
  <2> QED
    BY <2>1, <2>3, <2>4
<1> QED
  BY <1>4, <1>5, KeysDistinct

-----------------------------------------------------------------------------
(* The theorems.                                                            *)

\* Settings, places and the lock are always what they should be: CONFIG is held
\* exactly by the task inside a call that needs it, even when a call is cut off.
THEOREM TypeCorrect == Spec => []TypeOK
<1>1. IInv => TypeOK
  BY DEF IInv
<1> QED
  BY <1>1, Inductive, PTL

\* No write of a repair, and no repair that fails or is cut off half way, changes
\* what the next recording uses (the claim of mic_config.rs about writing the
\* rate before the bits).
THEOREM RepairsAreInvisible == Spec => []RepairIsInvisible
<1>1. IInv => RepairIsInvisible
  BY DEF IInv, RepairInv, KnowsStore, RepairIsInvisible
<1> QED
  BY <1>1, Inductive, PTL

\* One pass of the reconciliation repairs everything that can be written.
THEOREM OnePassIsEnough == Spec => []OnePassRepairs
<1>1. IInv => OnePassRepairs
  BY DEF IInv, NoticeInv, OnePassRepairs
<1> QED
  BY <1>1, Inductive, PTL

\* What a call goes on with after its notice, and what a recording uses, is what
\* is in effect until a command changes the store, and an accepted value changes
\* its own key only (mic.rs:241-288).
THEOREM OutcomesHold == Spec => []OutcomeHolds
<1>1. Init => CurrentInv
  BY DEF Init, CurrentInv
<1>2. IInv /\ CurrentInv => OutcomeHolds
  <2> SUFFICES ASSUME IInv, CurrentInv, NEW t \in current
               PROVE  /\ Effective(call[t].seen) = Effective(store)
                      /\ pc[t] = "store" =>
                           \A k \in Keys \ {call[t].key} :
                             Effective([store EXCEPT ![call[t].key] = call[t].value])[k]
                               = Effective(store)[k]
    BY DEF OutcomeHolds
  <2>1. Kept(call[t].seen, store)
    BY DEF CurrentInv, TrustInv
  <2>2. t \in Tasks /\ store \in Readings /\ call[t].seen \in Readings
        /\ call[t].key \in Keys
    BY TrustFacts, RequestKept, CallFields DEF IInv, TypeOK
  <2>3. ASSUME pc[t] = "store", NEW k \in Keys \ {call[t].key}
        PROVE  Effective([store EXCEPT ![call[t].key] = call[t].value])[k]
                 = Effective(store)[k]
    <3>1. /\ call[t].op = "set"
          /\ validate_setting_with_store(call[t].seen, call[t].key, call[t].value)
      BY <2>2, <2>3 DEF IInv, StoreInv, Accepts
    <3>2. call[t].value \in Stored(call[t].key)
      BY <2>2, <3>1, RequestKept, StoredValues DEF IInv
    <3> QED
      BY <2>1, <2>2, <3>1, <3>2, AcceptedLater
  <2> QED
    BY <2>1, <2>3 DEF Kept
<1> QED
  BY <1>1, <1>2, Inductive, StepTrust, PTL DEF Spec

\* What `config get` has shown stays in effect until a command changes that key.
THEOREM ShownIsKept == Spec => []ShownStaysInEffect
<1>1. IInv => ShownStaysInEffect
  BY DEF IInv
<1> QED
  BY <1>1, Inductive, PTL
=============================================================================
