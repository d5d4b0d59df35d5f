------------------------------ MODULE Settings ------------------------------
(***************************************************************************)
(* The microphone's settings: three strings in flash, read and repaired by *)
(* every command that looks at them and by every recording (mic.rs,        *)
(* mic_config.rs, config.rs).                                              *)
(*                                                                         *)
(* The flash store is behind the CONFIG mutex, and a call that reconciles  *)
(* holds it from its first read to its last, so calls interleave only      *)
(* where a call has let go of it: while it shows a notice.  But a call can *)
(* be cut off anywhere: the keyboard task gives its command 100 ms and     *)
(* then drops it, and the power can go.  What is in flash stays.           *)
(*                                                                         *)
(* A stored string is what parsing makes of it: a number, Malformed, or    *)
(* Absent.  The bit-clock edge is 0 or 1.                                  *)
(***************************************************************************)
EXTENDS Integers

CONSTANTS
    Consoles,   \* tasks that run shell commands: the keyboard's and the UART's
    Keyboard,   \* the one whose commands time out
    Capture,    \* the task that records
    BitsValues, RateValues, EdgeValues  \* numbers a user may have typed

Tasks == Consoles \cup {Capture}
Nobody == "nobody"

ASSUME SettingsAssumption ==
    /\ Keyboard \in Consoles
    /\ Capture \notin Consoles
    /\ Nobody \notin Tasks
    /\ BitsValues \subseteq Nat
    /\ RateValues \subseteq Nat
    /\ EdgeValues \subseteq {0, 1}

BITS_KEY == "ptt_bits"
RATE_KEY == "ptt_rate"
EDGE_KEY == "ptt_edge"
Keys == {BITS_KEY, RATE_KEY, EDGE_KEY}

Absent == -1
Malformed == -2

DEFAULT_BITS == 32
DEFAULT_RATE_HZ == 16000
DEFAULT_EDGE_FLIP == 0
MIN_MIC_BCLK_HZ == 1024000
MAX_MIC_BCLK_HZ == 4096000
MIN_SLOT_BITS == 8
MAX_SLOT_BITS == 32

Default(k) ==
    CASE k = BITS_KEY -> DEFAULT_BITS
      [] k = RATE_KEY -> DEFAULT_RATE_HZ
      [] OTHER -> DEFAULT_EDGE_FLIP

\* What a user may have typed for a key, and what the store may hold.
Typed(k) ==
    {Malformed} \cup
    CASE k = BITS_KEY -> BitsValues
      [] k = RATE_KEY -> RateValues
      [] OTHER -> EdgeValues

Stored(k) == Typed(k) \cup {Absent, Default(k)}

Values == UNION {Stored(k) : k \in Keys}
Readings == {r \in [Keys -> Values] : \A k \in Keys : r[k] \in Stored(k)}

-----------------------------------------------------------------------------
(* mic_config.rs: what three stored values mean. *)

mic_settings_valid(bits, rate) ==
    /\ rate # 0
    /\ MIN_SLOT_BITS <= bits /\ bits <= MAX_SLOT_BITS
    /\ LET bclk == 2 * rate * bits
       IN  MIN_MIC_BCLK_HZ <= bclk /\ bclk <= MAX_MIC_BCLK_HZ

\* Each value on its own, its default where there is none (or none that parses).
Raw(r) == [k \in Keys |-> IF r[k] \in Nat THEN r[k] ELSE Default(k)]

\* resolve: the pair of bits and rate falls back together.
Resolve(raw) ==
    IF mic_settings_valid(raw[BITS_KEY], raw[RATE_KEY])
    THEN raw
    ELSE [raw EXCEPT ![BITS_KEY] = DEFAULT_BITS, ![RATE_KEY] = DEFAULT_RATE_HZ]

Effective(r) == Resolve(Raw(r))

\* reconcile: the stored keys that do not say what is in effect.
Stale(r) == {k \in Keys : r[k] # Absent /\ r[k] # Effective(r)[k]}

ClockKeys == {BITS_KEY, RATE_KEY}
PairStale(r) == ClockKeys \subseteq Stale(r)

\* validate_setting: the settings in effect with this one changed are legal.
validate_setting(current, k, v) ==
    /\ v \in Nat
    /\ LET candidate == [current EXCEPT ![k] = v]
       IN  mic_settings_valid(candidate[BITS_KEY], candidate[RATE_KEY])

\* Mutant: validated against what is in effect only.
set_changes_nothing(stored, effective, k, v) == FALSE

\* Would the new value, beside what the store really holds, change the other
\* clock key's effective value?
set_changes_other_clock_key(stored, effective, k, v) ==
    /\ k \in ClockKeys
    /\ \E other \in ClockKeys \ {k} :
          Resolve([stored EXCEPT ![k] = v])[other] # effective[other]

validate_setting_with_store(r, k, v) ==
    /\ validate_setting(Effective(r), k, v)
    /\ ~set_changes_other_clock_key(Raw(r), Effective(r), k, v)

-----------------------------------------------------------------------------
VARIABLES
    store,    \* the three keys in flash
    holder,   \* who holds CONFIG
    pc,       \* where each task is
    call,     \* what it is doing and what it has read
    shown,    \* history: the last value a `config get` gave as the one in
              \* effect, until a command may change it
    current   \* history: who has read last what was stored, until a command
              \* changes it

vars == <<store, holder, pc, call, shown, current>>

Ops == {"set", "get", "record"}
NotShown == [key |-> BITS_KEY, value |-> Absent]

\* seen: the last reading; todo: the single keys left to rewrite; blind: a read
\* before the repair failed; failed: any access failed.
NoCall == [op |-> "get", key |-> EDGE_KEY, value |-> Malformed,
           seen |-> [k \in Keys |-> Absent], todo |-> {},
           blind |-> FALSE, failed |-> FALSE]

Init ==
    /\ store \in Readings
    /\ holder = Nobody
    /\ pc = [t \in Tasks |-> "idle"]
    /\ call = [t \in Tasks |-> NoCall]
    /\ shown = NotShown
    /\ current = {}

\* A flash write lands or fails; a failed one leaves the old value (the store
\* appends, and a torn record does not count).
Write(k, v, landed) == store' = IF landed THEN [store EXCEPT ![k] = v] ELSE store

\* A fetch that fails counts as an absent key (.ok().flatten()).
ReadingWithout(unread) == [k \in Keys |-> IF k \in unread THEN Absent ELSE store[k]]
Unread == {{}} \cup {{k} : k \in Keys}

Forget(keys) == shown' = IF shown.key \in keys THEN NotShown ELSE shown

Goto(t, place) == pc' = [pc EXCEPT ![t] = place]
Return(t) ==
    /\ Goto(t, "idle")
    /\ call' = [call EXCEPT ![t] = NoCall]
Release(t) == holder' = IF holder = t THEN Nobody ELSE holder

-----------------------------------------------------------------------------
(* read_and_reconcile, called by `config set`, by `config get` and before   *)
(* a recording.                                                              *)

Requests(t) ==
    IF t = Capture
    THEN {<<"record", EDGE_KEY, Malformed>>}
    ELSE {<<"get", k, Malformed>> : k \in Keys}
           \cup UNION {{<<"set", k, v>> : v \in Typed(k)} : k \in Keys}

\* The lock is taken and the three keys are read.
Begin(t) ==
    /\ pc[t] = "idle"
    /\ holder = Nobody
    /\ \E request \in Requests(t), unread \in Unread :
         LET seen == ReadingWithout(unread) IN
         /\ call' = [call EXCEPT ![t] =
                [op |-> request[1], key |-> request[2], value |-> request[3],
                 seen |-> seen,
                 todo |-> IF PairStale(seen) THEN Stale(seen) \ ClockKeys
                                             ELSE Stale(seen),
                 blind |-> seen # store, failed |-> seen # store]]
         /\ Goto(t, IF PairStale(seen) THEN "pair rate" ELSE "single")
    /\ holder' = t
    /\ UNCHANGED <<store, shown, current>>

Failing(t, landed) == [call EXCEPT ![t].failed = @ \/ ~landed]

\* A repair on a wrong reading may change anything; what was shown or read is
\* forgotten.
RepairForgets(t) ==
    /\ Forget(IF call[t].blind THEN Keys ELSE {})
    /\ current' = IF call[t].blind THEN {} ELSE current

\* The pair: the rate first, then the bits; if those fail the old rate is put
\* back.
\* Mutant: the bits first.
RepairBitsFirst(t) ==
    /\ pc[t] = "pair rate"
    /\ \E landed \in BOOLEAN :
         /\ Write(BITS_KEY, Effective(call[t].seen)[BITS_KEY], landed)
         /\ call' = Failing(t, landed)
         /\ Goto(t, IF landed THEN "pair bits" ELSE "single")
    /\ RepairForgets(t)
    /\ UNCHANGED holder

\* Mutant: the rate alone.
RepairRateAlone(t) ==
    /\ pc[t] = "pair rate"
    /\ \E landed \in BOOLEAN :
         /\ Write(RATE_KEY, Effective(call[t].seen)[RATE_KEY], landed)
         /\ call' = Failing(t, landed)
    /\ Goto(t, "single")
    /\ RepairForgets(t)
    /\ UNCHANGED holder

RepairRate(t) ==
    /\ pc[t] = "pair rate"
    /\ \E landed \in BOOLEAN :
         /\ Write(RATE_KEY, Effective(call[t].seen)[RATE_KEY], landed)
         /\ call' = Failing(t, landed)
         /\ Goto(t, IF landed THEN "pair bits" ELSE "single")
    /\ RepairForgets(t)
    /\ UNCHANGED holder

RepairBits(t) ==
    /\ pc[t] = "pair bits"
    /\ \E landed \in BOOLEAN :
         /\ Write(BITS_KEY, Effective(call[t].seen)[BITS_KEY], landed)
         /\ call' = Failing(t, landed)
         /\ Goto(t, IF landed THEN "single" ELSE "restore")
    /\ RepairForgets(t)
    /\ UNCHANGED holder

RestoreRate(t) ==
    /\ pc[t] = "restore"
    /\ \E landed \in BOOLEAN : Write(RATE_KEY, call[t].seen[RATE_KEY], landed)
    /\ Goto(t, "single")
    /\ RepairForgets(t)
    /\ UNCHANGED <<holder, call>>

\* The keys rewritten on their own; the edge comes last.
RepairSingle(t) ==
    /\ pc[t] = "single"
    /\ \E k \in call[t].todo, landed \in BOOLEAN :
         /\ k = EDGE_KEY => call[t].todo = {EDGE_KEY}
         /\ Write(k, Effective(call[t].seen)[k], landed)
         /\ call' = [Failing(t, landed) EXCEPT ![t].todo = @ \ {k}]
    /\ RepairForgets(t)
    /\ UNCHANGED <<holder, pc>>

-----------------------------------------------------------------------------
(* What the caller does with the outcome of the second reading.  Nothing    *)
(* suspends between the last read and this unless there is something to     *)
(* report, and then the lock is free while the notice is shown.             *)

\* Does the task go on to store the value it was asked to set?
Accepts(t, seen) ==
    /\ call[t].op = "set"
    /\ validate_setting_with_store(seen, call[t].key, call[t].value)

\* `config get` shows the value in effect (and the stored one, if it could not
\* be repaired).  Only what is true when shown is watched from then on.
Shows(t, seen) ==
    shown' = IF call[t].op # "get" THEN shown
             ELSE IF seen # store THEN NotShown
             ELSE [key |-> call[t].key, value |-> Effective(seen)[call[t].key]]

\* Once it has repaired, a call knows only what it read last.
Keep(t, seen) ==
    call' = [call EXCEPT ![t].seen = seen, ![t].blind = FALSE, ![t].failed = FALSE]

\* A recording keeps the settings it begins with until it ends.
Proceed(t, seen, trusted) ==
    IF Accepts(t, seen)
    THEN /\ Goto(t, "store")
         /\ Keep(t, seen)
         /\ holder' = t
         /\ current' = trusted
    ELSE /\ Release(t)
         /\ IF call[t].op = "record"
            THEN /\ Goto(t, "recording")
                 /\ Keep(t, seen)
                 /\ current' = trusted
            ELSE /\ Return(t)
                 /\ current' = current \ {t}

\* A reading that did not fail is what is stored: CONFIG is held.
Trusting(t, seen) == IF seen = store THEN current \cup {t} ELSE current

Reread(t) ==
    /\ pc[t] = "single"
    /\ call[t].todo = {}
    /\ \E unread \in Unread :
         LET seen == ReadingWithout(unread) IN
         IF Stale(seen) = {}
         THEN /\ Proceed(t, seen, Trusting(t, seen))
              /\ Shows(t, seen)
         ELSE /\ Goto(t, "notice")
              /\ call' = [call EXCEPT ![t].seen = seen,
                                      ![t].blind = FALSE,
                                      ![t].failed = @ \/ seen # store]
              /\ Release(t)
              /\ current' = Trusting(t, seen)
              /\ UNCHANGED shown
    /\ UNCHANGED store

\* The notice (ptt_fail) is done; the outcome it used is the one read above.
Noticed(t) ==
    /\ pc[t] = "notice"
    /\ Accepts(t, call[t].seen) => holder = Nobody
    /\ Proceed(t, call[t].seen, current)
    /\ Shows(t, call[t].seen)
    /\ UNCHANGED store

\* `config set` stores the value.
StoreSetting(t) ==
    /\ pc[t] = "store"
    /\ \E landed \in BOOLEAN :
         /\ Write(call[t].key, call[t].value, landed)
         /\ Forget(IF ~landed THEN {}
                   ELSE IF call[t].seen = store THEN {call[t].key} ELSE Keys)
         /\ current' = IF landed THEN {} ELSE current \ {t}
    /\ Release(t)
    /\ Return(t)

RecordingEnds ==
    /\ pc[Capture] = "recording"
    /\ Return(Capture)
    /\ current' = current \ {Capture}
    /\ UNCHANGED <<store, holder, shown>>

-----------------------------------------------------------------------------
(* Commands that do not look at what the settings mean. *)

\* `config rm` checks nothing: removing one clock key may make the other's
\* value one that is not legal beside the default.
Remove(t) ==
    /\ pc[t] = "idle"
    /\ holder = Nobody
    /\ \E k \in Keys :
         /\ Write(k, Absent, TRUE)
         /\ Forget(IF k \in ClockKeys THEN ClockKeys ELSE {k})
    /\ current' = {}
    /\ UNCHANGED <<holder, pc, call>>

\* `config format` erases page after page, and may stop between two.
Format(t) ==
    /\ pc[t] = "idle"
    /\ holder = Nobody
    /\ \E erased \in SUBSET Keys :
         store' = [k \in Keys |-> IF k \in erased THEN Absent ELSE store[k]]
    /\ Forget(Keys)
    /\ current' = {}
    /\ UNCHANGED <<holder, pc, call>>

\* The keyboard task drops a command that has taken 100 ms.
\* Mutant: the lock is not let go of.
CutOffHoldsLock ==
    /\ pc[Keyboard] # "idle"
    /\ Return(Keyboard)
    /\ current' = current \ {Keyboard}
    /\ UNCHANGED <<store, holder, shown>>

CutOff ==
    /\ pc[Keyboard] # "idle"
    /\ Return(Keyboard)
    /\ current' = current \ {Keyboard}
    /\ Release(Keyboard)
    /\ UNCHANGED <<store, shown>>

\* Power is lost, or the device is reset.
Restart ==
    /\ holder' = Nobody
    /\ pc' = [t \in Tasks |-> "idle"]
    /\ call' = [t \in Tasks |-> NoCall]
    /\ current' = {}
    /\ UNCHANGED <<store, shown>>

-----------------------------------------------------------------------------
Reconcile(t) ==
    \/ Begin(t)
    \/ RepairRate(t) \/ RepairBits(t) \/ RestoreRate(t) \/ RepairSingle(t)
    \/ Reread(t)
    \/ Noticed(t)

Next ==
    \/ \E t \in Tasks : Reconcile(t)
    \/ \E t \in Consoles : StoreSetting(t) \/ Remove(t) \/ Format(t)
    \/ RecordingEnds
    \/ CutOff
    \/ Restart

Spec == Init /\ [][Next]_vars

-----------------------------------------------------------------------------
Repairing == {"pair rate", "pair bits", "restore", "single"}
Outcomes == {"notice", "store", "recording"}   \* an outcome is in use
Places == Repairing \cup Outcomes \cup {"idle"}

\* A call: what was asked, the last reading, the keys left to rewrite on their
\* own.
Calls == [op : Ops, key : Keys, value : Values, seen : Readings,
          todo : SUBSET Keys, blind : BOOLEAN, failed : BOOLEAN]

\* Types: the store holds what can be stored, only the capture task records,
\* CONFIG is held exactly by the task that is inside a call that needs it, and
\* only a task that uses an outcome trusts it.
TypeOK ==
    /\ store \in Readings
    /\ holder \in Tasks \cup {Nobody}
    /\ pc \in [Tasks -> Places]
    /\ call \in [Tasks -> Calls]
    /\ shown \in [key : Keys, value : Values]
    /\ current \subseteq {t \in Tasks : pc[t] \in Outcomes}
    /\ \A t \in Tasks :
         /\ call[t].op = "record" <=> (t = Capture /\ pc[t] # "idle")
         /\ call[t].op = "set" => call[t].value \in Typed(call[t].key)
         /\ (holder = t) <=> (pc[t] \in Repairing \cup {"store"})

\* A repair never changes what the next recording would use: not between its
\* writes, not if a write fails, so not if it is cut off there either
\* (mic_config.rs on ClockPairFix).  It must have read what is stored.
RepairIsInvisible ==
    \A t \in Tasks :
        pc[t] \in Repairing /\ ~call[t].blind
            => Effective(store) = Effective(call[t].seen)

\* After a reconciliation the store disagrees with what is in effect only if
\* some read or write failed: one pass repairs everything.
OnePassRepairs ==
    \A t \in Tasks : pc[t] = "notice" => call[t].failed

\* What a call goes on with after its notice, or a recording uses, is still
\* what is in effect, and an accepted set is about to change its own key and
\* nothing else: whatever the other tasks have repaired since, failed to repair
\* or left half done (mic.rs:241-288, where the lock is free).  Not once a
\* command has changed the store, nor if a read failed.
OutcomeHolds ==
    \A t \in current :
        LET c == call[t] IN
        /\ Effective(c.seen) = Effective(store)
        /\ pc[t] = "store" =>
              \A k \in Keys \ {c.key} :
                  Effective([store EXCEPT ![c.key] = c.value])[k] = Effective(store)[k]

\* A value `config get` has shown stays the one in effect until a command
\* changes that key: no repair, failed or cut off, and no accepted change of the
\* other clock key brings back a stored value the user was not shown
\* (mic_config.rs on report_setting and set_changes_other_clock_key).
ShownStaysInEffect ==
    shown # NotShown => Effective(store)[shown.key] = shown.value
=============================================================================
