-------------------------------- MODULE ApiKeys --------------------------------
(***************************************************************************)
(* The API keys: the key file, runs of the rotation script                  *)
(* (security/rotate_keys.py) that read it, change it and write it back      *)
(* without a lock, and the orchestrator, which reads it when it starts and   *)
(* never again (security/key_store.py, main.py).  A run may be killed at     *)
(* any point; two runs may overlap.                                          *)
(***************************************************************************)
EXTENDS Naturals

CONSTANTS
    Clients,
    Keys,        \* what token_urlsafe may return; the keys in use are among them
    FirstKey,    \* the key each client has when the file is written by hand
    Runs,        \* runs of the rotation script
    Grace,       \* --grace-period-hours
    MaxClock,    \* bound: the last time
    Never,       \* expires_at is null
    Absent,      \* the client does not have the key
    Missing,     \* there is no key file
    Damaged,     \* the file is empty, cut off or mixed: it does not parse
    Down         \* the orchestrator is not running

Expiry == Nat \cup {Never, Absent}
Books == [Clients -> [Keys -> Expiry]]

ASSUME KeysAssumption ==
    /\ FirstKey \in [Clients -> Keys]
    /\ Grace \in Nat /\ MaxClock \in Nat
    /\ Never \notin Nat /\ Absent \notin Nat /\ Never # Absent
    /\ Missing \notin Books /\ Damaged \notin Books /\ Down \notin Books
    /\ Missing # Damaged

VARIABLES
    file,       \* the clients in the key file, or Missing or Damaged
    store,      \* the clients the running orchestrator knows, or Down
    clock,
    pc,         \* where a run of the script is
    book,       \* the clients it read, then the ones it writes
    client,     \* the client it rotates
    key,        \* the key it generated
    torn,       \* another run has written since it opened the file
    \* History, read by properties only:
    used,       \* keys that were ever generated
    printed,    \* clients and the keys runs printed for them
    stamped,    \* when a run first gave a key an expiry, or Never
    expires,    \* the first expiry of a client's key that was saved, or Never
    contested   \* a run has read the file while another was about to replace it

script == <<pc, book, client, key, torn>>
vars == <<file, store, clock, script, used, printed, stamped, expires, contested>>

Active == {"loaded", "rotated", "writing"}
InitialBook == [c \in Clients |-> [k \in Keys |-> IF k = FirstKey[c] THEN Never ELSE Absent]]
NoClients == [c \in Clients |-> [k \in Keys |-> Absent]]

Init ==
    /\ file \in {InitialBook, Missing}
    /\ store = Down
    /\ clock = 0
    /\ pc = [r \in Runs |-> "new"]
    /\ book = [r \in Runs |-> NoClients]
    /\ client = [r \in Runs |-> Absent]
    /\ key = [r \in Runs |-> Absent]
    /\ torn = [r \in Runs |-> FALSE]
    /\ used = {FirstKey[c] : c \in Clients}
    /\ printed = {}
    /\ stamped = [k \in Keys |-> Never]
    /\ expires = [c \in Clients |-> [k \in Keys |-> Never]]
    /\ contested = FALSE

--------------------------------------------------------------------------------
(* The rotation script: load_clients, rotate_client_key, save_clients, print. *)

Loads(r, c) ==
    /\ pc[r] = "new"
    /\ file \in Books
    /\ client' = [client EXCEPT ![r] = c]
    /\ pc' = [pc EXCEPT ![r] = "loaded"]
    /\ book' = [book EXCEPT ![r] = file]
    /\ contested' = (contested \/ \E q \in Runs : pc[q] \in Active)
    /\ UNCHANGED <<file, store, clock, key, torn, used, printed, stamped, expires>>

\* There is no file, it does not parse, or it does not name the client: the
\* script ends and nothing is written.
Refused(r) ==
    /\ pc[r] = "new"
    /\ pc' = [pc EXCEPT ![r] = "ended"]
    /\ UNCHANGED <<file, store, clock, book, client, key, torn, used, printed, stamped, expires, contested>>

\* Mutant: the older key is over at once.
Stamp_Now(e) == IF e = Never THEN clock ELSE e
\* Mutant: an expiry that was set already is moved.
Stamp_Again(e) == IF e = Absent THEN Absent ELSE clock + Grace
\* Mutant: the older key is kept.
Stamp_Keeps(e) == e

\* The expiry of an older key: one that never expired expires after the grace
\* period, one that expires already is left alone.
Stamp(e) == IF e = Never THEN clock + Grace ELSE e

\* rotate_client_key: the other clients stay as they are.
Rotated(b, c, new) ==
    [b EXCEPT ![c] = [k \in Keys |-> IF k = new THEN Never ELSE Stamp(b[c][k])]]

\* A generated key is new.
Rotates(r, new) ==
    /\ pc[r] = "loaded"
    /\ new \notin used
    /\ pc' = [pc EXCEPT ![r] = "rotated"]
    /\ key' = [key EXCEPT ![r] = new]
    /\ book' = [book EXCEPT ![r] = Rotated(book[r], client[r], new)]
    /\ used' = used \cup {new}
    /\ stamped' = [k \in Keys |-> IF stamped[k] = Never /\ book[r][client[r]][k] = Never
                                  THEN clock ELSE stamped[k]]
    /\ UNCHANGED <<file, store, clock, client, torn, printed, expires, contested>>

\* open(path, "w") empties the file.
Opens(r) ==
    /\ pc[r] = "rotated"
    /\ pc' = [pc EXCEPT ![r] = "writing"]
    /\ file' = Damaged
    /\ torn' = [torn EXCEPT ![r] = FALSE]
    /\ UNCHANGED <<store, clock, book, client, key, used, printed, stamped, expires, contested>>

\* The text is written and the file closed.  Over the text of another run it
\* may leave that run's tail behind.
Writes(r) ==
    /\ pc[r] = "writing"
    /\ pc' = [pc EXCEPT ![r] = "written"]
    /\ file' \in {book[r]} \cup (IF torn[r] THEN {Damaged} ELSE {})
    /\ torn' = [q \in Runs |-> torn[q] \/ pc[q] = "writing"]
    /\ expires' = [expires EXCEPT ![client[r]] =
                      [k \in Keys |-> IF @[k] = Never /\ book[r][client[r]][k] \in Nat
                                     THEN book[r][client[r]][k] ELSE @[k]]]
    /\ UNCHANGED <<store, clock, book, client, key, used, printed, stamped, contested>>

\* Mutant: the key is printed before it is saved.
MayPrint_Early(r) == pc[r] \in {"rotated", "written"}

\* The new key is printed when the file has been saved.
MayPrint(r) == pc[r] = "written"

Prints(r) ==
    /\ MayPrint(r)
    /\ pc' = [pc EXCEPT ![r] = "ended"]
    /\ printed' = printed \cup {<<client[r], key[r]>>}
    /\ UNCHANGED <<file, store, clock, book, client, key, torn, used, stamped, expires, contested>>

Killed(r) ==
    /\ pc[r] \in Active \cup {"written"}
    /\ pc' = [pc EXCEPT ![r] = "ended"]
    /\ UNCHANGED <<file, store, clock, book, client, key, torn, used, printed, stamped, expires, contested>>

--------------------------------------------------------------------------------
(* The orchestrator.                                                       *)

\* Without a file it starts and knows nobody; with a damaged one it does not start.
Starts ==
    /\ store = Down
    /\ \/ file = Missing /\ store' = NoClients
       \/ file \in Books /\ store' = file
    /\ UNCHANGED <<file, clock, script, used, printed, stamped, expires, contested>>

Stops ==
    /\ store # Down
    /\ store' = Down
    /\ UNCHANGED <<file, clock, script, used, printed, stamped, expires, contested>>

Tick ==
    /\ clock < MaxClock
    /\ clock' = clock + 1
    /\ UNCHANGED <<file, store, script, used, printed, stamped, expires, contested>>

\* authenticate(): some client has the key and it has not expired.
Valid(e) == e = Never \/ (e \in Nat /\ clock < e)
Authenticates(b, k) == \E c \in Clients : Valid(b[c][k])

Next ==
    \/ \E r \in Runs, c \in Clients : Loads(r, c)
    \/ \E r \in Runs : Refused(r) \/ Opens(r) \/ Writes(r) \/ Prints(r) \/ Killed(r)
    \/ \E r \in Runs, new \in Keys : Rotates(r, new)
    \/ Starts \/ Stops \/ Tick

Spec == Init /\ [][Next]_vars

--------------------------------------------------------------------------------
(* Properties.                                                             *)

TypeOK ==
    /\ file \in Books \cup {Missing, Damaged}
    /\ store \in Books \cup {Down}
    /\ clock \in Nat
    /\ pc \in [Runs -> {"new", "loaded", "rotated", "writing", "written", "ended"}]
    /\ book \in [Runs -> Books]
    /\ client \in [Runs -> Clients \cup {Absent}]
    /\ key \in [Runs -> Keys \cup {Absent}]
    /\ torn \in [Runs -> BOOLEAN]
    /\ used \subseteq Keys
    /\ printed \subseteq Clients \X Keys
    /\ stamped \in [Keys -> Nat \cup {Never}]
    /\ expires \in [Clients -> [Keys -> Nat \cup {Never}]]
    /\ contested \in BOOLEAN

OnePermanent(b) ==
    \A c \in Clients : \A k, l \in Keys : b[c][k] = Never /\ b[c][l] = Never => k = l

\* However rotations overlap or die, a client never has two keys without an
\* expiry, in the file or in the orchestrator: rotate_client_key leaves no old
\* key valid for ever.
OnePermanentKey ==
    /\ file \in Books => OnePermanent(file)
    /\ store \in Books => OnePermanent(store)

\* No access gap: a key the running orchestrator knows is accepted at least
\* until the grace period after the first rotation that superseded it is over, whichever
\* version of the file was loaded and whatever rotations came after.
NoGap ==
    store \in Books =>
        \A c \in Clients : \A k \in Keys :
            store[c][k] # Absent /\ (stamped[k] = Never \/ clock < stamped[k] + Grace)
                => Authenticates(store, k)

\* While rotations do not overlap, the expiry of a key is set once: later
\* rotations of the client, within the grace period or after it, neither extend nor
\* shorten what an earlier one granted, also across a save that was cut off.
ExpirySetOnce ==
    ~contested /\ file \in Books =>
        \A c \in Clients : \A k \in Keys :
            file[c][k] \in Nat => file[c][k] = expires[c][k]

\* While rotations do not overlap, a key that was printed is in the file, also
\* after later rotations of any client, unless a save died and left no file at all.
PrintedIsSaved ==
    ~contested /\ file \in Books => \A p \in printed : file[p[1]][p[2]] # Absent

================================================================================
