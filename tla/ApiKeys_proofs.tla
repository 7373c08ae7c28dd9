----------------------------- MODULE ApiKeys_proofs -----------------------------
(***************************************************************************)
(* The promises of key rotation, for any clients, keys, runs of the script   *)
(* and grace period.                                                         *)
(***************************************************************************)
EXTENDS ApiKeys, TLAPS

Saving == {"rotated", "writing"}

\* The runs that have read the file know their client, and their key once made.
Named ==
    \A r \in Runs :
        /\ pc[r] \in Active \cup {"written"} => client[r] \in Clients
        /\ pc[r] \in Saving \cup {"written"} =>
              key[r] \in Keys /\ book[r][client[r]][key[r]] # Absent

\* No version of the clients, in the file, the orchestrator or a run, has two
\* permanent keys for a client.
Single ==
    /\ \A r \in Runs : OnePermanent(book[r])
    /\ OnePermanentKey

\* In no version does a key expire before the grace period after it was first
\* stamped is over.
Late(b) ==
    \A c \in Clients : \A k \in Keys :
        b[c][k] \in Nat => stamped[k] \in Nat /\ stamped[k] + Grace <= b[c][k]

Graceful ==
    /\ \A k \in Keys : stamped[k] \in Nat => stamped[k] <= clock
    /\ \A r \in Runs : Late(book[r])
    /\ file \in Books => Late(file)
    /\ store \in Books => Late(store)

\* Runs that do not overlap read and write one after the other.
Alone == ~contested => \A r, q \in Runs : pc[r] \in Active /\ pc[q] \in Active => r = q

\* Every key of a version, or with an expiry that was saved, was generated once.
Known ==
    /\ file \in Books => \A c \in Clients : \A k \in Keys : file[c][k] # Absent => k \in used
    /\ \A c \in Clients : \A k \in Keys : expires[c][k] # Never => k \in used
    /\ \A r \in Runs : \A c \in Clients : \A k \in Keys : book[r][c][k] # Absent => k \in used

\* The file, and what a run is going to save, repeat the expiries saved before.
KeptInFile ==
    file \in Books =>
        \A c \in Clients : \A k \in Keys :
            /\ file[c][k] \in Nat => file[c][k] = expires[c][k]
            /\ file[c][k] = Never => expires[c][k] = Never

KeptBy(r) ==
    \A c \in Clients : \A k \in Keys :
        /\ book[r][c][k] \in Nat =>
              \/ book[r][c][k] = expires[c][k]
              \/ pc[r] \in Saving /\ c = client[r] /\ expires[c][k] = Never
        /\ book[r][c][k] = Never => expires[c][k] = Never

Kept == ~contested => KeptInFile /\ \A r \in Runs : pc[r] \in Active => KeptBy(r)

\* The keys that are printed, or about to be, are in the file and in what the
\* next run is going to save.
Promised(c, k) ==
    \/ <<c, k>> \in printed
    \/ \E r \in Runs : pc[r] = "written" /\ client[r] = c /\ key[r] = k

Carried ==
    ~contested =>
        \A c \in Clients : \A k \in Keys : Promised(c, k) =>
            /\ file \in Books => file[c][k] # Absent
            /\ \A r \in Runs : pc[r] \in Active => book[r][c][k] # Absent

IInv == TypeOK /\ Named /\ Single /\ Graceful /\ Alone /\ Known /\ Kept /\ Carried

--------------------------------------------------------------------------------
LEMMA RotatedBook ==
    ASSUME NEW b \in Books, NEW c \in Clients, NEW new \in Keys, clock \in Nat
    PROVE  /\ Rotated(b, c, new) \in Books
           /\ \A d \in Clients : \A k \in Keys :
                 Rotated(b, c, new)[d][k] =
                     IF d # c THEN b[d][k] ELSE IF k = new THEN Never ELSE Stamp(b[c][k])
<1>1. \A k \in Keys : Stamp(b[c][k]) \in Expiry
  BY KeysAssumption DEF Stamp, Expiry, Books
<1>2. [k \in Keys |-> IF k = new THEN Never ELSE Stamp(b[c][k])] \in [Keys -> Expiry]
  BY <1>1 DEF Expiry
<1>. QED
  BY <1>2 DEF Rotated, Books

LEMMA InitIInv == Init => IInv
<1> SUFFICES ASSUME Init PROVE IInv
  OBVIOUS
<1>1. InitialBook \in Books /\ NoClients \in Books
  BY DEF InitialBook, NoClients, Books, Expiry
<1>2. \A c \in Clients : \A k \in Keys : /\ NoClients[c][k] = Absent
                                         /\ InitialBook[c][k] \in {Never, Absent}
                                         /\ InitialBook[c][k] = Never => k = FirstKey[c]
  BY KeysAssumption DEF NoClients, InitialBook
<1>3. TypeOK
  BY <1>1, KeysAssumption DEF Init, TypeOK
<1>4. Named /\ Alone /\ Carried
  BY DEF Init, Named, Alone, Carried, Promised, Active, Saving
<1>5. Single
  BY <1>1, <1>2, KeysAssumption DEF Init, Single, OnePermanentKey, OnePermanent
<1>6. Graceful
  BY <1>1, <1>2, KeysAssumption DEF Init, Graceful, Late
<1>7. Kept
  BY <1>1, <1>2, KeysAssumption DEF Init, Kept, KeptInFile, Active
<1>8. Known
  BY <1>1, <1>2, KeysAssumption DEF Init, Known
<1>. QED
  BY <1>3, <1>4, <1>5, <1>6, <1>7, <1>8 DEF IInv

--------------------------------------------------------------------------------
(* One lemma per action that changes a version of the clients; the others leave *)
(* every version alone.                                                        *)

LEMMA LoadsStep ==
    ASSUME IInv, NEW r \in Runs, NEW c \in Clients, Loads(r, c)
    PROVE  IInv'
<1> USE DEF Loads, IInv
<1>1. TypeOK'
  BY DEF TypeOK
<1>2. /\ \A q \in Runs : book'[q] = IF q = r THEN file ELSE book[q]
      /\ \A q \in Runs : pc'[q] = IF q = r THEN "loaded" ELSE pc[q]
      /\ \A q \in Runs : client'[q] = IF q = r THEN c ELSE client[q]
  BY DEF TypeOK
<1>3. Named'
  BY <1>2 DEF Named, Active, Saving
<1>4. Single'
  BY <1>2 DEF Single, OnePermanentKey, OnePermanent
<1>5. Graceful'
  BY <1>2 DEF Graceful, Late
<1>6. Alone'
  BY <1>2 DEF Alone, Active
<1>a. ~contested' => ~contested /\ \A q \in Runs : pc[q] \notin Active
  OBVIOUS
<1>7. Kept'
  <2> SUFFICES ASSUME ~contested'
               PROVE  KeptInFile' /\ \A q \in Runs : pc'[q] \in Active => KeptBy(q)'
    BY DEF Kept
  <2>1. KeptInFile /\ \A q \in Runs : pc'[q] \in Active => q = r
    BY <1>a, <1>2 DEF Kept
  <2>. QED
    BY <2>1, <1>2 DEF KeptInFile, KeptBy
<1>b. Known'
  BY <1>2 DEF Known
<1>8. Carried'
  <2> SUFFICES ASSUME ~contested', NEW d \in Clients, NEW k \in Keys, Promised(d, k)'
               PROVE  /\ file' \in Books => file'[d][k] # Absent
                      /\ \A q \in Runs : pc'[q] \in Active => book'[q][d][k] # Absent
    BY DEF Carried
  <2>1. Promised(d, k)
    BY <1>2 DEF Promised
  <2>. QED
    BY <2>1, <1>a, <1>2 DEF Carried, Active
<1>. QED
  BY <1>1, <1>3, <1>4, <1>5, <1>6, <1>7, <1>8, <1>b

LEMMA RotatesStep ==
    ASSUME IInv, NEW r \in Runs, NEW new \in Keys, Rotates(r, new)
    PROVE  IInv'
<1> USE DEF Rotates, IInv
<1> DEFINE c == client[r]
           b == book[r]
<1>1. c \in Clients /\ b \in Books /\ clock \in Nat
  BY DEF Named, TypeOK, Active
<1>2. /\ Rotated(b, c, new) \in Books
      /\ \A d \in Clients : \A k \in Keys :
            Rotated(b, c, new)[d][k] =
                IF d # c THEN b[d][k] ELSE IF k = new THEN Never ELSE Stamp(b[c][k])
  BY <1>1, RotatedBook
<1>3. /\ \A q \in Runs : book'[q] = IF q = r THEN Rotated(b, c, new) ELSE book[q]
      /\ \A q \in Runs : pc'[q] = IF q = r THEN "rotated" ELSE pc[q]
      /\ \A q \in Runs : key'[q] = IF q = r THEN new ELSE key[q]
  BY DEF TypeOK
<1>4. \A k \in Keys : stamped'[k] = IF stamped[k] = Never /\ b[c][k] = Never
                                     THEN clock ELSE stamped[k]
  OBVIOUS
<1>5. TypeOK'
  <2>1. book' \in [Runs -> Books]
    BY <1>2 DEF TypeOK
  <2>2. stamped' \in [Keys -> Nat \cup {Never}]
    BY DEF TypeOK
  <2>. QED
    BY <2>1, <2>2 DEF TypeOK
<1>6. \A d \in Clients : \A k \in Keys : b[d][k] \in Expiry
  BY <1>1 DEF Books
<1>7. Named'
  BY <1>1, <1>2, <1>3, KeysAssumption DEF Named, Active, Saving
<1>8. OnePermanent(Rotated(b, c, new))
  BY <1>1, <1>2, <1>6, KeysAssumption DEF OnePermanent, Single, Stamp
<1>9. Single'
  BY <1>3, <1>8 DEF Single, OnePermanentKey, OnePermanent
<1>11. \A d \in Clients : \A k \in Keys :
         Rotated(b, c, new)[d][k] \in Nat =>
             stamped'[k] \in Nat /\ stamped'[k] + Grace <= Rotated(b, c, new)[d][k]
  <2> SUFFICES ASSUME NEW d \in Clients, NEW k \in Keys, Rotated(b, c, new)[d][k] \in Nat
               PROVE  stamped'[k] \in Nat /\ stamped'[k] + Grace <= Rotated(b, c, new)[d][k]
    OBVIOUS
  <2>1. b[d][k] \in Nat => stamped[k] \in Nat /\ stamped[k] + Grace <= b[d][k]
    BY <1>1 DEF Graceful, Late
  <2>2. stamped[k] \in Nat \cup {Never} /\ (stamped[k] \in Nat => stamped[k] <= clock)
    BY DEF TypeOK, Graceful
  <2>3. CASE d = c /\ b[c][k] = Never
    <3>1. Rotated(b, c, new)[d][k] = clock + Grace
      BY <2>3, <1>1, <1>2, KeysAssumption DEF Stamp
    <3>. QED
      BY <3>1, <2>2, <2>3, <1>1, <1>4, KeysAssumption
  <2>4. CASE ~(d = c /\ b[c][k] = Never)
    <3>1. Rotated(b, c, new)[d][k] = b[d][k]
      BY <2>4, <1>1, <1>2, <1>6, KeysAssumption DEF Stamp
    <3>. QED
      BY <3>1, <2>1, <1>4, KeysAssumption
  <2>. QED
    BY <2>3, <2>4
<1>12. Graceful'
  <2>1. \A k \in Keys : stamped'[k] \in Nat => stamped'[k] <= clock'
    BY <1>4, <1>1 DEF Graceful
  <2>2. \A q \in Runs : Late(book[q])'
    <3> SUFFICES ASSUME NEW q \in Runs PROVE Late(book[q])'
      OBVIOUS
    <3>1. CASE q = r
      BY <3>1, <1>3, <1>11 DEF Late
    <3>2. CASE q # r
      <4>1. book[q] \in Books /\ Late(book[q])
        BY DEF TypeOK, Graceful
      <4>2. \A d \in Clients : \A k \in Keys :
              book[q][d][k] \in Nat => stamped'[k] \in Nat /\ stamped'[k] + Grace <= book[q][d][k]
        BY <4>1, <1>4, KeysAssumption DEF Late
      <4>. QED
        BY <3>2, <4>2, <1>3 DEF Late
    <3>. QED
      BY <3>1, <3>2
  <2>3. file' \in Books => Late(file)'
    BY <1>4, KeysAssumption DEF Late, Graceful
  <2>4. store' \in Books => Late(store)'
    BY <1>4, KeysAssumption DEF Late, Graceful
  <2>. QED
    BY <2>1, <2>2, <2>3, <2>4 DEF Graceful
<1>13. Alone'
  BY <1>3 DEF Alone, Active
<1>14. Kept'
  <2> SUFFICES ASSUME ~contested
               PROVE  KeptInFile' /\ \A q \in Runs : pc'[q] \in Active => KeptBy(q)'
    BY DEF Kept
  <2>1. KeptInFile'
    BY DEF Kept, KeptInFile
  <2>2. \A q \in Runs : pc'[q] \in Active => q = r
    BY <1>3 DEF Alone, Active
  <2>3. KeptBy(r)
    BY DEF Kept, Active
  <2>4. \A d \in Clients : expires[d][new] = Never
    BY DEF Known, TypeOK
  <2>5. ASSUME NEW d \in Clients, NEW k \in Keys
        PROVE  /\ book'[r][d][k] \in Nat =>
                     \/ book'[r][d][k] = expires[d][k]
                     \/ d = c /\ expires[d][k] = Never
               /\ book'[r][d][k] = Never => expires[d][k] = Never
    <3>1. /\ b[d][k] \in Nat => b[d][k] = expires[d][k]
          /\ b[d][k] = Never => expires[d][k] = Never
      BY <2>3 DEF KeptBy, Saving
    <3>2. book'[r][d][k] = IF d # c THEN b[d][k] ELSE IF k = new THEN Never ELSE Stamp(b[c][k])
      BY <1>2, <1>3
    <3>3. CASE d = c /\ k # new /\ b[c][k] = Never
      BY <3>1, <3>2, <3>3, <1>1, KeysAssumption DEF Stamp
    <3>4. CASE ~(d = c /\ k # new /\ b[c][k] = Never)
      BY <3>1, <3>2, <3>4, <1>6, <2>4, KeysAssumption DEF Stamp
    <3>. QED
      BY <3>3, <3>4
  <2>. QED
    BY <2>1, <2>2, <2>5, <1>3 DEF KeptBy, Saving
<1>16. Known'
  BY <1>1, <1>2, <1>3, KeysAssumption DEF Known, Stamp
<1>15. Carried'
  <2> SUFFICES ASSUME ~contested', NEW d \in Clients, NEW k \in Keys, Promised(d, k)'
               PROVE  /\ file' \in Books => file'[d][k] # Absent
                      /\ \A q \in Runs : pc'[q] \in Active => book'[q][d][k] # Absent
    BY DEF Carried
  <2>1. Promised(d, k)
    BY <1>3 DEF Promised
  <2>. QED
    BY <2>1, <1>1, <1>2, <1>3, <1>6, KeysAssumption DEF Carried, Active, Stamp
<1>. QED
  BY <1>5, <1>7, <1>9, <1>12, <1>13, <1>14, <1>15, <1>16

LEMMA WritesStep ==
    ASSUME IInv, NEW r \in Runs, Writes(r)
    PROVE  IInv'
<1> USE DEF Writes, IInv
<1> DEFINE c == client[r]
           b == book[r]
<1>1. c \in Clients /\ b \in Books /\ key[r] \in Keys /\ b[c][key[r]] # Absent
  BY DEF Named, TypeOK, Active, Saving
<1>2. file' = b \/ file' = Damaged
  OBVIOUS
<1>3. \A q \in Runs : pc'[q] = IF q = r THEN "written" ELSE pc[q]
  BY DEF TypeOK
<1>4. \A d \in Clients : \A k \in Keys :
        expires'[d][k] = IF d = c /\ expires[d][k] = Never /\ b[d][k] \in Nat
                         THEN b[d][k] ELSE expires[d][k]
  BY <1>1 DEF TypeOK
<1>5. TypeOK'
  <2>1. expires' \in [Clients -> [Keys -> Nat \cup {Never}]]
    BY <1>1 DEF TypeOK
  <2>2. torn' \in [Runs -> BOOLEAN]
    BY DEF TypeOK
  <2>. QED
    BY <2>1, <2>2, <1>1, <1>2 DEF TypeOK
<1>6. Named'
  BY <1>3 DEF Named, Active, Saving
<1>7. Single'
  BY <1>1, <1>2, KeysAssumption DEF Single, OnePermanentKey, OnePermanent
<1>8. Graceful'
  BY <1>1, <1>2, KeysAssumption DEF Graceful, Late
<1>9. Alone'
  BY <1>3 DEF Alone, Active
<1>10. Known'
  <2>1. \A d \in Clients : \A k \in Keys : b[d][k] # Absent => k \in used
    BY DEF Known
  <2>. QED
    BY <2>1, <1>2, <1>4, KeysAssumption DEF Known
<1>11. Kept'
  <2> SUFFICES ASSUME ~contested
               PROVE  KeptInFile' /\ \A q \in Runs : pc'[q] \notin Active
    BY DEF Kept
  <2>1. KeptBy(r)
    BY DEF Kept, Active
  <2>2. \A q \in Runs : pc'[q] \notin Active
    BY <1>3 DEF Alone, Active
  <2>3. ASSUME NEW d \in Clients, NEW k \in Keys
        PROVE  /\ b[d][k] \in Nat => b[d][k] = expires'[d][k]
               /\ b[d][k] = Never => expires'[d][k] = Never
    BY <2>1, <1>4, KeysAssumption DEF KeptBy
  <2>4. KeptInFile'
    BY <2>3, <1>2, KeysAssumption DEF KeptInFile
  <2>. QED
    BY <2>2, <2>4
<1>12. Carried'
  <2> SUFFICES ASSUME ~contested', NEW d \in Clients, NEW k \in Keys, Promised(d, k)'
               PROVE  /\ file' \in Books => file'[d][k] # Absent
                      /\ \A q \in Runs : pc'[q] \in Active => book'[q][d][k] # Absent
    BY DEF Carried
  <2>1. Promised(d, k) \/ (d = c /\ k = key[r])
    BY <1>3 DEF Promised
  <2>2. b[d][k] # Absent
    BY <2>1, <1>1 DEF Carried, Active
  <2>3. \A q \in Runs : pc'[q] \notin Active
    BY <1>3 DEF Alone, Active
  <2>. QED
    BY <2>2, <2>3, <1>2, KeysAssumption
<1>. QED
  BY <1>5, <1>6, <1>7, <1>8, <1>9, <1>10, <1>11, <1>12

LEMMA OpensStep ==
    ASSUME IInv, NEW r \in Runs, Opens(r)
    PROVE  IInv'
<1> USE DEF Opens, IInv
<1>1. \A q \in Runs : pc'[q] = IF q = r THEN "writing" ELSE pc[q]
  BY DEF TypeOK
<1>2. file' \notin Books
  BY KeysAssumption
<1>3. TypeOK'
  BY DEF TypeOK
<1>4. Named' /\ Alone'
  BY <1>1 DEF Named, Alone, Active, Saving
<1>5. Single' /\ Graceful' /\ Known'
  BY <1>2 DEF Single, OnePermanentKey, OnePermanent, Graceful, Late, Known
<1>6. Kept'
  BY <1>1, <1>2 DEF Kept, KeptInFile, KeptBy, Active, Saving
<1>7. Carried'
  BY <1>1, <1>2 DEF Carried, Promised, Active
<1>. QED
  BY <1>3, <1>4, <1>5, <1>6, <1>7

\* A run ends: with its key printed, refused or killed.
LEMMA EndStep ==
    ASSUME IInv, NEW r \in Runs, Prints(r) \/ Refused(r) \/ Killed(r)
    PROVE  IInv'
<1> USE DEF IInv
<1>1. /\ UNCHANGED <<file, store, clock, book, client, key, torn, used, stamped, expires, contested>>
      /\ \A q \in Runs : pc'[q] = IF q = r THEN "ended" ELSE pc[q]
      /\ pc' \in [Runs -> {"new", "loaded", "rotated", "writing", "written", "ended"}]
  BY DEF Prints, Refused, Killed, TypeOK
<1>2. \/ printed' = printed
      \/ pc[r] = "written" /\ printed' = printed \cup {<<client[r], key[r]>>}
  BY DEF Prints, Refused, Killed, MayPrint
<1>3. TypeOK'
  <2>1. pc[r] = "written" => client[r] \in Clients /\ key[r] \in Keys
    BY DEF Named
  <2>2. printed' \subseteq Clients \X Keys
    BY <2>1, <1>2 DEF TypeOK
  <2>. QED
    BY <2>2, <1>1 DEF TypeOK
<1>4. Named' /\ Alone'
  BY <1>1 DEF Named, Alone, Active, Saving
<1>5. Single' /\ Graceful' /\ Known'
  BY <1>1 DEF Single, OnePermanentKey, OnePermanent, Graceful, Late, Known
<1>6. Kept'
  BY <1>1 DEF Kept, KeptInFile, KeptBy, Active, Saving
<1>7. Carried'
  <2> SUFFICES ASSUME ~contested', NEW d \in Clients, NEW k \in Keys, Promised(d, k)'
               PROVE  /\ file' \in Books => file'[d][k] # Absent
                      /\ \A q \in Runs : pc'[q] \in Active => book'[q][d][k] # Absent
    BY DEF Carried
  <2>1. Promised(d, k)
    BY <1>1, <1>2 DEF Promised
  <2>. QED
    BY <2>1, <1>1 DEF Carried, Active
<1>. QED
  BY <1>3, <1>4, <1>5, <1>6, <1>7

\* The orchestrator and the clock touch neither the file nor the runs.
LEMMA ServerStep ==
    ASSUME IInv, Starts \/ Stops \/ Tick \/ UNCHANGED vars
    PROVE  IInv'
<1> USE DEF IInv
<1>1. /\ UNCHANGED <<file, pc, book, client, key, torn, used, printed, stamped, expires, contested>>
      /\ clock \in Nat => clock' \in Nat /\ clock <= clock'
      /\ store' \in {store, Down, NoClients} \/ (file \in Books /\ store' = file)
  BY DEF Starts, Stops, Tick, vars, script
<1>2. NoClients \in Books /\ \A c \in Clients : \A k \in Keys : NoClients[c][k] = Absent
  BY DEF NoClients, Books, Expiry
<1>3. TypeOK'
  BY <1>1, <1>2 DEF TypeOK
<1>4. Named' /\ Alone' /\ Known' /\ Kept' /\ Carried'
  BY <1>1 DEF Named, Alone, Known, Kept, KeptInFile, KeptBy, Carried, Promised
<1>5. Single'
  BY <1>1, <1>2, KeysAssumption DEF Single, OnePermanentKey, OnePermanent
<1>6. Graceful'
  <2>1. \A k \in Keys : stamped'[k] \in Nat => stamped'[k] <= clock'
    BY <1>1 DEF Graceful, TypeOK
  <2>2. (\A r \in Runs : Late(book[r])') /\ (file' \in Books => Late(file)')
    BY <1>1 DEF Graceful, Late
  <2>3. store' \in Books => Late(store)'
    BY <1>1, <1>2, KeysAssumption DEF Graceful, Late
  <2>. QED
    BY <2>1, <2>2, <2>3 DEF Graceful
<1>. QED
  BY <1>3, <1>4, <1>5, <1>6

\* The inductive invariant: overlapping and dying rotations included, every step
\* of the script, the orchestrator and the clock preserves it.
THEOREM Inductive == IInv /\ [Next]_vars => IInv'
<1> SUFFICES ASSUME IInv, [Next]_vars PROVE IInv'
  OBVIOUS
<1>1. ASSUME NEW r \in Runs, NEW c \in Clients, Loads(r, c) PROVE IInv'
  BY <1>1, LoadsStep
<1>2. ASSUME NEW r \in Runs, NEW new \in Keys, Rotates(r, new) PROVE IInv'
  BY <1>2, RotatesStep
<1>3. ASSUME NEW r \in Runs, Opens(r) PROVE IInv'
  BY <1>3, OpensStep
<1>4. ASSUME NEW r \in Runs, Writes(r) PROVE IInv'
  BY <1>4, WritesStep
<1>5. ASSUME NEW r \in Runs, Prints(r) \/ Refused(r) \/ Killed(r) PROVE IInv'
  BY <1>5, EndStep
<1>6. ASSUME Starts \/ Stops \/ Tick \/ UNCHANGED vars PROVE IInv'
  BY <1>6, ServerStep
<1>. QED
  BY <1>1, <1>2, <1>3, <1>4, <1>5, <1>6 DEF Next

LEMMA Invariance == Spec => []IInv
  BY InitIInv, Inductive, PTL DEF Spec

LEMMA Consequences == IInv => OnePermanentKey /\ NoGap /\ ExpirySetOnce /\ PrintedIsSaved
<1> SUFFICES ASSUME IInv PROVE OnePermanentKey /\ NoGap /\ ExpirySetOnce /\ PrintedIsSaved
  OBVIOUS
<1> USE DEF IInv
<1>1. OnePermanentKey
  BY DEF Single
<1>2. NoGap
  <2> SUFFICES ASSUME store \in Books, NEW c \in Clients, NEW k \in Keys, store[c][k] # Absent,
                      stamped[k] = Never \/ clock < stamped[k] + Grace
               PROVE  Valid(store[c][k])
    BY DEF NoGap, Authenticates
  <2>1. store[c][k] \in Nat \cup {Never}
    BY DEF Books, Expiry
  <2>2. store[c][k] \in Nat => stamped[k] \in Nat /\ stamped[k] + Grace <= store[c][k]
    BY DEF Graceful, Late
  <2>3. clock \in Nat /\ Grace \in Nat /\ Never \notin Nat
    BY KeysAssumption DEF TypeOK
  <2>. QED
    BY <2>1, <2>2, <2>3 DEF Valid
<1>3. ExpirySetOnce
  BY DEF ExpirySetOnce, Kept, KeptInFile
<1>4. PrintedIsSaved
  <2> SUFFICES ASSUME ~contested, file \in Books, NEW p \in printed
               PROVE  file[p[1]][p[2]] # Absent
    BY DEF PrintedIsSaved
  <2>1. p[1] \in Clients /\ p[2] \in Keys /\ p = <<p[1], p[2]>>
    BY DEF TypeOK
  <2>. QED
    BY <2>1 DEF Carried, Promised
<1>. QED
  BY <1>1, <1>2, <1>3, <1>4

\* However rotations of rotate_keys.py overlap or die, neither the file nor the
\* orchestrator ever has two permanent keys for a client.
THEOREM OnePermanentTheorem == Spec => []OnePermanentKey
  BY Invariance, Consequences, PTL

\* A key the orchestrator has loaded is accepted until the grace period after
\* its first rotation is over.
THEOREM NoGapTheorem == Spec => []NoGap
  BY Invariance, Consequences, PTL

\* Rotations that do not overlap set the expiry of a key once.
THEOREM ExpiryTheorem == Spec => []ExpirySetOnce
  BY Invariance, Consequences, PTL

\* Rotations that do not overlap lose no key that was printed.
THEOREM PrintedTheorem == Spec => []PrintedIsSaved
  BY Invariance, Consequences, PTL
================================================================================
