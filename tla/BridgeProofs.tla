---------------------------- MODULE BridgeProofs ----------------------------
(***************************************************************************)
(* Proofs about Bridge and Passkeys: for any number of items, logins and   *)
(* requests under way, and any timing of the owner, the clock, locks, the  *)
(* site and other devices.                                                 *)
(***************************************************************************)
EXTENDS Bridge, Passkeys, WellFoundedInduction, TLAPS

USE BridgeAssumption

-----------------------------------------------------------------------------
(* The inductive invariant                                                 *)

Replacement == [at : Nat, quiet : BOOLEAN]
Version == [rev : Nat, hist : Seq(Replacement)]
Reservation == [at : Nat, by : Threads]
Answer == [in : Nat \cup {Nil}, allow : BOOLEAN]
Write == [base : Nat, epoch : Nat, quiet : BOOLEAN, to : Version]

Request == [st : {"idle", "limited", "ask", "waiting", "saving"},
            kind : {"login", "sso", Nil}, item : Logins \cup {Nil},
            stamp : Reservation \cup {Nil}, cooling : BOOLEAN,
            dialog : Nat \cup {Nil}, answer : Answer \cup {Nil},
            epoch : Nat, write : Write \cup {Nil}]

\* The types, without the bounds.
Types ==
    /\ clock \in Nat /\ dialogs \in Nat /\ pendingFlag \in BOOLEAN /\ waiting \in Nat \cup {Nil}
    /\ updates \in [Logins -> Reservation \cup {Nil}]
    /\ spent \subseteq Logins \X Reservation
    /\ thread \in [Threads -> Request]
    /\ session \in [epoch : Nat, open : BOOLEAN]
    /\ cloud \in [Logins -> Version] /\ local \in [Logins -> Version]

\* A history in which nothing was replaced quietly too soon.
Rare(hist) == \A k \in 1 .. Len(hist) - 1 :
                  hist[k].quiet => hist[k].at >= hist[k + 1].at + RepeatWindow

\* Every copy has such a history.
CopiesRare == \A i \in Logins : Rare(cloud[i].hist) /\ Rare(local[i].hist)

\* A request under way has an item, and a reservation of its own unless it is
\* cooling; an Allow is the answer of its own dialog; what it saves has a rare
\* history, and the owner's consent unless it is quiet.
Sound(t, k) ==
    /\ k.st = "idle" => k = Idle
    /\ k.st # "idle" => k.item \in Logins /\ (k.cooling <=> k.stamp = Nil)
    /\ k.st \in {"limited", "ask"} => k.dialog = Nil /\ k.answer = Nil
    /\ k.stamp # Nil => k.stamp.by = t
    /\ k.answer # Nil /\ k.answer.allow => k.answer.in = k.dialog
    /\ k.st = "saving" => k.write \in Write /\ Rare(k.write.to.hist)
    /\ k.st = "saving" /\ ~k.write.quiet => k.answer.in = k.dialog /\ k.write.epoch = k.epoch

RequestsSound == \A t \in Threads : Sound(t, thread[t])

\* Is reservation r followed, or itself, by one of the same item in force?
Covers(u, r) == u # Nil /\ u.at >= r.at

\* A reservation a request holds keeps its item reserved while it counts; and
\* where it is the one in force, no other that counts was given out.
HeldReservations ==
    \A t \in Threads : thread[t].stamp # Nil =>
        /\ thread[t].stamp.at <= clock
        /\ StillCounts(thread[t].stamp) => Covers(updates[thread[t].item], thread[t].stamp)
        /\ updates[thread[t].item] = thread[t].stamp =>
             /\ \A u \in Threads \ {t} : thread[u].stamp # Nil /\ thread[u].item = thread[t].item
                                           => ~StillCounts(thread[u].stamp)
             /\ \A s \in spent : s[1] = thread[t].item => ~StillCounts(s[2])

\* So does one that was spent on a change.
SpentReservations ==
    \A s \in spent : s[2].at <= clock /\ (StillCounts(s[2]) => Covers(updates[s[1]], s[2]))

\* What is in force was spent, or is held.
InForceIsOwned ==
    \A i \in Logins : StillCounts(updates[i]) =>
        \/ <<i, updates[i]>> \in spent
        \/ \E t \in Threads : thread[t].item = i /\ thread[t].stamp = updates[i]

Books == HeldReservations /\ SpentReservations /\ InForceIsOwned

\* One thread at most waits for the owner.
OneWaits == \A t, u \in Threads : thread[t].st = "waiting" /\ thread[u].st = "waiting" => t = u

BridgeInv == /\ Types /\ CopiesRare /\ RequestsSound /\ Books /\ OneWaits /\ OneQuestion

-----------------------------------------------------------------------------
(* Versions and writes                                                     *)

\* A replacement goes on top, and the history is cut to its length.
LEMMA ReplacedVersion ==
    ASSUME clock \in Nat, NEW v \in Version, NEW quiet \in BOOLEAN
    PROVE  /\ Replaced(v, quiet) \in Version
           /\ Replaced(v, quiet).hist[1] = [at |-> clock, quiet |-> quiet]
           /\ Len(Replaced(v, quiet).hist) <= Len(v.hist) + 1
           /\ \A k \in 1 .. Len(Replaced(v, quiet).hist) - 1 :
                  k \in 1 .. Len(v.hist) /\ Replaced(v, quiet).hist[k + 1] = v.hist[k]
<1> DEFINE e == [at |-> clock, quiet |-> quiet]
           long == <<e>> \o v.hist
           n == IF Len(long) <= MaxHistory THEN Len(long) ELSE MaxHistory
<1>1. v.hist \in Seq(Replacement) /\ v.rev \in Nat /\ Len(v.hist) \in Nat
  BY DEF Version
<1>2. e \in Replacement
  BY DEF Replacement
<1>3. <<e>> \in Seq(Replacement) /\ Len(<<e>>) = 1 /\ <<e>>[1] = e
  BY <1>2
<1> HIDE DEF e
<1>4. /\ long \in Seq(Replacement) /\ Len(long) = Len(v.hist) + 1 /\ long[1] = e
      /\ \A k \in 1 .. Len(v.hist) : long[k + 1] = v.hist[k]
  BY <1>1, <1>3
<1> HIDE DEF long
<1>5. n \in 1 .. Len(long)
  BY <1>1, <1>4
<1> HIDE DEF n
<1>6. /\ SubSeq(long, 1, n) \in Seq(Replacement) /\ Len(SubSeq(long, 1, n)) = n
      /\ \A k \in 1 .. n : SubSeq(long, 1, n)[k] = long[k]
  BY <1>4, <1>5
<1>7. Replaced(v, quiet) = [rev |-> v.rev + 1, hist |-> SubSeq(long, 1, n)]
  BY DEF Replaced, long, n, e
<1>8. Replaced(v, quiet).hist = SubSeq(long, 1, n) /\ Replaced(v, quiet).rev = v.rev + 1
  BY DEF Replaced, long, n, e
<1>9. Replaced(v, quiet) \in Version
  BY <1>1, <1>6, <1>7 DEF Version
<1>10. SubSeq(long, 1, n)[1] = e
  BY <1>4, <1>5, <1>6
<1>11. ASSUME NEW k \in 1 .. n - 1
       PROVE  k \in 1 .. Len(v.hist) /\ SubSeq(long, 1, n)[k + 1] = v.hist[k]
  <2>1. k \in 1 .. Len(v.hist) /\ k + 1 \in 1 .. n
    BY <1>1, <1>4, <1>5
  <2> QED
    BY <1>4, <1>6, <2>1
<1>12. n <= Len(v.hist) + 1
  BY <1>1, <1>4, <1>5
<1>13. Len(Replaced(v, quiet).hist) = n
  BY <1>6, <1>8
<1> QED
  BY <1>8, <1>9, <1>10, <1>11, <1>12, <1>13 DEF e

\* It stays rare when the owner was asked, or every replacement is old.
LEMMA ReplacedRare ==
    ASSUME clock \in Nat, NEW v \in Version, NEW quiet \in BOOLEAN, Rare(v.hist),
           quiet => \A k \in DOMAIN v.hist : ~(clock - v.hist[k].at < RepeatWindow)
    PROVE  Rare(Replaced(v, quiet).hist)
<1> DEFINE h == Replaced(v, quiet).hist
<1>0. Replaced(v, quiet) \in Version
  BY ReplacedVersion
<1>1. /\ h[1] = [at |-> clock, quiet |-> quiet]
      /\ \A k \in 1 .. Len(h) - 1 : k \in 1 .. Len(v.hist) /\ h[k + 1] = v.hist[k]
      /\ h \in Seq(Replacement) /\ Len(h) \in Nat
  <2>1. h \in Seq(Replacement)
    BY <1>0 DEF Version
  <2>2. /\ h[1] = [at |-> clock, quiet |-> quiet]
        /\ \A k \in 1 .. Len(h) - 1 : k \in 1 .. Len(v.hist) /\ h[k + 1] = v.hist[k]
    BY ReplacedVersion
  <2> HIDE DEF h
  <2>3. Len(h) \in Nat
    BY <2>1
  <2> QED
    BY <2>1, <2>2, <2>3
<1>2. v.hist \in Seq(Replacement) /\ Len(v.hist) \in Nat /\ DOMAIN v.hist = 1 .. Len(v.hist)
  BY DEF Version
<1> HIDE DEF h
<1>3. ASSUME NEW k \in 1 .. Len(h) - 1, h[k].quiet
      PROVE  h[k].at >= h[k + 1].at + RepeatWindow
  <2>1. CASE k = 1
    <3>1. h[k] = [at |-> clock, quiet |-> quiet] /\ h[k + 1] = v.hist[1] /\ 1 \in DOMAIN v.hist
      BY <1>1, <1>2, <2>1
    <3>2. v.hist[1].at \in Nat
      <4>1. v.hist[1] \in Replacement
        BY <1>2, <3>1
      <4> QED
        BY <4>1 DEF Replacement
    <3>3. quiet /\ h[k].at = clock
      BY <1>3, <3>1
    <3>4. ~(clock - v.hist[1].at < RepeatWindow)
      BY <3>1, <3>3
    <3> QED
      BY <3>1, <3>2, <3>3, <3>4, SMTT(30)
  <2>2. CASE k # 1
    <3>1. k - 1 \in 1 .. Len(h) - 1 /\ k - 1 + 1 = k
      BY <1>1, <2>2
    <3>2. h[k] = v.hist[k - 1] /\ h[k + 1] = v.hist[k] /\ k \in 1 .. Len(v.hist)
      BY <1>1, <3>1
    <3>3. k - 1 \in 1 .. Len(v.hist) - 1
      BY <1>2, <3>1, <3>2
    <3> QED
      BY <1>3, <3>1, <3>2, <3>3 DEF Rare
  <2> QED
    BY <2>1, <2>2
<1> QED
  BY <1>3 DEF Rare, h

LEMMA StagedWrite ==
    ASSUME Types, CopiesRare, NEW r \in Request, r.item \in Logins, NEW quiet \in BOOLEAN,
           quiet /\ r.kind = "login" => ~NeedsConfirmation(r.item)
    PROVE  /\ Staged(r, quiet) \in Write
           /\ Staged(r, quiet).quiet = quiet /\ Staged(r, quiet).epoch = session.epoch
           /\ Rare(Staged(r, quiet).to.hist)
<1> DEFINE v == local[r.item]
           to == Staged(r, quiet).to
<1>1. v \in Version /\ Rare(v.hist) /\ v.rev \in Nat /\ v.hist \in Seq(Replacement)
  BY DEF Types, CopiesRare, Version
<1>2. session.epoch \in Nat /\ clock \in Nat
  BY DEF Types
<1>3. to = IF r.kind = "login" THEN Replaced(v, quiet) ELSE [v EXCEPT !.rev = @ + 1]
  BY DEF Staged
<1>4. to \in Version /\ Rare(to.hist)
  <2>1. CASE r.kind = "login"
    <3>1. quiet => \A k \in DOMAIN v.hist : ~(clock - v.hist[k].at < RepeatWindow)
      BY <2>1 DEF NeedsConfirmation
    <3> QED
      BY <1>1, <1>2, <1>3, <2>1, <3>1, ReplacedVersion, ReplacedRare, ZenonT(40)
  <2>2. CASE r.kind # "login"
    <3>1. to = [v EXCEPT !.rev = @ + 1]
      BY <1>3, <2>2
    <3>2. to \in Version /\ to.hist = v.hist
      BY <1>1, <3>1 DEF Version
    <3> QED
      BY <1>1, <3>2
  <2> QED
    BY <2>1, <2>2
<1>5. /\ Staged(r, quiet).quiet = quiet /\ Staged(r, quiet).epoch = session.epoch
      /\ Staged(r, quiet) = [base |-> v.rev, epoch |-> session.epoch, quiet |-> quiet, to |-> to]
  BY DEF Staged
<1> HIDE DEF to, v
<1>6. Staged(r, quiet) \in Write
  BY <1>1, <1>2, <1>4, <1>5 DEF Write
<1> QED
  BY <1>4, <1>5, <1>6 DEF to

-----------------------------------------------------------------------------
(* Requests and copies                                                     *)

LEMMA IdleSound == Idle \in Request /\ \A t \in Threads : Sound(t, Idle)
BY DEF Idle, Request, Sound

\* One request becomes another.
LEMMA Becomes ==
    ASSUME Types, RequestsSound, NEW t \in Threads, NEW k \in Request, Sound(t, k), Set(t, k)
    PROVE  thread' \in [Threads -> Request] /\ RequestsSound'
BY DEF Types, RequestsSound, Set

\* The parts that a step of the requests may touch.
ThreadInv == Types /\ CopiesRare /\ RequestsSound

LEMMA FinishThread ==
    ASSUME ThreadInv, NEW t \in Threads, thread[t].st # "idle", NEW ok \in BOOLEAN, Finish(t, ok)
    PROVE  /\ thread' \in [Threads -> Request] /\ RequestsSound'
           /\ updates' \in [Logins -> Reservation \cup {Nil}]
           /\ spent' \subseteq Logins \X Reservation
<1> USE DEF ThreadInv
<1> DEFINE r == thread[t]
           record == [at |-> clock, by |-> t]
<1>1. thread' \in [Threads -> Request] /\ RequestsSound'
  BY IdleSound, Becomes DEF Finish
<1>2. r \in Request /\ r.item \in Logins /\ (r.cooling <=> r.stamp = Nil) /\ r.stamp \in Reservation \cup {Nil}
  BY DEF Types, RequestsSound, Sound, Request
<1>3. record \in Reservation
  BY DEF Types, Reservation
<1> HIDE DEF r, record
<1>4. \/ updates' = ReleaseItemUpdate(r.item, r.stamp)
      \/ updates' = [updates EXCEPT ![r.item] = record]
      \/ updates' = updates
  BY DEF Finish, r, record
<1>5. updates' \in [Logins -> Reservation \cup {Nil}]
  BY <1>2, <1>3, <1>4 DEF Types, ReleaseItemUpdate
<1>6. spent' \in {spent, spent \cup {<<r.item, record>>}} \/ (~r.cooling /\ spent' = spent \cup {<<r.item, r.stamp>>})
  BY DEF Finish, r, record
<1>7. spent' \subseteq Logins \X Reservation
  BY <1>2, <1>3, <1>6 DEF Types
<1> QED
  BY <1>1, <1>5, <1>7

LEMMA ReceiveThread ==
    ASSUME ThreadInv, NEW t \in Threads, NEW kind \in {"login", "sso"}, NEW i \in Logins,
           Receive(t, kind, i)
    PROVE  ThreadInv'
<1> USE DEF ThreadInv
<1> DEFINE free == Pruned[i] = Nil
           stamp == [at |-> clock, by |-> t]
           k == [Idle EXCEPT !.st = "limited", !.kind = kind, !.item = i,
                             !.stamp = IF free THEN stamp ELSE Nil, !.cooling = ~free]
<1>1. stamp \in Reservation /\ stamp # Nil /\ stamp.by = t
  BY DEF Types, Reservation
<1> HIDE DEF stamp
<1>2. (IF free THEN stamp ELSE Nil) \in Reservation \cup {Nil} /\ (~free) \in BOOLEAN
  BY <1>1
<1>3. k \in Request
  BY <1>2, IdleSound, ZenonT(40) DEF Request
<1>4. Sound(t, k)
  <2>1. CASE free
    <3>1. k.st = "limited" /\ k.item = i /\ k.stamp = stamp /\ ~k.cooling /\ k.answer = Nil /\ k.dialog = Nil
      BY <2>1 DEF Idle
    <3> QED
      BY <1>1, <3>1 DEF Sound
  <2>2. CASE ~free
    <3>1. k.st = "limited" /\ k.item = i /\ k.stamp = Nil /\ k.cooling /\ k.answer = Nil /\ k.dialog = Nil
      BY <2>2 DEF Idle
    <3> QED
      BY <3>1 DEF Sound
  <2> QED
    BY <2>1, <2>2
<1>5. thread' \in [Threads -> Request] /\ RequestsSound'
  BY <1>3, <1>4, Becomes DEF Receive, stamp
<1>6. Pruned \in [Logins -> Reservation \cup {Nil}]
  BY DEF Pruned, Types
<1>7. updates' \in [Logins -> Reservation \cup {Nil}]
  BY <1>1, <1>6 DEF Receive, stamp
<1> QED
  BY <1>5, <1>7 DEF Receive, Types, CopiesRare, dialogVars

LEMMA DispatchThread ==
    ASSUME ThreadInv, NEW t \in Threads,
           DispatchRefused(t) \/ DispatchQuietly(t) \/ DispatchConfirm(t)
    PROVE  ThreadInv'
<1> USE DEF ThreadInv
<1> DEFINE r == thread[t]
<1>0. r \in Request /\ Sound(t, r) /\ session.epoch \in Nat
  BY DEF Types, RequestsSound
<1>1. CASE DispatchRefused(t)
  BY <1>1, FinishThread DEF DispatchRefused, Types, CopiesRare, dialogVars
<1>2. CASE DispatchQuietly(t)
  <2> DEFINE w == Staged(r, TRUE)
             k == [r EXCEPT !.st = "saving", !.epoch = session.epoch, !.write = w]
  <2>1. r.st # "idle" /\ r.item \in Logins /\ (r.cooling <=> r.stamp = Nil)
    BY <1>0, <1>2 DEF DispatchQuietly, Sound
  <2>2. r.kind = "login" => ~NeedsConfirmation(r.item)
    BY <1>2 DEF DispatchQuietly
  <2>3. w \in Write /\ w.quiet = TRUE /\ Rare(w.to.hist)
    BY <1>0, <2>1, <2>2, StagedWrite
  <2> HIDE DEF w
  <2>4. k \in Request
    BY Zenon, <1>0, <2>3 DEF Request
  <2>5. /\ k.st = "saving" /\ k.item = r.item /\ k.stamp = r.stamp /\ k.cooling = r.cooling
        /\ k.answer = r.answer /\ k.dialog = r.dialog /\ k.write = w
    BY <1>0 DEF Request
  <2>6. Sound(t, k)
    BY <1>0, <2>1, <2>3, <2>5 DEF Sound
  <2>7. Set(t, k)
    BY <1>2 DEF DispatchQuietly, w
  <2>8. thread' \in [Threads -> Request] /\ RequestsSound'
    BY <2>4, <2>6, <2>7, Becomes
  <2> QED
    BY <1>2, <2>8 DEF DispatchQuietly, Types, CopiesRare, dialogVars, limiterVars
<1>3. CASE DispatchConfirm(t)
  <2> DEFINE k == [r EXCEPT !.st = "ask", !.epoch = session.epoch]
  <2>1. r.st = "limited" /\ r.item \in Logins /\ (r.cooling <=> r.stamp = Nil)
    BY <1>0, <1>3 DEF DispatchConfirm, Sound
  <2>2. k \in Request
    BY Zenon, <1>0 DEF Request
  <2>3. /\ k.st = "ask" /\ k.item = r.item /\ k.stamp = r.stamp /\ k.cooling = r.cooling
        /\ k.answer = r.answer /\ k.dialog = r.dialog
    BY <1>0 DEF Request
  <2>4. Sound(t, k)
    BY <1>0, <2>1, <2>3 DEF Sound
  <2>5. thread' \in [Threads -> Request] /\ RequestsSound'
    BY <1>3, <2>2, <2>4, Becomes DEF DispatchConfirm
  <2> QED
    BY <1>3, <2>5 DEF DispatchConfirm, Types, CopiesRare, dialogVars, limiterVars
<1> QED
  BY <1>1, <1>2, <1>3

\* The answer of a dialog reaches the request that asked in it.
LEMMA ReplyThread ==
    ASSUME ThreadInv, NEW id \in Nat, NEW allow \in BOOLEAN, Reply(id, id, allow)
    PROVE  thread' \in [Threads -> Request] /\ RequestsSound'
<1> USE DEF ThreadInv
<1> DEFINE a == [in |-> id, allow |-> allow]
<1>1. a \in Answer /\ a.in = id
  BY DEF Answer
<1> HIDE DEF a
<1>2. ASSUME NEW t \in Threads
      PROVE  thread'[t] \in Request /\ Sound(t, thread'[t])
  <2> DEFINE r == thread[t]
             k == [r EXCEPT !.answer = a]
  <2>1. r \in Request /\ Sound(t, r)
    BY DEF Types, RequestsSound
  <2>2. CASE r.dialog # id
    BY <2>1, <2>2 DEF Reply
  <2>3. CASE r.dialog = id
    <3>1. k \in Request
      BY Zenon, <1>1, <2>1 DEF Request
    <3>2. /\ k.st = r.st /\ k.item = r.item /\ k.stamp = r.stamp /\ k.cooling = r.cooling
          /\ k.answer = a /\ k.dialog = r.dialog /\ k.write = r.write /\ k.epoch = r.epoch
      BY <2>1 DEF Request
    <3>3. r.st # "idle"
      BY <2>1, <2>3 DEF Sound, Idle
    <3>4. Sound(t, k)
      BY <1>1, <2>1, <2>3, <3>2, <3>3 DEF Sound
    <3> QED
      BY <2>3, <3>1, <3>4 DEF Reply, a
  <2> QED
    BY <2>2, <2>3
<1>3. thread' = [t \in Threads |-> thread'[t]]
  BY DEF Reply
<1> QED
  BY <1>2, <1>3 DEF RequestsSound

LEMMA AskThread ==
    ASSUME ThreadInv, NEW t \in Threads, AskRefused(t) \/ Ask(t) \/ AskTimesOut(t) \/ Resume(t)
    PROVE  ThreadInv'
<1> USE DEF ThreadInv
<1> DEFINE r == thread[t]
<1>0. r \in Request /\ Sound(t, r) /\ session.epoch \in Nat
  BY DEF Types, RequestsSound
<1>1. CASE AskRefused(t)
  BY <1>1, FinishThread DEF AskRefused, Types, CopiesRare, dialogVars
<1>2. CASE Ask(t)
  <2> DEFINE k == [r EXCEPT !.st = "waiting", !.dialog = dialogs + 1]
  <2>1. r.st = "ask" /\ r.item \in Logins /\ (r.cooling <=> r.stamp = Nil) /\ dialogs + 1 \in Nat
    BY <1>0, <1>2 DEF Ask, Sound, Types
  <2>2. k \in Request
    BY Zenon, <1>0, <2>1 DEF Request
  <2>3. /\ k.st = "waiting" /\ k.item = r.item /\ k.stamp = r.stamp /\ k.cooling = r.cooling
        /\ k.answer = r.answer
    BY <1>0 DEF Request
  <2>4. Sound(t, k)
    BY <1>0, <2>1, <2>3 DEF Sound
  <2>5. thread' \in [Threads -> Request] /\ RequestsSound'
    BY <1>2, <2>2, <2>4, Becomes DEF Ask
  <2> QED
    BY <1>2, <2>1, <2>5 DEF Ask, Types, CopiesRare, limiterVars
<1>3. CASE AskTimesOut(t)
  <2> DEFINE k == [r EXCEPT !.answer = NoAnswer]
  <2>1. r.st = "waiting" /\ NoAnswer \in Answer /\ NoAnswer.allow = FALSE
    BY <1>3 DEF AskTimesOut, NoAnswer, Answer
  <2>2. k \in Request
    BY Zenon, <1>0, <2>1 DEF Request
  <2>3. /\ k.st = "waiting" /\ k.item = r.item /\ k.stamp = r.stamp /\ k.cooling = r.cooling
        /\ k.answer = NoAnswer
    BY <1>0, <2>1 DEF Request
  <2>4. Sound(t, k)
    BY <1>0, <2>1, <2>3 DEF Sound
  <2>5. thread' \in [Threads -> Request] /\ RequestsSound'
    BY <1>3, <2>2, <2>4, Becomes DEF AskTimesOut
  <2> QED
    BY <1>3, <2>5 DEF AskTimesOut, Types, CopiesRare, limiterVars
<1>4. CASE Resume(t)
  <2>1. CASE Finish(t, FALSE)
    BY <1>4, <2>1, FinishThread DEF Resume, Types, CopiesRare
  <2>2. CASE ~Finish(t, FALSE)
    <3> DEFINE w == Staged(r, FALSE)
               k == [r EXCEPT !.st = "saving", !.write = w]
    <3>1. /\ r.st = "waiting" /\ r.answer # Nil /\ r.answer.allow /\ session.epoch = r.epoch
          /\ Set(t, k) /\ UNCHANGED <<updates, spent>>
      BY <1>4, <2>2 DEF Resume, Agreed
    <3>2. r.item \in Logins /\ (r.cooling <=> r.stamp = Nil) /\ r.answer.in = r.dialog
      BY <1>0, <3>1 DEF Sound
    <3>3. w \in Write /\ Rare(w.to.hist) /\ w.epoch = session.epoch
      BY <1>0, <3>2, StagedWrite
    <3>4. Set(t, [r EXCEPT !.st = "saving", !.write = w])
      BY <3>1
    <3> HIDE DEF w
    <3>5. k \in Request
      BY Zenon, <1>0, <3>3 DEF Request
    <3>6. /\ k.st = "saving" /\ k.item = r.item /\ k.stamp = r.stamp /\ k.cooling = r.cooling
          /\ k.answer = r.answer /\ k.dialog = r.dialog /\ k.write = w /\ k.epoch = r.epoch
      BY <1>0 DEF Request
    <3>7. Sound(t, k)
      BY <1>0, <3>1, <3>2, <3>3, <3>6 DEF Sound
    <3>8. thread' \in [Threads -> Request] /\ RequestsSound'
      BY <3>4, <3>5, <3>7, Becomes
    <3> QED
      BY <1>4, <3>1, <3>8 DEF Resume, Types, CopiesRare
  <2> QED
    BY <2>1, <2>2
<1> QED
  BY <1>1, <1>2, <1>3, <1>4

LEMMA SaveThread ==
    ASSUME ThreadInv, NEW t \in Threads, SaveOk(t) \/ SaveUnseen(t) \/ SaveFails(t)
    PROVE  ThreadInv'
<1> USE DEF ThreadInv
<1> DEFINE to == thread[t].write.to
<1>1. /\ thread[t].st = "saving" /\ thread[t].item \in Logins /\ to \in Version /\ Rare(to.hist)
  BY DEF SaveOk, SaveUnseen, SaveFails, RequestsSound, Sound, Write
<1>2. Finish(t, TRUE) \/ Finish(t, FALSE)
  BY DEF SaveOk, SaveUnseen, SaveFails
<1>3. /\ thread' \in [Threads -> Request] /\ RequestsSound'
      /\ updates' \in [Logins -> Reservation \cup {Nil}]
      /\ spent' \subseteq Logins \X Reservation
  BY <1>1, <1>2, FinishThread
<1>4. /\ cloud' \in {cloud, [cloud EXCEPT ![thread[t].item] = to]}
      /\ local' \in {local, [local EXCEPT ![thread[t].item] = to]}
  BY DEF SaveOk, SaveUnseen, SaveFails
<1> HIDE DEF to
<1>5. /\ cloud' \in [Logins -> Version] /\ local' \in [Logins -> Version]
  BY <1>1, <1>4 DEF Types
<1>6. CopiesRare'
  BY <1>1, <1>4 DEF Types, CopiesRare
<1>7. UNCHANGED <<clock, pendingFlag, waiting, dialogs, session>>
  BY DEF SaveOk, SaveUnseen, SaveFails, dialogVars
<1> QED
  BY <1>3, <1>5, <1>6, <1>7 DEF Types

LEMMA OthersThread ==
    ASSUME ThreadInv,
           \/ \E id \in 1 .. MaxDialogs, allow \in BOOLEAN : UserAnswers(id, allow)
           \/ \E i \in Logins : Pull(i) \/ OwnerEdits(i)
           \/ Lock \/ Unlock \/ Tick
    PROVE  ThreadInv'
<1> USE DEF ThreadInv
<1>1. ASSUME NEW id \in 1 .. MaxDialogs, NEW allow \in BOOLEAN, UserAnswers(id, allow)
      PROVE  ThreadInv'
  <2>1. thread' \in [Threads -> Request] /\ RequestsSound'
    BY <1>1, ReplyThread DEF UserAnswers
  <2> QED
    BY <1>1, <2>1 DEF UserAnswers, Types, CopiesRare, limiterVars
<1>2. ASSUME NEW i \in Logins, Pull(i)
      PROVE  ThreadInv'
  BY <1>2 DEF Pull, Types, CopiesRare, RequestsSound, limiterVars, dialogVars
<1>3. ASSUME NEW i \in Logins, OwnerEdits(i)
      PROVE  ThreadInv'
  <2>1. cloud[i] \in Version /\ Rare(cloud[i].hist) /\ clock \in Nat
    BY DEF Types, CopiesRare
  <2>2. Replaced(cloud[i], FALSE) \in Version /\ Rare(Replaced(cloud[i], FALSE).hist)
    BY <2>1, ReplacedVersion, ReplacedRare
  <2>3. cloud' \in [Logins -> Version] /\ CopiesRare'
    BY <1>3, <2>2 DEF OwnerEdits, Types, CopiesRare
  <2> QED
    BY <1>3, <2>3 DEF OwnerEdits, Types, RequestsSound, limiterVars, dialogVars
<1>4. CASE Lock
  <2>1. thread' \in [Threads -> Request] /\ RequestsSound'
    BY <1>4, ReplyThread DEF Lock, Types, RequestsSound
  <2>2. session' \in [epoch : Nat, open : BOOLEAN]
    BY <1>4 DEF Lock, Types
  <2> QED
    BY <1>4, <2>1, <2>2 DEF Lock, Types, CopiesRare, limiterVars
<1>5. CASE Unlock
  <2>1. session' \in [epoch : Nat, open : BOOLEAN]
    BY Zenon, <1>5 DEF Unlock, Types
  <2> QED
    BY <1>5, <2>1 DEF Unlock, Types, CopiesRare, RequestsSound, limiterVars, dialogVars
<1>6. CASE Tick
  BY <1>6 DEF Tick, Types, CopiesRare, RequestsSound, dialogVars
<1> QED
  BY <1>1, <1>2, <1>3, <1>4, <1>5, <1>6

LEMMA ThreadStepInv == ThreadInv /\ [BridgeNext]_bridgeVars => ThreadInv'
<1> SUFFICES ASSUME ThreadInv, [BridgeNext]_bridgeVars
             PROVE  ThreadInv'
  OBVIOUS
<1>1. CASE UNCHANGED bridgeVars
  BY <1>1 DEF ThreadInv, Types, CopiesRare, RequestsSound, bridgeVars, limiterVars, dialogVars
<1> QED
  BY <1>1, ReceiveThread, DispatchThread, AskThread, SaveThread, OthersThread DEF BridgeNext, ThreadStep

-----------------------------------------------------------------------------
(* One question at a time                                                  *)

Questions == OneWaits /\ OneQuestion

\* A step that starts and ends no wait leaves the question as it is.
LEMMA SameQuestion ==
    ASSUME Questions, UNCHANGED <<pendingFlag, waiting>>,
           \A u \in Threads : /\ thread'[u].st = "waiting" <=> thread[u].st = "waiting"
                              /\ thread'[u].st = "waiting" => /\ thread'[u].dialog = thread[u].dialog
                                                              /\ thread'[u].answer = thread[u].answer
    PROVE  Questions'
BY DEF Questions, OneWaits, OneQuestion

LEMMA QuestionStep ==
    ASSUME ThreadInv, Questions, [BridgeNext]_bridgeVars
    PROVE  Questions'
<1>0. \A u \in Threads : thread[u] \in Request
  BY DEF ThreadInv, Types
<1>1. ASSUME NEW t \in Threads, NEW ok, Finish(t, ok), thread[t].st # "waiting", UNCHANGED <<pendingFlag, waiting>>
      PROVE  Questions'
  <2>1. thread'[t].st = "idle" /\ \A u \in Threads \ {t} : thread'[u] = thread[u]
    BY <1>1 DEF Finish, Set, ThreadInv, Types, Idle
  <2> QED
    BY <1>1, <2>1, SameQuestion
<1>2. ASSUME NEW t \in Threads, NEW kind, NEW i, Receive(t, kind, i)
      PROVE  Questions'
  <2>1. thread[t].st = "idle" /\ thread'[t].st = "limited" /\ \A u \in Threads \ {t} : thread'[u] = thread[u]
    BY <1>2 DEF Receive, Busy, Set, ThreadInv, Types, Idle
  <2> QED
    BY <1>2, <2>1, SameQuestion DEF Receive, dialogVars
<1>3. ASSUME NEW t \in Threads, DispatchRefused(t) \/ AskRefused(t) \/ SaveOk(t) \/ SaveUnseen(t) \/ SaveFails(t)
      PROVE  Questions'
  BY <1>1, <1>3 DEF DispatchRefused, AskRefused, SaveOk, SaveUnseen, SaveFails, dialogVars
<1>4. ASSUME NEW t \in Threads, DispatchQuietly(t) \/ DispatchConfirm(t)
      PROVE  Questions'
  <2>1. /\ thread[t].st = "limited" /\ thread'[t].st \in {"saving", "ask"}
        /\ \A u \in Threads \ {t} : thread'[u] = thread[u]
    <3>1. CASE DispatchQuietly(t)
      <4>1. PICK w : thread' = [thread EXCEPT ![t] = [thread[t] EXCEPT !.st = "saving",
                                                         !.epoch = session.epoch, !.write = w]]
        BY <3>1 DEF DispatchQuietly, Set
      <4>2. thread'[t].st = "saving" /\ \A u \in Threads \ {t} : thread'[u] = thread[u]
        BY <1>0, <4>1 DEF ThreadInv, Types, Request
      <4> QED
        BY <3>1, <4>2 DEF DispatchQuietly
    <3>2. CASE DispatchConfirm(t)
      BY <1>0, <3>2 DEF DispatchConfirm, Set, ThreadInv, Types, Request
    <3> QED
      BY <1>4, <3>1, <3>2
  <2> QED
    BY <1>4, <2>1, SameQuestion DEF DispatchQuietly, DispatchConfirm, dialogVars
<1>5. ASSUME NEW t \in Threads, Ask(t)
      PROVE  Questions'
  <2>1. /\ thread'[t].st = "waiting" /\ thread'[t].dialog = dialogs + 1
        /\ \A u \in Threads \ {t} : thread'[u] = thread[u]
    BY <1>0, <1>5 DEF Ask, Set, ThreadInv, Types, Request
  <2>2. thread'[t].answer = Nil
    <3>1. thread'[t].answer = thread[t].answer
      BY <1>0, <1>5 DEF Ask, Set, ThreadInv, Types, Request
    <3>2. thread[t].answer = Nil
      BY <1>5 DEF Ask, ThreadInv, RequestsSound, Sound
    <3> QED
      BY <3>1, <3>2
  <2>3. \A u \in Threads : thread[u].st # "waiting"
    BY <1>5 DEF Ask, Questions, OneQuestion
  <2> QED
    BY <1>5, <2>1, <2>2, <2>3 DEF Ask, Questions, OneQuestion, OneWaits
<1>6. ASSUME NEW t \in Threads, AskTimesOut(t)
      PROVE  Questions'
  <2>1. /\ thread'[t].st = "waiting" /\ thread[t].st = "waiting"
        /\ \A u \in Threads \ {t} : thread'[u] = thread[u]
    BY <1>0, <1>6 DEF AskTimesOut, Set, ThreadInv, Types, Request
  <2>2. waiting' = Nil
    BY <1>6, <2>1 DEF AskTimesOut, Questions, OneQuestion, OneWaits
  <2> QED
    BY <1>6, <2>1, <2>2 DEF AskTimesOut, Questions, OneQuestion, OneWaits
<1>7. ASSUME NEW t \in Threads, Resume(t)
      PROVE  Questions'
  <2>1. /\ thread'[t].st # "waiting" /\ thread[t].st = "waiting"
        /\ \A u \in Threads \ {t} : thread'[u] = thread[u]
    <3>1. CASE Finish(t, FALSE)
      BY <1>0, <1>7, <3>1 DEF Resume, Finish, Set, Idle, ThreadInv, Types
    <3>2. CASE ~Finish(t, FALSE)
      <4>1. PICK w : thread' = [thread EXCEPT ![t] = [thread[t] EXCEPT !.st = "saving", !.write = w]]
        BY <1>7, <3>2 DEF Resume, Set
      <4>2. thread'[t].st = "saving" /\ \A u \in Threads \ {t} : thread'[u] = thread[u]
        BY <1>0, <4>1 DEF ThreadInv, Types, Request
      <4> QED
        BY <1>7, <4>2 DEF Resume
    <3> QED
      BY <3>1, <3>2
  <2>2. waiting = Nil /\ waiting' = waiting /\ pendingFlag' = FALSE
    BY <1>7, <2>1 DEF Resume, Questions, OneQuestion, OneWaits
  <2> QED
    BY <2>1, <2>2 DEF Questions, OneQuestion, OneWaits
<1>8. ASSUME NEW id, NEW allow, Reply(id, id, allow), waiting' = Nil, UNCHANGED pendingFlag
      PROVE  Questions'
  <2>1. \A u \in Threads : thread'[u].st = thread[u].st
    BY <1>0, <1>8 DEF Reply, Request
  <2> QED
    BY <1>8, <2>1 DEF Questions, OneQuestion, OneWaits
<1>9. CASE Lock
  <2>1. CASE waiting = Nil
    BY <1>9, <2>1, SameQuestion DEF Lock
  <2>2. CASE waiting # Nil
    BY <1>8, <1>9, <2>2 DEF Lock
  <2> QED
    BY <2>1, <2>2
<1>10. ASSUME UNCHANGED <<thread, pendingFlag, waiting>>
       PROVE  Questions'
  BY <1>10, SameQuestion
<1>11. CASE Unlock \/ Tick \/ (\E i \in Logins : Pull(i) \/ OwnerEdits(i)) \/ UNCHANGED bridgeVars
  BY <1>10, <1>11 DEF Unlock, Tick, Pull, OwnerEdits, bridgeVars, dialogVars
<1>12. ASSUME NEW id \in 1 .. MaxDialogs, NEW allow \in BOOLEAN, UserAnswers(id, allow)
       PROVE  Questions'
  BY <1>8, <1>12 DEF UserAnswers
<1> QED
  BY <1>2, <1>3, <1>4, <1>5, <1>6, <1>7, <1>9, <1>11, <1>12 DEF BridgeNext, ThreadStep

-----------------------------------------------------------------------------
(* The limiter's books                                                     *)

\* A step that moves no reservation keeps the books.
LEMMA SameBooks ==
    ASSUME Types, Books, UNCHANGED <<clock, updates, spent>>,
           \A u \in Threads : thread'[u].stamp = thread[u].stamp /\ thread'[u].item = thread[u].item
    PROVE  Books'
BY DEF Books, HeldReservations, SpentReservations, InForceIsOwned, StillCounts, Covers

\* What no longer counts is forgotten, and time makes nothing count again.
LEMMA TickBooks ==
    ASSUME Types, Books, Tick
    PROVE  Books'
<1>1. \A u \in Reservation \cup {Nil} : StillCounts(u)' => StillCounts(u)
  BY DEF StillCounts, Tick, Types, Reservation
<1>2. UNCHANGED <<updates, thread>> /\ spent' \subseteq spent /\ clock' = clock + 1
  BY DEF Tick
<1>3. \A s \in spent : s[2] \in Reservation /\ s[2].at \in Nat
  BY DEF Types, Reservation
<1>4. \A t \in Threads : thread[t].stamp \in Reservation \cup {Nil} /\ thread[t].stamp # Nil => thread[t].stamp.at \in Nat
  BY DEF Types, Request, Reservation
<1>5. \A t \in Threads : thread[t].stamp \in Reservation \cup {Nil}
  BY DEF Types, Request
<1>6. clock \in Nat
  BY DEF Types
<1>7. HeldReservations'
  BY <1>1, <1>2, <1>3, <1>4, <1>5, <1>6 DEF Books, HeldReservations, Covers
<1>8. SpentReservations'
  BY <1>1, <1>2, <1>3, <1>6 DEF Books, SpentReservations, Covers
<1>9. InForceIsOwned'
  <2> SUFFICES ASSUME NEW i \in Logins, StillCounts(updates[i])'
               PROVE  (\/ <<i, updates[i]>> \in spent
                       \/ \E t \in Threads : thread[t].item = i /\ thread[t].stamp = updates[i])'
    BY DEF InForceIsOwned
  <2>1. updates[i] \in Reservation /\ StillCounts(updates[i]) /\ clock + 1 - updates[i].at < Interval
    <3>1. updates[i] \in Reservation \cup {Nil}
      BY DEF Types
    <3>2. StillCounts(updates[i])
      BY <1>1, <1>2, <3>1 DEF StillCounts
    <3>3. clock' - updates'[i].at < Interval
      BY DEF StillCounts
    <3>4. clock + 1 - updates[i].at < Interval
      <4>1. updates'[i] = updates[i] /\ clock' = clock + 1
        BY <1>2
      <4>2. updates[i].at \in Nat
        BY <3>1, <3>2 DEF StillCounts, Reservation
      <4> QED
        BY <1>6, <3>3, <4>1, <4>2
    <3> QED
      BY <3>1, <3>2, <3>4 DEF StillCounts
  <2>2. <<i, updates[i]>> \in spent => <<i, updates[i]>> \in spent'
    BY <2>1 DEF Tick
  <2> QED
    BY <1>2, <2>1, <2>2 DEF Books, InForceIsOwned
<1> QED
  BY <1>7, <1>8, <1>9 DEF Books

\* A reservation is given out where none counts.
LEMMA ReceiveBooks ==
    ASSUME ThreadInv, Books, NEW t \in Threads, NEW kind \in {"login", "sso"}, NEW i \in Logins,
           Receive(t, kind, i)
    PROVE  Books'
<1> DEFINE free == Pruned[i] = Nil
           stamp == [at |-> clock, by |-> t]
<1>1. /\ stamp \in Reservation /\ stamp # Nil /\ stamp.at = clock /\ clock \in Nat
      /\ UNCHANGED <<clock, spent>>
  BY DEF ThreadInv, Types, Reservation, Receive
<1>2. /\ free => thread'[t].stamp = stamp
      /\ ~free => thread'[t].stamp = Nil
      /\ thread'[t].item = i
      /\ \A u \in Threads \ {t} : thread'[u] = thread[u]
  BY DEF Receive, Set, Idle, ThreadInv, Types
<1>3. thread[t].stamp = Nil
  BY DEF Receive, Busy, ThreadInv, RequestsSound, Sound, Idle
<1>4. /\ free => updates' = [Pruned EXCEPT ![i] = stamp]
      /\ ~free => updates' = Pruned
  BY DEF Receive
<1>5. \A j \in Logins : /\ updates[j] \in Reservation \cup {Nil}
                        /\ StillCounts(updates[j]) => Pruned[j] = updates[j]
                        /\ ~StillCounts(updates[j]) => Pruned[j] = Nil
  BY DEF Pruned, ThreadInv, Types
<1>6. \A j \in Logins : updates'[j] = IF free /\ j = i THEN stamp ELSE Pruned[j]
  BY <1>4 DEF Pruned
<1>7. free <=> ~StillCounts(updates[i])
  BY <1>5 DEF StillCounts
<1>8. /\ \A u \in Threads : thread[u].stamp # Nil => thread[u].stamp \in Reservation /\ thread[u].item \in Logins
      /\ \A s \in spent : s[1] \in Logins /\ s[2] \in Reservation
  BY DEF ThreadInv, Types, RequestsSound, Sound, Request, Idle
\* A reservation that is covered and counts is covered by one that counts.
<1>9. ASSUME NEW r \in Reservation, NEW j \in Logins, StillCounts(r), Covers(updates[j], r)
      PROVE  StillCounts(updates[j])
  BY <1>1, <1>5, <1>9 DEF Covers, StillCounts, Reservation
<1>10. ASSUME NEW r \in Reservation, NEW j \in Logins, StillCounts(r), Covers(updates[j], r), r.at <= clock
       PROVE  Covers(updates'[j], r)
  <2>1. Pruned[j] = updates[j]
    BY <1>5, <1>9, <1>10
  <2> QED
    BY <1>1, <1>6, <1>10, <2>1 DEF Covers
<1>11. \A r : StillCounts(r)' <=> StillCounts(r)
  BY <1>1 DEF StillCounts
<1> HIDE DEF free, stamp
<1>12. SpentReservations'
  BY <1>1, <1>8, <1>10, <1>11 DEF Books, SpentReservations
<1>13. InForceIsOwned'
  BY <1>1, <1>2, <1>3, <1>5, <1>6, <1>11 DEF Books, InForceIsOwned, StillCounts
<1>14. HeldReservations'
  <2> SUFFICES ASSUME NEW u \in Threads, thread'[u].stamp # Nil
               PROVE  (/\ thread[u].stamp.at <= clock
                       /\ StillCounts(thread[u].stamp) => Covers(updates[thread[u].item], thread[u].stamp)
                       /\ updates[thread[u].item] = thread[u].stamp =>
                            /\ \A v \in Threads \ {u} : thread[v].stamp # Nil /\ thread[v].item = thread[u].item
                                                          => ~StillCounts(thread[v].stamp)
                            /\ \A s \in spent : s[1] = thread[u].item => ~StillCounts(s[2]))'
    BY DEF HeldReservations
  <2>1. CASE u = t
    <3>1. free /\ thread'[u].stamp = stamp /\ thread'[u].item = i /\ updates'[i] = stamp
      BY <1>2, <1>6, <2>1
    <3>2. ~StillCounts(updates[i])
      BY <1>7, <3>1
    <3>3. \A v \in Threads \ {u} : thread'[v].stamp # Nil /\ thread'[v].item = i
                                     => ~StillCounts(thread'[v].stamp)
      BY <1>2, <1>8, <1>9, <2>1, <3>2 DEF Books, HeldReservations
    <3>4. \A s \in spent : s[1] = i => ~StillCounts(s[2])
      BY <1>8, <1>9, <3>2 DEF Books, SpentReservations
    <3>5. stamp.at <= clock /\ Covers(stamp, stamp)
      BY <1>1 DEF Covers
    <3> QED
      BY <1>1, <1>11, <3>1, <3>3, <3>4, <3>5
  <2>2. CASE u # t
    <3>1. thread'[u] = thread[u] /\ thread[u].stamp # Nil /\ thread[u].stamp \in Reservation /\ thread[u].item \in Logins
      BY <1>2, <1>8, <2>2
    <3>2. /\ thread[u].stamp.at <= clock
          /\ StillCounts(thread[u].stamp) => Covers(updates'[thread[u].item], thread[u].stamp)
      BY <1>10, <3>1 DEF Books, HeldReservations
    <3>3. ASSUME updates'[thread[u].item] = thread[u].stamp
          PROVE  /\ \A v \in Threads \ {u} : thread'[v].stamp # Nil /\ thread'[v].item = thread[u].item
                                               => ~StillCounts(thread'[v].stamp)
                 /\ \A s \in spent : s[1] = thread[u].item => ~StillCounts(s[2])
      <4>1. ~(free /\ thread[u].item = i)
        <5>1. thread[u].stamp.by = u
          BY <3>1 DEF ThreadInv, RequestsSound, Sound
        <5>2. stamp.by = t
          BY DEF stamp
        <5> QED
          BY <1>6, <2>2, <3>1, <3>3, <5>1, <5>2
      <4>2. updates[thread[u].item] = thread[u].stamp
        BY <1>5, <1>6, <3>1, <3>3, <4>1
      <4>3. thread'[t].stamp # Nil => thread'[t].item # thread[u].item
        BY <1>2, <4>1
      <4> QED
        BY <1>2, <3>1, <4>2, <4>3 DEF Books, HeldReservations
    <3> QED
      BY <1>1, <1>11, <3>1, <3>2, <3>3
  <2> QED
    BY <2>1, <2>2
<1> QED
  BY <1>12, <1>13, <1>14 DEF Books

\* A request that ends returns its own reservation, or spends it.
LEMMA FinishBooks ==
    ASSUME ThreadInv, Books, NEW t \in Threads, thread[t].st # "idle", NEW ok \in BOOLEAN,
           Finish(t, ok), UNCHANGED clock
    PROVE  Books'
<1> DEFINE record == [at |-> clock, by |-> t]
<1>1. PICK i \in Logins : i = thread[t].item
  BY DEF ThreadInv, RequestsSound, Sound
<1>2. PICK stamp \in Reservation \cup {Nil} : stamp = thread[t].stamp
  BY DEF ThreadInv, Types, Request
<1>3. /\ record \in Reservation /\ record # Nil /\ record.at = clock /\ clock \in Nat /\ record.by = t
      /\ StillCounts(record)
  BY DEF ThreadInv, Types, Reservation, StillCounts
<1>4. thread'[t].stamp = Nil /\ \A u \in Threads \ {t} : thread'[u] = thread[u]
  BY DEF Finish, Set, Idle, ThreadInv, Types
<1>5. /\ \A u \in Threads : thread[u].stamp # Nil => /\ thread[u].stamp \in Reservation /\ thread[u].item \in Logins
                                                     /\ thread[u].stamp.by = u /\ thread[u].stamp.at \in Nat
      /\ \A s \in spent : s[1] \in Logins /\ s[2] \in Reservation /\ s[2].at \in Nat
      /\ \A j \in Logins : updates[j] \in Reservation \cup {Nil}
  BY DEF ThreadInv, Types, RequestsSound, Sound, Request, Idle, Reservation
<1>6. \A r : StillCounts(r)' <=> StillCounts(r)
  BY DEF StillCounts
<1>7. ASSUME ~ok
      PROVE  Books'
  <2>1. /\ spent' = spent
        /\ \/ updates' = updates /\ (stamp # Nil => updates[i] # stamp)
           \/ stamp # Nil /\ updates[i] = stamp /\ updates' = [updates EXCEPT ![i] = Nil]
    <3>1. updates' = IF stamp # Nil THEN ReleaseItemUpdate(i, stamp) ELSE updates
      BY <1>1, <1>2, <1>7 DEF Finish
    <3>2. spent' = spent
      BY <1>7 DEF Finish
    <3> QED
      BY <3>1, <3>2 DEF ReleaseItemUpdate
  <2>2. CASE updates' = updates /\ (stamp # Nil => updates[i] # stamp)
    <3>1. HeldReservations'
      BY <1>4, <1>6, <2>1, <2>2 DEF Books, HeldReservations
    <3>2. SpentReservations'
      BY <1>6, <2>1, <2>2 DEF Books, SpentReservations
    <3>3. InForceIsOwned'
      <4> SUFFICES ASSUME NEW j \in Logins, StillCounts(updates[j])
                   PROVE  (\/ <<j, updates[j]>> \in spent
                           \/ \E u \in Threads : thread[u].item = j /\ thread[u].stamp = updates[j])'
        BY <1>6, <2>2 DEF InForceIsOwned
      <4>1. ~(thread[t].item = j /\ thread[t].stamp = updates[j])
        BY <1>1, <1>2, <2>2 DEF StillCounts
      <4> QED
        BY <1>4, <2>1, <2>2, <4>1 DEF Books, InForceIsOwned
    <3> QED
      BY <3>1, <3>2, <3>3 DEF Books
  <2>3. CASE stamp # Nil /\ updates[i] = stamp /\ updates' = [updates EXCEPT ![i] = Nil]
    <3>1. /\ \A j \in Logins \ {i} : updates'[j] = updates[j]
          /\ updates'[i] = Nil
      BY <2>3 DEF ThreadInv, Types
    <3>2. /\ \A u \in Threads \ {t} : thread[u].stamp # Nil /\ thread[u].item = i => ~StillCounts(thread[u].stamp)
          /\ \A s \in spent : s[1] = i => ~StillCounts(s[2])
      BY <1>1, <1>2, <2>3 DEF Books, HeldReservations
    <3>3. HeldReservations'
      <4> SUFFICES ASSUME NEW u \in Threads \ {t}, thread[u].stamp # Nil
                   PROVE  /\ thread[u].stamp.at <= clock
                          /\ StillCounts(thread[u].stamp) => Covers(updates'[thread[u].item], thread[u].stamp)
                          /\ updates'[thread[u].item] = thread[u].stamp =>
                               /\ \A v \in Threads \ {u} : thread'[v].stamp # Nil /\ thread'[v].item = thread[u].item
                                                             => ~StillCounts(thread'[v].stamp)
                               /\ \A s \in spent : s[1] = thread[u].item => ~StillCounts(s[2])
        BY <1>4, <1>6, <2>1 DEF HeldReservations
      <4>1. CASE thread[u].item = i
        BY <3>1, <3>2, <4>1 DEF Books, HeldReservations
      <4>2. CASE thread[u].item # i
        BY <1>4, <1>5, <3>1, <4>2 DEF Books, HeldReservations
      <4> QED
        BY <4>1, <4>2
    <3>4. SpentReservations'
      BY <1>5, <1>6, <2>1, <3>1, <3>2 DEF Books, SpentReservations
    <3>5. InForceIsOwned'
      <4> SUFFICES ASSUME NEW j \in Logins, StillCounts(updates'[j])
                   PROVE  (\/ <<j, updates[j]>> \in spent
                           \/ \E u \in Threads : thread[u].item = j /\ thread[u].stamp = updates[j])'
        BY <1>6 DEF InForceIsOwned
      <4>1. j # i /\ updates'[j] = updates[j] /\ thread[t].item # j
        BY <1>1, <3>1 DEF StillCounts
      <4> QED
        BY <1>4, <2>1, <4>1 DEF Books, InForceIsOwned
    <3> QED
      BY <3>3, <3>4, <3>5 DEF Books
  <2> QED
    BY <2>1, <2>2, <2>3
<1>8. ASSUME ok, thread[t].cooling
      PROVE  Books'
  <2>1. updates' = [updates EXCEPT ![i] = record] /\ spent' = spent \cup {<<i, record>>}
    BY <1>1, <1>2, <1>8 DEF Finish
  <2>2. /\ \A j \in Logins \ {i} : updates'[j] = updates[j]
        /\ updates'[i] = record
    BY <2>1 DEF ThreadInv, Types
  <2> HIDE DEF record
  <2>3. ASSUME NEW r \in Reservation, NEW j \in Logins, Covers(updates[j], r), r.at <= clock
        PROVE  Covers(updates'[j], r)
    BY <1>3, <2>2, <2>3 DEF Covers
  <2>4. HeldReservations'
    <3> SUFFICES ASSUME NEW u \in Threads \ {t}, thread[u].stamp # Nil
                 PROVE  /\ thread[u].stamp.at <= clock
                        /\ StillCounts(thread[u].stamp) => Covers(updates'[thread[u].item], thread[u].stamp)
                        /\ updates'[thread[u].item] = thread[u].stamp =>
                             /\ \A v \in Threads \ {u} : thread'[v].stamp # Nil /\ thread'[v].item = thread[u].item
                                                           => ~StillCounts(thread'[v].stamp)
                             /\ \A s \in spent' : s[1] = thread[u].item => ~StillCounts(s[2])
      BY <1>4, <1>6 DEF HeldReservations
    <3>1. /\ thread[u].stamp.at <= clock
          /\ StillCounts(thread[u].stamp) => Covers(updates'[thread[u].item], thread[u].stamp)
      BY <1>5, <2>3 DEF Books, HeldReservations
    <3>2. ASSUME updates'[thread[u].item] = thread[u].stamp
          PROVE  /\ \A v \in Threads \ {u} : thread'[v].stamp # Nil /\ thread'[v].item = thread[u].item
                                               => ~StillCounts(thread'[v].stamp)
                 /\ \A s \in spent' : s[1] = thread[u].item => ~StillCounts(s[2])
      <4>1. thread[u].item # i
        BY <1>3, <1>5, <2>2, <3>2
      <4>2. updates[thread[u].item] = thread[u].stamp
        BY <1>5, <2>2, <3>2, <4>1
      <4>3. \A s \in spent' : s[1] = thread[u].item => s \in spent
        BY <2>1, <4>1
      <4> QED
        BY <1>4, <4>2, <4>3 DEF Books, HeldReservations
    <3> QED
      BY <3>1, <3>2
  <2>5. SpentReservations'
    <3>1. ASSUME NEW s \in spent
          PROVE  s[2].at <= clock /\ (StillCounts(s[2]) => Covers(updates'[s[1]], s[2]))
      BY <1>5, <2>3 DEF Books, SpentReservations
    <3>2. record.at <= clock /\ Covers(updates'[i], record)
      BY <1>3, <2>2 DEF Covers
    <3> QED
      BY <1>6, <2>1, <3>1, <3>2 DEF SpentReservations
  <2>6. InForceIsOwned'
    <3> SUFFICES ASSUME NEW j \in Logins, StillCounts(updates'[j])
                 PROVE  (\/ <<j, updates[j]>> \in spent
                         \/ \E u \in Threads : thread[u].item = j /\ thread[u].stamp = updates[j])'
      BY <1>6 DEF InForceIsOwned
    <3>1. CASE j = i
      BY <2>1, <2>2, <3>1
    <3>2. CASE j # i
      BY <1>1, <1>4, <2>1, <2>2, <3>2 DEF Books, InForceIsOwned
    <3> QED
      BY <3>1, <3>2
  <2> QED
    BY <2>4, <2>5, <2>6 DEF Books
<1>9. ASSUME ok, ~thread[t].cooling
      PROVE  Books'
  <2>1. updates' = updates /\ spent' = spent \cup {<<i, stamp>>} /\ stamp # Nil
    BY <1>1, <1>2, <1>9 DEF Finish, ThreadInv, RequestsSound, Sound
  <2>2. /\ stamp \in Reservation /\ stamp.by = t /\ stamp.at <= clock
        /\ StillCounts(stamp) => Covers(updates[i], stamp)
    BY <1>1, <1>2, <1>5, <2>1 DEF Books, HeldReservations
  <2>3. ASSUME NEW u \in Threads \ {t}, thread[u].stamp # Nil, updates[thread[u].item] = thread[u].stamp
        PROVE  \A s \in spent' : s[1] = thread[u].item => ~StillCounts(s[2])
    <3>1. i = thread[u].item => ~StillCounts(stamp)
      BY <1>1, <1>2, <2>1, <2>3 DEF Books, HeldReservations
    <3>2. \A s \in spent : s[1] = thread[u].item => ~StillCounts(s[2])
      BY <2>3 DEF Books, HeldReservations
    <3> QED
      BY <2>1, <3>1, <3>2
  <2>4. HeldReservations'
    BY <1>4, <1>6, <2>1, <2>3 DEF Books, HeldReservations
  <2>5. SpentReservations'
    BY <1>6, <2>1, <2>2 DEF Books, SpentReservations
  <2>6. InForceIsOwned'
    BY <1>1, <1>2, <1>4, <1>6, <2>1 DEF Books, InForceIsOwned
  <2> QED
    BY <2>4, <2>5, <2>6 DEF Books
<1> QED
  BY <1>7, <1>8, <1>9

LEMMA BooksStep ==
    ASSUME ThreadInv, Books, [BridgeNext]_bridgeVars
    PROVE  Books'
<1>0. Types /\ \A u \in Threads : thread[u] \in Request
  BY DEF ThreadInv, Types
<1>1. ASSUME NEW t \in Threads, DispatchRefused(t) \/ AskRefused(t) \/ SaveOk(t) \/ SaveUnseen(t) \/ SaveFails(t)
      PROVE  Books'
  BY <1>1, FinishBooks DEF DispatchRefused, AskRefused, SaveOk, SaveUnseen, SaveFails
\* A request that goes on keeps its item and its reservation.
<1>2. ASSUME NEW t \in Threads, NEW k, Set(t, k), k.stamp = thread[t].stamp, k.item = thread[t].item,
             UNCHANGED <<clock, updates, spent>>
      PROVE  Books'
  <2>1. \A u \in Threads : thread'[u].stamp = thread[u].stamp /\ thread'[u].item = thread[u].item
    BY <1>0, <1>2 DEF Set, Types
  <2> QED
    BY <1>0, <1>2, <2>1, SameBooks
<1>3. ASSUME NEW t \in Threads, DispatchQuietly(t)
      PROVE  Books'
  <2>1. PICK w : Set(t, [thread[t] EXCEPT !.st = "saving", !.epoch = session.epoch, !.write = w])
    BY <1>3 DEF DispatchQuietly
  <2> DEFINE k == [thread[t] EXCEPT !.st = "saving", !.epoch = session.epoch, !.write = w]
  <2>2. k.stamp = thread[t].stamp /\ k.item = thread[t].item
    BY <1>0 DEF Request
  <2> QED
    BY <1>2, <1>3, <2>1, <2>2 DEF DispatchQuietly, limiterVars
<1>4. ASSUME NEW t \in Threads, DispatchConfirm(t)
      PROVE  Books'
  <2> DEFINE k == [thread[t] EXCEPT !.st = "ask", !.epoch = session.epoch]
  <2>1. k.stamp = thread[t].stamp /\ k.item = thread[t].item
    BY <1>0 DEF Request
  <2> QED
    BY <1>2, <1>4, <2>1 DEF DispatchConfirm, limiterVars
<1>5. ASSUME NEW t \in Threads, Ask(t)
      PROVE  Books'
  <2> DEFINE k == [thread[t] EXCEPT !.st = "waiting", !.dialog = dialogs + 1]
  <2>1. k.stamp = thread[t].stamp /\ k.item = thread[t].item
    BY <1>0 DEF Request
  <2> QED
    BY <1>2, <1>5, <2>1 DEF Ask, limiterVars
<1>6. ASSUME NEW t \in Threads, AskTimesOut(t)
      PROVE  Books'
  <2> DEFINE k == [thread[t] EXCEPT !.answer = NoAnswer]
  <2>1. k.stamp = thread[t].stamp /\ k.item = thread[t].item
    BY <1>0 DEF Request
  <2> QED
    BY <1>2, <1>6, <2>1 DEF AskTimesOut, limiterVars
<1>7. ASSUME NEW t \in Threads, Resume(t)
      PROVE  Books'
  <2>1. CASE Finish(t, FALSE)
    BY <1>7, <2>1, FinishBooks DEF Resume
  <2>2. CASE ~Finish(t, FALSE)
    <3>1. PICK w : Set(t, [thread[t] EXCEPT !.st = "saving", !.write = w])
      BY <1>7, <2>2 DEF Resume
    <3> DEFINE k == [thread[t] EXCEPT !.st = "saving", !.write = w]
    <3>2. k.stamp = thread[t].stamp /\ k.item = thread[t].item
      BY <1>0 DEF Request
    <3> QED
      BY <1>2, <1>7, <2>2, <3>1, <3>2 DEF Resume
  <2> QED
    BY <2>1, <2>2
<1>8. ASSUME NEW id, NEW from, NEW allow, Reply(id, from, allow), UNCHANGED <<clock, updates, spent>>
      PROVE  Books'
  <2>1. \A u \in Threads : thread'[u].stamp = thread[u].stamp /\ thread'[u].item = thread[u].item
    BY <1>0, <1>8 DEF Reply, Request
  <2> QED
    BY <1>0, <1>8, <2>1, SameBooks
<1>9. ASSUME UNCHANGED <<thread, clock, updates, spent>>
      PROVE  Books'
  BY <1>0, <1>9, SameBooks
<1>10. ASSUME NEW id \in 1 .. MaxDialogs, NEW allow \in BOOLEAN, UserAnswers(id, allow)
       PROVE  Books'
  BY <1>8, <1>10 DEF UserAnswers, limiterVars
<1>11. CASE Lock
  BY <1>8, <1>9, <1>11 DEF Lock, limiterVars
<1>12. CASE Unlock \/ (\E i \in Logins : Pull(i) \/ OwnerEdits(i)) \/ UNCHANGED bridgeVars
  BY <1>9, <1>12 DEF Unlock, Pull, OwnerEdits, bridgeVars, limiterVars
<1>13. CASE Tick
  BY <1>0, <1>13, TickBooks
<1> QED
  BY <1>1, <1>3, <1>4, <1>5, <1>6, <1>7, <1>10, <1>11, <1>12, <1>13, ReceiveBooks DEF BridgeNext, ThreadStep

-----------------------------------------------------------------------------
(* The theorem                                                             *)

LEMMA BridgeInvInit == BridgeInit => BridgeInv
<1> SUFFICES ASSUME BridgeInit
             PROVE  BridgeInv
  OBVIOUS
<1>1. NoVersion \in Version /\ Rare(NoVersion.hist)
  BY DEF NoVersion, Version, Rare
<1>2. Types /\ CopiesRare
  BY <1>1, IdleSound DEF BridgeInit, Types, CopiesRare
<1>3. RequestsSound
  BY IdleSound DEF BridgeInit, RequestsSound
<1>4. Books
  BY DEF BridgeInit, Books, HeldReservations, SpentReservations, InForceIsOwned, StillCounts, Idle
<1>5. OneWaits /\ OneQuestion
  BY DEF BridgeInit, OneWaits, OneQuestion, Idle
<1> QED
  BY <1>2, <1>3, <1>4, <1>5 DEF BridgeInv

LEMMA BridgeInvariance == BridgeSpec => []BridgeInv
<1>1. BridgeInv /\ [BridgeNext]_bridgeVars => BridgeInv'
  BY ThreadStepInv, QuestionStep, BooksStep DEF BridgeInv, ThreadInv, Questions
<1> QED
  BY <1>1, BridgeInvInit, PTL DEF BridgeSpec

\* Whatever requests end in whatever order, and whatever the owner, the clock,
\* a lock or another device does meanwhile: quiet changes are rare, the
\* limiter's books balance, a change that needed the owner has the owner's
\* Allow, and the question slots are given back (bridge server.rs,
\* ratelimit.rs, confirm_then_stage).
THEOREM ChangesAreWatchedHolds == BridgeSpec => []ChangesAreWatched
<1>1. BridgeInv => ChangesAreWatched
  <2> SUFFICES ASSUME BridgeInv
               PROVE  ChangesAreWatched
    OBVIOUS
  <2>1. QuietChangesAreRare
    BY DEF BridgeInv, CopiesRare, Rare, QuietChangesAreRare
  <2>2. ReservationsBalance
    <3>1. ASSUME NEW s \in spent, StillCounts(s[2])
          PROVE  StillCounts(updates[s[1]])
      <4>1. Covers(updates[s[1]], s[2])
        BY <3>1 DEF BridgeInv, Books, SpentReservations
      <4>2. s[2] \in Reservation /\ updates[s[1]] \in Reservation \cup {Nil} /\ clock \in Nat
        BY DEF BridgeInv, Types
      <4> QED
        BY <3>1, <4>1, <4>2 DEF Covers, StillCounts, Reservation
    <3> QED
      BY <3>1 DEF BridgeInv, Books, InForceIsOwned, ReservationsBalance
  <2>3. ChangesAreAgreed
    BY DEF BridgeInv, RequestsSound, Sound, ChangesAreAgreed
  <2>4. OneQuestion
    BY DEF BridgeInv
  <2> QED
    BY <2>1, <2>2, <2>3, <2>4 DEF ChangesAreWatched
<1> QED
  BY <1>1, BridgeInvariance, PTL

-----------------------------------------------------------------------------
(* Passkeys: the inductive invariant                                        *)

PkKey == [cred : Nat \ {0}, acct : Accounts, replaced : BOOLEAN]
PkKeys == PkKey \cup {Foreign}
PkLogin == [rev : Nat, user : Accounts \cup {NoOne}, keys : SUBSET PkKeys]
PkWrite(w) == /\ w.item \in LoginIds /\ w.base \in Nat /\ w.cred \in Nat
              /\ w.user \in Accounts \cup {NoOne} /\ w.keys \in SUBSET PkKeys
PkAnswer == [acct : Accounts, cred : Nat \ {0}, at : Nat]

\* The types, without the bounds.
PkTyped ==
    /\ logins \in [DOMAIN logins -> PkLogin] /\ DOMAIN logins \subseteq LoginIds
    /\ (\A w \in staged : PkWrite(w)) /\ creds \in Nat
    /\ answered \subseteq PkAnswer
    /\ site \in [Accounts -> [cred : Nat, at : Nat]]
    /\ known \in [Accounts -> SUBSET (Nat \ {0})]
    /\ saves \in [Accounts -> Nat]

\* What a write still on top of its login makes of it: a passkey more, or none
\* of those whose successor the site named.
AddsPasskey(w, keys) ==
    /\ w.cred # 0
    /\ w.keys = WithNew(keys, w.acct, w.cred) /\ w.full = Full(keys, w.acct)
DropsPasskeys(w, keys) ==
    /\ w.cred = 0 /\ w.keys \subseteq keys
    /\ \A p \in keys \ w.keys :
         p.replaced /\ \E q \in keys, a \in Accounts : /\ ~q.replaced /\ q.acct = p.acct
                                                       /\ q.cred \in known[a]

\* A write was made on a revision the login had, and still fits it there.
WritesFit ==
    \A w \in staged :
      /\ w.base <= RevAt(w.item)
      /\ w.base = RevAt(w.item) => AddsPasskey(w, KeysAt(w.item)) \/ DropsPasskeys(w, KeysAt(w.item))
      /\ w.cred # 0 => w.cred <= creds /\ w.acct \in Accounts

\* The passkey of a create on its way is in no login, and known to no one.
WritesFresh ==
    \A w \in staged : w.cred # 0 =>
      /\ \A i \in DOMAIN logins : \A p \in KeysOf(i) : p.cred # w.cred
      /\ \A r \in answered : r.cred # w.cred
      /\ \A a \in Accounts : site[a].cred # w.cred /\ w.cred \notin known[a]
      /\ \A v \in staged : v.cred = w.cred => v = w

\* A ledger of the saved passkeys: whose they are, and which save it was.
Ledgers == [Nat -> [acct : Accounts \cup {NoOne}, at : Nat]]

\* Every passkey here, given out or known to the site is in the ledger; in one
\* login a replaced one was saved before the one that replaced it.
Recorded(b) ==
    /\ \A i \in DOMAIN logins : \A p \in KeysOf(i) : p # Foreign =>
         p.cred <= creds /\ b[p.cred].acct = p.acct /\ b[p.cred].at <= saves[p.acct]
    /\ \A i \in DOMAIN logins : \A p, q \in KeysOf(i) :
         p.replaced /\ ~q.replaced /\ p.acct = q.acct => b[p.cred].at < b[q.cred].at
    /\ \A r \in answered : r.cred <= creds /\ b[r.cred].acct = r.acct /\ b[r.cred].at = r.at
                           /\ r.at <= saves[r.acct]
    /\ \A a \in Accounts :
         /\ site[a].at <= saves[a]
         /\ site[a].cred # 0 => /\ site[a].cred <= creds
                                /\ b[site[a].cred].acct = a /\ b[site[a].cred].at = site[a].at
         /\ \A c \in known[a] : c <= creds /\ b[c].acct = a /\ b[c].at <= site[a].at

\* The passkey c of account a that was save n is here if at most one save
\* followed, and unmarked if none did.
Stands(a, c, n) ==
    saves[a] <= n + 1 => \E i \in DOMAIN logins : \E p \in KeysOf(i) :
                           p.cred = c /\ p.acct = a /\ (saves[a] = n => ~p.replaced)

\* So is the newest one the site accepted, and each one it may accept as such.
AllStand ==
    /\ \A a \in Accounts : site[a].cred # 0 => Stands(a, site[a].cred, site[a].at)
    /\ \A r \in answered : r.at > site[r.acct].at => Stands(r.acct, r.cred, r.at)

KeysInv == PkTyped /\ WritesFit /\ WritesFresh /\ AllStand /\ \E b \in Ledgers : Recorded(b)

-----------------------------------------------------------------------------
(* What a create makes of a login's passkeys                                *)

LEMMA WithNewHolds ==
    ASSUME NEW keys \in SUBSET PkKeys, NEW a \in Accounts, NEW c \in Nat \ {0}
    PROVE  /\ WithNew(keys, a, c) \subseteq PkKeys
           /\ NewKey(a, c) \in WithNew(keys, a, c)
           /\ \A p \in keys : p.acct # a => p \in WithNew(keys, a, c)
           /\ \A p \in keys : p.acct = a /\ ~p.replaced /\ ~Full(keys, a) =>
                \E q \in WithNew(keys, a, c) : q.cred = p.cred /\ q.acct = a
           /\ \A p \in WithNew(keys, a, c) :
                \/ p = NewKey(a, c)
                \/ p \in keys /\ p.acct # a
                \/ p.acct = a /\ p.replaced /\ \E q \in keys : q.cred = p.cred /\ q.acct = a
<1> DEFINE new == WithNew(keys, a, c)
<1>1. \A p \in keys : p.acct # a => p \in Kept(keys, a) /\ Marked(p, a) = p
  BY DEF Kept, NotReplaced, Marked
<1>2. ASSUME NEW p \in keys, p.acct = a
      PROVE  /\ p \in PkKey /\ Marked(p, a) \in PkKey /\ Marked(p, a).cred = p.cred
             /\ Marked(p, a).acct = a /\ Marked(p, a).replaced
  <2>1. p \in PkKey
    BY <1>2, PkAssumption DEF PkKeys, Foreign
  <2>2. Marked(p, a) = [p EXCEPT !.replaced = TRUE]
    BY <1>2 DEF Marked
  <2> QED
    BY <1>2, <2>1, <2>2 DEF PkKey
<1>3. NewKey(a, c) \in PkKey
  BY DEF NewKey, PkKey
<1>4. Kept(keys, a) \subseteq keys
  BY DEF Kept, NotReplaced
<1>5. \A p \in keys : p.acct = a /\ ~p.replaced /\ ~Full(keys, a) => p \in Kept(keys, a)
  BY DEF Kept, NotReplaced
<1>6. \A p : p \in new <=> p = NewKey(a, c) \/ \E q \in Kept(keys, a) : p = Marked(q, a)
  BY DEF WithNew
<1> HIDE DEF new
<1>7. new \subseteq PkKeys
  BY <1>1, <1>2, <1>3, <1>4, <1>6 DEF PkKeys
<1>8. \A p \in new :
        \/ p = NewKey(a, c)
        \/ p \in keys /\ p.acct # a
        \/ p.acct = a /\ p.replaced /\ \E q \in keys : q.cred = p.cred /\ q.acct = a
  BY <1>1, <1>2, <1>4, <1>6
<1>9. /\ NewKey(a, c) \in new
      /\ \A p \in keys : p.acct # a => p \in new
      /\ \A p \in keys : p.acct = a /\ ~p.replaced /\ ~Full(keys, a) =>
                \E q \in new : q.cred = p.cred /\ q.acct = a
  BY <1>1, <1>2, <1>5, <1>6
<1> QED
  BY <1>7, <1>8, <1>9 DEF new

LEMMA KeysAtTyped ==
    ASSUME PkTyped, NEW i
    PROVE  KeysAt(i) \in SUBSET PkKeys /\ RevAt(i) \in Nat
           /\ (i \in DOMAIN logins => KeysAt(i) = KeysOf(i) /\ RevAt(i) = logins[i].rev)
BY DEF PkTyped, PkLogin, KeysAt, RevAt, KeysOf

\* A write that is dropped, or joins the others, leaves the rest as it is.
LEMMA QuietKeys ==
    ASSUME KeysInv, UNCHANGED <<logins, answered, site, known, saves>>, creds' \in Nat, creds' >= creds,
           \A w \in staged' : PkWrite(w), WritesFit', WritesFresh'
    PROVE  KeysInv'
<1>1. PkTyped'
  BY DEF KeysInv, PkTyped
<1>2. AllStand'
  BY DEF KeysInv, AllStand, Stands, KeysOf
<1>3. ASSUME NEW b \in Ledgers, Recorded(b)
      PROVE  Recorded(b)'
  <2>1. \A n \in Nat : n <= creds => n <= creds'
    BY DEF KeysInv, PkTyped
  <2>2. \A i \in DOMAIN logins : \A p \in KeysOf(i) : p # Foreign => p.cred \in Nat
    BY DEF KeysInv, PkTyped, PkLogin, PkKeys, PkKey, KeysOf
  <2>3. \A r \in answered : r.cred \in Nat
    BY DEF KeysInv, PkTyped, PkAnswer
  <2>4. \A a \in Accounts : site[a].cred \in Nat /\ known[a] \subseteq Nat
    BY DEF KeysInv, PkTyped
  <2> QED
    BY <1>3, <2>1, <2>2, <2>3, <2>4 DEF Recorded, KeysOf
<1> QED
  BY <1>1, <1>2, <1>3 DEF KeysInv

\* A create that is staged.
LEMMA StageKeys ==
    ASSUME KeysInv, NEW a \in Accounts, NEW chosen, NEW conditional, StageCreateFor(a, chosen, conditional)
    PROVE  KeysInv'
<1>1. PICK i \in Homes(a, chosen) :
        /\ creds' = creds + 1
        /\ staged' = staged \cup
             {[item |-> i, base |-> RevAt(i), acct |-> a, cred |-> creds + 1,
               user |-> IF i \in DOMAIN logins THEN logins[i].user ELSE a,
               full |-> Full(KeysAt(i), a), keys |-> WithNew(KeysAt(i), a, creds + 1)]}
        /\ UNCHANGED <<logins, answered, site, known, saves>>
  BY DEF StageCreateFor
<1> DEFINE u == IF i \in DOMAIN logins THEN logins[i].user ELSE a
           f == Full(KeysAt(i), a)
           new == [item |-> i, base |-> RevAt(i), acct |-> a, cred |-> creds + 1,
                   user |-> u, full |-> f, keys |-> WithNew(KeysAt(i), a, creds + 1)]
<1>2. PkTyped /\ creds \in Nat /\ creds + 1 \in Nat \ {0} /\ creds' \in Nat /\ creds' >= creds
  BY <1>1 DEF KeysInv, PkTyped
<1>3. i \in LoginIds
  BY <1>2 DEF Homes, FindPasskeyHolders, LoginIds, PkTyped
<1>4. KeysAt(i) \in SUBSET PkKeys /\ RevAt(i) \in Nat
  BY <1>2, KeysAtTyped
<1>5. WithNew(KeysAt(i), a, creds + 1) \subseteq PkKeys
  BY <1>2, <1>4, WithNewHolds
<1>6. u \in Accounts \cup {NoOne}
  BY <1>2 DEF PkTyped, PkLogin
<1>8. /\ new.item = i /\ new.base = RevAt(i) /\ new.acct = a /\ new.cred = creds + 1
      /\ new.keys = WithNew(KeysAt(i), a, creds + 1) /\ new.full = Full(KeysAt(i), a) /\ new.user = u
  OBVIOUS
<1> HIDE DEF u, f
<1>9. PkWrite(new)
  BY <1>2, <1>3, <1>4, <1>5, <1>6, <1>8 DEF PkWrite
<1>10. staged' = staged \cup {new}
  BY <1>1 DEF u, f
<1> HIDE DEF new
<1>11. \A j : RevAt(j)' = RevAt(j) /\ KeysAt(j)' = KeysAt(j)
  BY <1>1 DEF RevAt, KeysAt
<1>12. WritesFit'
  <2>1. ASSUME NEW w \in staged
        PROVE  /\ w.base <= RevAt(w.item)
               /\ w.base = RevAt(w.item) => AddsPasskey(w, KeysAt(w.item)) \/ DropsPasskeys(w, KeysAt(w.item))'
               /\ w.cred # 0 => w.cred <= creds' /\ w.acct \in Accounts
    <3>1. w.cred \in Nat
      BY <1>2 DEF PkTyped, PkWrite
    <3>2. DropsPasskeys(w, KeysAt(w.item)) => DropsPasskeys(w, KeysAt(w.item))'
      BY <1>1, <1>11 DEF DropsPasskeys
    <3> QED
      BY <1>1, <1>2, <3>1, <3>2 DEF KeysInv, WritesFit
  <2>2. new.base <= RevAt(new.item) /\ AddsPasskey(new, KeysAt(new.item)) /\ new.cred <= creds'
    BY <1>1, <1>2, <1>4, <1>8 DEF AddsPasskey
  <2> QED
    BY <1>8, <1>10, <1>11, <2>1, <2>2 DEF WritesFit, AddsPasskey
<1>13. WritesFresh'
  <2>1. PICK b \in Ledgers : Recorded(b)
    BY DEF KeysInv
  <2>2. \A j \in DOMAIN logins : \A p \in KeysOf(j) : p.cred \in Nat /\ p.cred <= creds
    <3> TAKE j \in DOMAIN logins
    <3> TAKE p \in KeysOf(j)
    <3>1. CASE p = Foreign
      BY <1>2, <3>1 DEF Foreign
    <3>2. CASE p # Foreign
      BY <1>2, <2>1, <3>2 DEF Recorded, PkTyped, PkLogin, PkKeys, PkKey, KeysOf
    <3> QED
      BY <3>1, <3>2
  <2>3. \A r \in answered : r.cred \in Nat /\ r.cred <= creds
    BY <1>2, <2>1 DEF Recorded, PkTyped, PkAnswer
  <2>4. \A c \in Accounts : /\ site[c].cred \in Nat /\ site[c].cred <= creds
                            /\ \A k \in known[c] : k \in Nat /\ k <= creds
    BY <1>2, <2>1 DEF Recorded, PkTyped
  <2>5. \A w \in staged : w.cred \in Nat /\ w.cred <= creds
    BY <1>2 DEF KeysInv, WritesFit, PkTyped, PkWrite
  <2>6. /\ \A j \in DOMAIN logins : \A p \in KeysOf(j) : p.cred # creds + 1
        /\ \A r \in answered : r.cred # creds + 1
        /\ \A c \in Accounts : site[c].cred # creds + 1 /\ creds + 1 \notin known[c]
        /\ \A w \in staged : w.cred # creds + 1
    BY <1>2, <2>2, <2>3, <2>4, <2>5
  <2>7. \A j : KeysOf(j)' = KeysOf(j)
    BY <1>1 DEF KeysOf
  <2>8. DOMAIN logins' = DOMAIN logins /\ answered' = answered /\ site' = site /\ known' = known
    BY <1>1
  <2> QED
    BY <1>8, <1>10, <2>6, <2>7, <2>8 DEF KeysInv, WritesFresh
<1> QED
  BY <1>1, <1>2, <1>9, <1>10, <1>12, <1>13, QuietKeys DEF PkTyped

LEMMA DropKeys ==
    ASSUME KeysInv, NEW a \in Accounts, NEW allow \in SUBSET known[a], DropReplaced(allow)
    PROVE  KeysInv'
<1>1. PICK i \in DOMAIN logins :
        /\ staged' = staged \cup {[item |-> i, base |-> logins[i].rev, acct |-> NoOne,
                                   cred |-> 0, user |-> logins[i].user, full |-> FALSE,
                                   keys |-> {p \in logins[i].keys : ~Proven(logins[i].keys, p, allow)}]}
        /\ UNCHANGED <<logins, creds, answered, site, known, saves>>
  BY DEF DropReplaced
<1> DEFINE left == {p \in logins[i].keys : ~Proven(logins[i].keys, p, allow)}
           new == [item |-> i, base |-> logins[i].rev, acct |-> NoOne, cred |-> 0,
                   user |-> logins[i].user, full |-> FALSE, keys |-> left]
<1>2. PkTyped /\ logins[i] \in PkLogin /\ i \in LoginIds
  BY DEF KeysInv, PkTyped
<1>3. left \subseteq KeysAt(i) /\ KeysAt(i) = logins[i].keys /\ RevAt(i) = logins[i].rev
  BY DEF KeysAt, RevAt
<1>4. \A p \in KeysAt(i) \ left :
         p.replaced /\ \E q \in KeysAt(i), c \in Accounts : /\ ~q.replaced /\ q.acct = p.acct
                                                            /\ q.cred \in known[c]
  BY <1>3 DEF Proven
<1>5. new.item = i /\ new.base = RevAt(i) /\ new.cred = 0 /\ new.keys = left
  BY <1>3
<1>6. left \subseteq PkKeys
  BY <1>2 DEF PkLogin
<1> HIDE DEF left
<1>7. PkWrite(new)
  BY <1>2, <1>5, <1>6 DEF PkWrite, PkLogin
<1>8. staged' = staged \cup {new}
  BY <1>1 DEF left
<1> HIDE DEF new
<1>9. \A j : RevAt(j)' = RevAt(j) /\ KeysAt(j)' = KeysAt(j) /\ KeysOf(j)' = KeysOf(j)
  BY <1>1 DEF RevAt, KeysAt, KeysOf
<1>10. DropsPasskeys(new, KeysAt(i)) /\ RevAt(i) \in Nat
  BY <1>2, <1>3, <1>4, <1>5 DEF DropsPasskeys, PkLogin
<1>11. WritesFit'
  BY <1>1, <1>5, <1>8, <1>9, <1>10 DEF KeysInv, WritesFit, DropsPasskeys, AddsPasskey
<1>12. WritesFresh'
  BY <1>1, <1>5, <1>8, <1>9 DEF KeysInv, WritesFresh
<1> QED
  BY <1>1, <1>2, <1>7, <1>8, <1>11, <1>12, QuietKeys DEF PkTyped

LEMMA FailKeys ==
    ASSUME KeysInv, NEW w \in staged, SaveCreateFails(w)
    PROVE  KeysInv'
<1>1. staged' = staged \ {w} /\ UNCHANGED <<logins, creds, answered, site, known, saves>>
  BY DEF SaveCreateFails
<1>2. \A j : RevAt(j)' = RevAt(j) /\ KeysAt(j)' = KeysAt(j) /\ KeysOf(j)' = KeysOf(j)
  BY <1>1 DEF RevAt, KeysAt, KeysOf
<1>3. WritesFit'
  BY <1>1, <1>2 DEF KeysInv, WritesFit, DropsPasskeys, AddsPasskey
<1>4. WritesFresh'
  BY <1>1, <1>2 DEF KeysInv, WritesFresh
<1> QED
  BY <1>1, <1>3, <1>4, QuietKeys DEF KeysInv, PkTyped

\* The site takes or rejects a passkey it was given.
LEMMA SiteKeys ==
    ASSUME KeysInv, NEW r \in answered, SiteAccepts(r) \/ SiteRejects(r)
    PROVE  KeysInv'
<1>1. /\ answered' = answered \ {r} /\ UNCHANGED <<logins, staged, creds, saves>>
      /\ r.acct \in Accounts /\ r.cred \in Nat \ {0} /\ r.at \in Nat
  BY DEF SiteAccepts, SiteRejects, KeysInv, PkTyped, PkAnswer
<1>2. \A j : RevAt(j)' = RevAt(j) /\ KeysAt(j)' = KeysAt(j) /\ KeysOf(j)' = KeysOf(j)
  BY <1>1 DEF RevAt, KeysAt, KeysOf
<1>3. \A a, c, n : Stands(a, c, n)' <=> Stands(a, c, n)
  BY <1>1, <1>2 DEF Stands
<1>4. CASE SiteRejects(r)
  <2>1. site' = site /\ known' = known
    BY <1>4 DEF SiteRejects
  <2>2. PkTyped'
    BY <1>1, <2>1 DEF KeysInv, PkTyped
  <2>3. WritesFit'
    BY <1>1, <1>2, <2>1 DEF KeysInv, WritesFit, DropsPasskeys, AddsPasskey
  <2>4. WritesFresh'
    BY <1>1, <1>2, <2>1 DEF KeysInv, WritesFresh
  <2>5. AllStand'
    BY <1>1, <1>3, <2>1 DEF KeysInv, AllStand
  <2>6. ASSUME NEW b \in Ledgers, Recorded(b) PROVE Recorded(b)'
    BY <1>1, <1>2, <2>1, <2>6 DEF Recorded
  <2> QED
    BY <2>2, <2>3, <2>4, <2>5, <2>6 DEF KeysInv
<1>5. CASE SiteAccepts(r)
  <2> DEFINE a == r.acct
             now2 == IF site[a].at < r.at THEN [cred |-> r.cred, at |-> r.at] ELSE site[a]
  <2>1. site' = [site EXCEPT ![a] = now2] /\ known' = [known EXCEPT ![a] = @ \cup {r.cred}]
    BY <1>5 DEF SiteAccepts
  <2>2. PkTyped /\ site[a] \in [cred : Nat, at : Nat] /\ saves[a] \in Nat
    BY <1>1 DEF KeysInv, PkTyped
  <2>3. now2 \in [cred : Nat, at : Nat] /\ r.at <= now2.at /\ site[a].at <= now2.at
        /\ (now2 = site[a] \/ (site[a].at < r.at /\ now2.cred = r.cred /\ now2.at = r.at))
    BY <1>1, <2>2
  <2> HIDE DEF now2
  <2>4. site'[a] = now2 /\ (\A c \in Accounts : c # a => site'[c] = site[c])
        /\ known'[a] = known[a] \cup {r.cred} /\ (\A c \in Accounts : c # a => known'[c] = known[c])
    BY <1>1, <2>1, <2>2 DEF PkTyped
  <2>5. PkTyped'
    <3>1. answered' \subseteq PkAnswer /\ site' \in [Accounts -> [cred : Nat, at : Nat]]
      BY <1>1, <2>1, <2>2, <2>3 DEF PkTyped
    <3>2. known' \in [Accounts -> SUBSET (Nat \ {0})]
      BY <1>1, <2>1, <2>2 DEF PkTyped
    <3> QED
      BY <1>1, <2>2, <3>1, <3>2 DEF PkTyped
  <2>6. \A c \in Accounts : known[c] \subseteq known'[c]
    BY <2>4
  <2>7. WritesFit'
    BY <1>1, <1>2, <2>6 DEF KeysInv, WritesFit, DropsPasskeys, AddsPasskey
  <2>8. WritesFresh'
    BY <1>1, <1>2, <2>3, <2>4 DEF KeysInv, WritesFresh
  <2>9. AllStand'
    <3>1. ASSUME NEW c \in Accounts, site'[c].cred # 0
          PROVE  Stands(c, site'[c].cred, site'[c].at)
      BY <1>1, <2>2, <2>3, <2>4, <3>1 DEF KeysInv, AllStand
    <3>2. ASSUME NEW q \in answered', q.at > site'[q.acct].at
          PROVE  Stands(q.acct, q.cred, q.at)
      <4>1. q \in answered /\ q.acct \in Accounts /\ q.at \in Nat
        BY <1>1, <2>2 DEF PkTyped, PkAnswer
      <4>2. q.at > site[q.acct].at
        BY <1>1, <2>2, <2>3, <2>4, <3>2, <4>1
      <4> QED
        BY <4>1, <4>2 DEF KeysInv, AllStand
    <3> QED
      BY <1>3, <3>1, <3>2 DEF AllStand
  <2>10. ASSUME NEW b \in Ledgers, Recorded(b) PROVE Recorded(b)'
    <3>1. r.cred <= creds /\ b[r.cred].acct = a /\ b[r.cred].at = r.at /\ r.at <= saves[a]
      BY <2>10 DEF Recorded
    <3>2. ASSUME NEW c \in Accounts
          PROVE  /\ site'[c].at <= saves[c]
                 /\ site'[c].cred # 0 => /\ site'[c].cred <= creds
                                         /\ b[site'[c].cred].acct = c /\ b[site'[c].cred].at = site'[c].at
                 /\ \A k \in known'[c] : k <= creds /\ b[k].acct = c /\ b[k].at <= site'[c].at
      <4>1. CASE c # a
        BY <2>4, <2>10, <4>1 DEF Recorded
      <4>2. CASE c = a
        <5>1. site'[c].at <= saves[c]
          BY <2>3, <2>4, <2>10, <3>1, <4>2 DEF Recorded
        <5>2. site'[c].cred # 0 => /\ site'[c].cred <= creds
                                   /\ b[site'[c].cred].acct = c /\ b[site'[c].cred].at = site'[c].at
          BY <2>3, <2>4, <2>10, <3>1, <4>2 DEF Recorded
        <5>3. ASSUME NEW k \in known[c] PROVE k <= creds /\ b[k].acct = c /\ b[k].at <= site'[c].at
          <6>1. k <= creds /\ b[k].acct = c /\ b[k].at <= site[c].at
            BY <2>10 DEF Recorded
          <6>2. b[k].at \in Nat
            BY <2>2 DEF PkTyped, Ledgers
          <6> QED
            BY <2>2, <2>3, <2>4, <4>2, <6>1, <6>2
        <5> QED
          BY <2>3, <2>4, <3>1, <4>2, <5>1, <5>2, <5>3
      <4> QED
        BY <4>1, <4>2
    <3> QED
      BY <1>1, <1>2, <2>10, <3>2 DEF Recorded
  <2> QED
    BY <2>5, <2>7, <2>8, <2>9, <2>10 DEF KeysInv
<1> QED
  BY <1>4, <1>5

\* A step that gives one login a new revision refuses every other write on it,
\* and disturbs none on another.
LEMMA OneLogin ==
    ASSUME KeysInv, NEW i \in LoginIds, NEW new \in PkLogin, new.rev > RevAt(i),
           logins' = [j \in DOMAIN logins \cup {i} |-> IF j = i THEN new ELSE logins[j]],
           staged' \subseteq staged, UNCHANGED <<creds, site, known>>,
           \A w \in staged' : w.cred # 0 => /\ \A p \in new.keys : p.cred # w.cred
                                            /\ \A r \in answered' : r.cred # w.cred
    PROVE  /\ logins' \in [DOMAIN logins' -> PkLogin] /\ DOMAIN logins' = DOMAIN logins \cup {i}
           /\ DOMAIN logins' \subseteq LoginIds
           /\ KeysOf(i)' = new.keys /\ \A j \in DOMAIN logins : j # i => KeysOf(j)' = KeysOf(j)
           /\ WritesFit' /\ WritesFresh'
<1>1. PkTyped
  BY DEF KeysInv
<1>2. /\ logins' \in [DOMAIN logins' -> PkLogin] /\ DOMAIN logins' = DOMAIN logins \cup {i}
      /\ DOMAIN logins' \subseteq LoginIds
  BY <1>1 DEF PkTyped
<1>3. logins'[i] = new /\ \A j \in DOMAIN logins : j # i => logins'[j] = logins[j]
  OBVIOUS
<1>4. KeysOf(i)' = new.keys /\ \A j \in DOMAIN logins : j # i => KeysOf(j)' = KeysOf(j)
  BY <1>3 DEF KeysOf
<1>5. RevAt(i)' = new.rev /\ \A j : j # i => RevAt(j)' = RevAt(j) /\ KeysAt(j)' = KeysAt(j)
  BY <1>2, <1>3 DEF RevAt, KeysAt
<1>6. WritesFit'
  <2> SUFFICES ASSUME NEW w \in staged'
               PROVE  /\ w.base <= RevAt(w.item)'
                      /\ w.base = RevAt(w.item)' =>
                           AddsPasskey(w, KeysAt(w.item)') \/ DropsPasskeys(w, KeysAt(w.item))'
                      /\ w.cred # 0 => w.cred <= creds' /\ w.acct \in Accounts
    BY DEF WritesFit, AddsPasskey
  <2>1. w \in staged /\ w.base \in Nat /\ new.rev \in Nat /\ RevAt(i) \in Nat
    BY <1>1, KeysAtTyped DEF PkTyped, PkWrite, PkLogin
  <2>2. /\ w.base <= RevAt(w.item)
        /\ w.base = RevAt(w.item) => AddsPasskey(w, KeysAt(w.item)) \/ DropsPasskeys(w, KeysAt(w.item))
        /\ w.cred # 0 => w.cred <= creds /\ w.acct \in Accounts
    BY <2>1 DEF KeysInv, WritesFit
  <2>3. CASE w.item = i
    BY <1>5, <2>1, <2>2, <2>3
  <2>4. CASE w.item # i
    BY <1>5, <2>2, <2>4 DEF DropsPasskeys
  <2> QED
    BY <2>3, <2>4
<1>7. WritesFresh'
  <2> SUFFICES ASSUME NEW w \in staged', w.cred # 0
               PROVE  /\ \A j \in DOMAIN logins' : \A p \in KeysOf(j)' : p.cred # w.cred
                      /\ \A r \in answered' : r.cred # w.cred
                      /\ \A a \in Accounts : site'[a].cred # w.cred /\ w.cred \notin known'[a]
                      /\ \A v \in staged' : v.cred = w.cred => v = w
    BY DEF WritesFresh
  <2>1. \A j \in DOMAIN logins : \A p \in KeysOf(j) : p.cred # w.cred
    BY DEF KeysInv, WritesFresh
  <2>2. ASSUME NEW j \in DOMAIN logins', NEW p \in KeysOf(j)' PROVE p.cred # w.cred
    <3>1. CASE j = i
      BY <1>4, <2>2, <3>1
    <3>2. CASE j # i
      BY <1>2, <1>4, <2>1, <2>2, <3>2
    <3> QED
      BY <3>1, <3>2
  <2> QED
    BY <2>2 DEF KeysInv, WritesFresh
<1> QED
  BY <1>2, <1>4, <1>6, <1>7

LEMMA RemoveKeys ==
    ASSUME KeysInv, NEW i \in DOMAIN logins, NEW p \in KeysOf(i), RemovePasskey(i, p)
    PROVE  KeysInv'
<1>1. PkTyped /\ logins[i] \in PkLogin /\ i \in LoginIds
  BY DEF KeysInv, PkTyped
<1>2. p # Foreign /\ p \in PkKey /\ p.acct \in Accounts
  BY <1>1 DEF RemovePasskey, PkLogin, PkKeys, PkKey, KeysOf
<1> DEFINE new == [rev |-> logins[i].rev + 1, user |-> logins[i].user, keys |-> logins[i].keys \ {p}]
<1>3. new \in PkLogin /\ new.rev > RevAt(i) /\ new.keys = KeysOf(i) \ {p}
  BY <1>1 DEF PkLogin, RevAt, KeysOf
<1>4. /\ logins' = [logins EXCEPT ![i] = [rev |-> @.rev + 1, user |-> @.user, keys |-> @.keys \ {p}]]
      /\ saves' = [saves EXCEPT ![p.acct] = @ + 2]
      /\ UNCHANGED <<staged, creds, answered, site, known>>
  BY DEF RemovePasskey
<1>5. logins' = [j \in DOMAIN logins \cup {i} |-> IF j = i THEN new ELSE logins[j]]
  <2>1. DOMAIN logins \cup {i} = DOMAIN logins
    OBVIOUS
  <2>2. logins' = [j \in DOMAIN logins |-> IF j = i THEN new ELSE logins[j]]
    <3>1. logins'[i] = new
      BY <1>1, <1>4 DEF PkTyped
    <3>2. DOMAIN logins' = DOMAIN logins /\ \A j \in DOMAIN logins : j # i => logins'[j] = logins[j]
      BY <1>1, <1>4 DEF PkTyped
    <3>3. logins' = [j \in DOMAIN logins |-> logins'[j]]
      BY <1>1, <1>4 DEF PkTyped
    <3> HIDE DEF new
    <3> QED
      BY <3>1, <3>2, <3>3
  <2> QED
    BY <2>1, <2>2
<1> HIDE DEF new
<1>6. \A w \in staged' : w.cred # 0 => /\ \A q \in new.keys : q.cred # w.cred
                                       /\ \A r \in answered' : r.cred # w.cred
  BY <1>3, <1>4 DEF KeysInv, WritesFresh
<1>7. /\ logins' \in [DOMAIN logins' -> PkLogin] /\ DOMAIN logins' = DOMAIN logins \cup {i}
      /\ DOMAIN logins' \subseteq LoginIds
      /\ KeysOf(i)' = new.keys /\ \A j \in DOMAIN logins : j # i => KeysOf(j)' = KeysOf(j)
      /\ WritesFit' /\ WritesFresh'
  BY <1>1, <1>3, <1>4, <1>5, <1>6, OneLogin
<1>8. /\ saves' \in [Accounts -> Nat] /\ saves'[p.acct] = saves[p.acct] + 2
      /\ \A a \in Accounts : saves[a] \in Nat /\ saves[a] <= saves'[a] /\ (a # p.acct => saves'[a] = saves[a])
  BY <1>1, <1>2, <1>4 DEF PkTyped
<1>9. PkTyped'
  BY <1>1, <1>4, <1>7, <1>8 DEF PkTyped
<1>10. \A j \in DOMAIN logins' : j \in DOMAIN logins /\ KeysOf(j)' \subseteq KeysOf(j)
  BY <1>3, <1>7
<1>11. ASSUME NEW a \in Accounts, NEW c, NEW n \in Nat, n <= saves[a], Stands(a, c, n)
       PROVE  Stands(a, c, n)'
  <2>1. CASE a = p.acct
    BY <1>8, <1>11, <2>1 DEF Stands
  <2>2. CASE a # p.acct
    <3> SUFFICES ASSUME saves'[a] <= n + 1
                 PROVE  \E j \in DOMAIN logins' : \E q \in KeysOf(j)' :
                          q.cred = c /\ q.acct = a /\ (saves'[a] = n => ~q.replaced)
      BY DEF Stands
    <3>1. PICK j \in DOMAIN logins : \E q \in KeysOf(j) :
                q.cred = c /\ q.acct = a /\ (saves[a] = n => ~q.replaced)
      BY <1>8, <1>11, <2>2 DEF Stands
    <3>2. PICK q \in KeysOf(j) : q.cred = c /\ q.acct = a /\ (saves[a] = n => ~q.replaced)
      BY <3>1
    <3>3. j \in DOMAIN logins' /\ q \in KeysOf(j)'
      BY <1>3, <1>7, <2>2, <3>2
    <3> QED
      BY <1>8, <2>2, <3>2, <3>3
  <2> QED
    BY <2>1, <2>2
<1>12. PICK b \in Ledgers : Recorded(b)
  BY DEF KeysInv
<1>13. AllStand'
  <2>1. \A a \in Accounts : site[a].at \in Nat /\ site[a].at <= saves[a]
    BY <1>1, <1>12 DEF Recorded, PkTyped
  <2>2. \A r \in answered : r.acct \in Accounts /\ r.at \in Nat /\ r.at <= saves[r.acct]
    BY <1>1, <1>12 DEF Recorded, PkTyped, PkAnswer
  <2> QED
    BY <1>4, <1>11, <2>1, <2>2 DEF KeysInv, AllStand
<1>14. Recorded(b)'
  <2>1. ASSUME NEW j \in DOMAIN logins', NEW q \in KeysOf(j)', q # Foreign
        PROVE  q.cred <= creds /\ b[q.cred].acct = q.acct /\ b[q.cred].at <= saves'[q.acct]
    <3>1. j \in DOMAIN logins /\ q \in KeysOf(j)
      BY <1>10, <2>1
    <3>2. q.acct \in Accounts /\ b[q.cred].at \in Nat
      <4>1. q \in PkKey
        BY <1>1, <2>1, <3>1 DEF PkTyped, PkLogin, PkKeys, KeysOf
      <4> QED
        BY <4>1 DEF PkKey, Ledgers
    <3> QED
      BY <1>8, <1>12, <2>1, <3>1, <3>2 DEF Recorded
  <2>2. \A j \in DOMAIN logins' : \A q, u \in KeysOf(j)' :
          q.replaced /\ ~u.replaced /\ q.acct = u.acct => b[q.cred].at < b[u.cred].at
    BY <1>10, <1>12 DEF Recorded
  <2>3. \A r \in answered : r.at <= saves'[r.acct]
    BY <1>1, <1>8, <1>12 DEF Recorded, PkTyped, PkAnswer
  <2>4. \A a \in Accounts : site[a].at <= saves'[a]
    BY <1>1, <1>8, <1>12 DEF Recorded, PkTyped
  <2> QED
    BY <1>4, <1>12, <2>1, <2>2, <2>3, <2>4 DEF Recorded
<1> QED
  BY <1>7, <1>9, <1>12, <1>13, <1>14 DEF KeysInv

\* What every write that is saved does to its login.
LEMMA SavedLogin ==
    ASSUME KeysInv, NEW w \in staged, NEW lost \in BOOLEAN, SaveCreate(w, lost),
           w.keys \in SUBSET PkKeys,
           \A v \in staged' : v.cred # 0 => /\ \A p \in w.keys : p.cred # v.cred
                                            /\ \A r \in answered' : r.cred # v.cred
    PROVE  /\ logins' \in [DOMAIN logins' -> PkLogin] /\ DOMAIN logins' = DOMAIN logins \cup {w.item}
           /\ DOMAIN logins' \subseteq LoginIds
           /\ KeysOf(w.item)' = w.keys /\ \A j \in DOMAIN logins : j # w.item => KeysOf(j)' = KeysOf(j)
           /\ WritesFit' /\ WritesFresh'
<1> DEFINE new == [rev |-> w.base + 1, user |-> w.user, keys |-> w.keys]
<1>1. PkTyped /\ PkWrite(w)
  BY DEF KeysInv, PkTyped
<1>2. new \in PkLogin /\ new.keys = w.keys /\ new.rev = w.base + 1
  BY <1>1 DEF PkLogin, PkWrite
<1>3. /\ w.base = RevAt(w.item) /\ staged' \subseteq staged /\ UNCHANGED <<creds, site, known>>
      /\ logins' = [j \in DOMAIN logins \cup {w.item} |-> IF j = w.item THEN new ELSE logins[j]]
  BY DEF SaveCreate
<1>4. new.rev > RevAt(w.item) /\ w.item \in LoginIds
  BY <1>1, <1>2, <1>3 DEF PkWrite
<1> HIDE DEF new
<1> QED
  BY <1>2, <1>3, <1>4, OneLogin

\* A write that drops passkeys takes none that the site may rely on.
LEMMA SaveDropKeys ==
    ASSUME KeysInv, NEW w \in staged, NEW lost \in BOOLEAN, SaveCreate(w, lost), w.cred = 0
    PROVE  KeysInv'
<1>1. PkTyped /\ PkWrite(w) /\ w.base = RevAt(w.item)
  BY DEF KeysInv, PkTyped, SaveCreate
<1>2. DropsPasskeys(w, KeysAt(w.item))
  BY <1>1 DEF KeysInv, WritesFit, AddsPasskey
<1>3. UNCHANGED <<creds, answered, site, known, saves>> /\ staged' = staged \ {w}
  BY DEF SaveCreate
<1>4. w.keys \in SUBSET PkKeys /\ w.item \in LoginIds
  BY <1>1 DEF PkWrite
<1>5. \A p \in w.keys : w.item \in DOMAIN logins /\ p \in KeysOf(w.item)
  BY <1>2 DEF DropsPasskeys, KeysAt, KeysOf
<1>6. \A v \in staged' : v.cred # 0 => /\ \A p \in w.keys : p.cred # v.cred
                                       /\ \A r \in answered' : r.cred # v.cred
  BY <1>3, <1>5 DEF KeysInv, WritesFresh
<1>7. /\ logins' \in [DOMAIN logins' -> PkLogin] /\ DOMAIN logins' = DOMAIN logins \cup {w.item}
      /\ DOMAIN logins' \subseteq LoginIds
      /\ KeysOf(w.item)' = w.keys /\ \A j \in DOMAIN logins : j # w.item => KeysOf(j)' = KeysOf(j)
      /\ WritesFit' /\ WritesFresh'
  BY <1>4, <1>6, SavedLogin
<1>8. PkTyped'
  BY <1>1, <1>3, <1>7 DEF PkTyped
<1>9. \A j \in DOMAIN logins' : \A p \in KeysOf(j)' : j \in DOMAIN logins /\ p \in KeysOf(j)
  BY <1>5, <1>7
<1>10. PICK b \in Ledgers : Recorded(b)
  BY DEF KeysInv
<1>11. Recorded(b)'
  BY <1>3, <1>9, <1>10 DEF Recorded
<1>12. ASSUME NEW a \in Accounts, NEW c \in Nat \ {0}, NEW n \in Nat, b[c].acct = a, b[c].at = n,
              n >= site[a].at, Stands(a, c, n)
       PROVE  Stands(a, c, n)'
  <2> SUFFICES ASSUME saves[a] <= n + 1
               PROVE  \E j \in DOMAIN logins' : \E p \in KeysOf(j)' :
                        p.cred = c /\ p.acct = a /\ (saves[a] = n => ~p.replaced)
    BY <1>3 DEF Stands
  <2>1. PICK j \in DOMAIN logins : \E p \in KeysOf(j) :
               p.cred = c /\ p.acct = a /\ (saves[a] = n => ~p.replaced)
    BY <1>12 DEF Stands
  <2>2. PICK p \in KeysOf(j) : p.cred = c /\ p.acct = a /\ (saves[a] = n => ~p.replaced)
    BY <2>1
  <2>3. CASE j # w.item
    BY <1>7, <2>2, <2>3
  <2>4. CASE j = w.item /\ p \in w.keys
    BY <1>7, <2>2, <2>4
  <2>5. CASE j = w.item /\ p \notin w.keys
    <3>1. KeysAt(w.item) = KeysOf(j)
      BY <2>5 DEF KeysAt, KeysOf
    <3>2. PICK q \in KeysOf(j), e \in Accounts : ~q.replaced /\ q.acct = p.acct /\ q.cred \in known[e]
      BY <1>2, <2>5, <3>1 DEF DropsPasskeys
    <3>3. p.replaced /\ b[p.cred].at < b[q.cred].at
      BY <1>2, <1>10, <2>5, <3>1, <3>2 DEF DropsPasskeys, Recorded
    <3>4. q # Foreign
      BY <2>2, <3>2, PkAssumption DEF Foreign
    <3>5. e = a
      BY <1>10, <2>2, <3>2, <3>4 DEF Recorded
    <3>6. b[q.cred].at <= site[a].at
      BY <1>10, <3>2, <3>5 DEF Recorded
    <3>7. b[q.cred].at \in Nat /\ site[a].at \in Nat
      BY <1>1, <3>2, <3>5 DEF Ledgers, PkTyped
    <3> QED
      BY <1>12, <2>2, <3>3, <3>6, <3>7
  <2> QED
    BY <2>3, <2>4, <2>5
<1>13. AllStand'
  <2>1. ASSUME NEW a \in Accounts, site[a].cred # 0 PROVE Stands(a, site[a].cred, site[a].at)'
    <3>1. site[a].cred \in Nat \ {0} /\ site[a].at \in Nat
      BY <1>1, <2>1 DEF PkTyped
    <3>2. b[site[a].cred].acct = a /\ b[site[a].cred].at = site[a].at /\ Stands(a, site[a].cred, site[a].at)
      BY <1>10, <2>1 DEF Recorded, KeysInv, AllStand
    <3> HIDE DEF Stands
    <3> DEFINE c == site[a].cred
               n == site[a].at
    <3>3. c \in Nat \ {0} /\ n \in Nat /\ b[c].acct = a /\ b[c].at = n /\ Stands(a, c, n) /\ n >= site[a].at
      BY <3>1, <3>2
    <3>4. c' = c /\ n' = n
      BY <1>3
    <3> HIDE DEF c, n
    <3>5. \A x \in Nat \ {0}, y \in Nat : b[x].acct = a /\ b[x].at = y /\ y >= site[a].at /\ Stands(a, x, y)
                                           => Stands(a, x, y)'
      BY <1>12
    <3>6. saves'[a] <= n + 1 => \E j \in DOMAIN logins' : \E p \in KeysOf(j)' :
                                  p.cred = c /\ p.acct = a /\ (saves'[a] = n => ~p.replaced)
      BY <3>3, <3>5 DEF Stands
    <3> QED
      BY <3>4, <3>6 DEF Stands, c, n
  <2>2. ASSUME NEW r \in answered, r.at > site[r.acct].at PROVE Stands(r.acct, r.cred, r.at)'
    <3>1. r.acct \in Accounts /\ r.cred \in Nat \ {0} /\ r.at \in Nat /\ site[r.acct].at \in Nat
      BY <1>1 DEF PkTyped, PkAnswer
    <3>2. b[r.cred].acct = r.acct /\ b[r.cred].at = r.at /\ Stands(r.acct, r.cred, r.at)
      BY <1>10, <2>2 DEF Recorded, KeysInv, AllStand
    <3> QED
      BY <1>12, <2>2, <3>1, <3>2
  <2> QED
    BY <1>3, <2>1, <2>2 DEF AllStand
<1> QED
  BY <1>7, <1>8, <1>10, <1>11, <1>13 DEF KeysInv

\* A create that is saved marks the account's passkey before it, and no other.
LEMMA SaveAddKeys ==
    ASSUME KeysInv, NEW w \in staged, NEW lost \in BOOLEAN, SaveCreate(w, lost), w.cred # 0
    PROVE  KeysInv'
<1> DEFINE a == w.acct
           c == w.cred
           L == w.item
           r0 == [acct |-> a, cred |-> c, at |-> saves'[a]]
<1>1. PkTyped /\ PkWrite(w) /\ w.base = RevAt(L) /\ c <= creds /\ a \in Accounts
  BY DEF KeysInv, PkTyped, SaveCreate, WritesFit
<1>2. c \in Nat \ {0} /\ L \in LoginIds /\ creds \in Nat
  BY <1>1 DEF PkWrite, PkTyped
<1>3. w.keys = WithNew(KeysAt(L), a, c) /\ w.full = Full(KeysAt(L), a)
  BY <1>1 DEF KeysInv, WritesFit, AddsPasskey, DropsPasskeys
<1>4. KeysAt(L) \in SUBSET PkKeys /\ (L \in DOMAIN logins => KeysAt(L) = KeysOf(L))
      /\ (L \notin DOMAIN logins => KeysAt(L) = {})
  BY <1>1, KeysAtTyped DEF KeysAt
<1>5. /\ w.keys \subseteq PkKeys
      /\ NewKey(a, c) \in w.keys
      /\ \A p \in KeysAt(L) : p.acct # a => p \in w.keys
      /\ \A p \in KeysAt(L) : p.acct = a /\ ~p.replaced /\ ~Full(KeysAt(L), a) =>
           \E q \in w.keys : q.cred = p.cred /\ q.acct = a
      /\ \A p \in w.keys :
           \/ p = NewKey(a, c)
           \/ p \in KeysAt(L) /\ p.acct # a
           \/ p.acct = a /\ p.replaced /\ \E q \in KeysAt(L) : q.cred = p.cred /\ q.acct = a
  BY <1>1, <1>2, <1>3, <1>4, WithNewHolds
<1>6. NewKey(a, c).cred = c /\ NewKey(a, c).acct = a /\ ~NewKey(a, c).replaced /\ NewKey(a, c) # Foreign
  BY <1>2 DEF NewKey, Foreign
<1>7. /\ UNCHANGED <<creds, site, known>> /\ staged' = staged \ {w}
      /\ saves' = [saves EXCEPT ![a] = @ + IF w.full THEN 2 ELSE 1]
      /\ answered' = answered \/ answered' = answered \cup {r0}
  BY DEF SaveCreate
<1>8. /\ saves \in [Accounts -> Nat] /\ saves' \in [Accounts -> Nat]
      /\ saves'[a] = saves[a] + 1 \/ saves'[a] = saves[a] + 2
      /\ Full(KeysAt(L), a) => saves'[a] = saves[a] + 2
      /\ \A e \in Accounts : saves[e] \in Nat /\ (e # a => saves'[e] = saves[e])
  BY <1>1, <1>3, <1>7 DEF PkTyped
<1>9. r0.acct = a /\ r0.cred = c /\ r0.at = saves'[a] /\ r0 \in PkAnswer
  BY <1>1, <1>2, <1>8 DEF PkAnswer
<1>10. \A v \in staged' : v.cred # c
  BY <1>7 DEF KeysInv, WritesFresh
<1>11. /\ \A j \in DOMAIN logins : \A p \in KeysOf(j) : p.cred # c
       /\ \A r \in answered : r.cred # c
       /\ \A e \in Accounts : site[e].cred # c /\ c \notin known[e]
  BY DEF KeysInv, WritesFresh
<1> HIDE DEF a, c, L, r0
<1>12. \A p \in KeysAt(L) : L \in DOMAIN logins /\ p \in KeysOf(L)
  BY <1>4
<1>13. \A v \in staged' : v.cred # 0 => /\ \A p \in w.keys : p.cred # v.cred
                                        /\ \A r \in answered' : r.cred # v.cred
  <2> SUFFICES ASSUME NEW v \in staged', v.cred # 0
               PROVE  (\A p \in w.keys : p.cred # v.cred) /\ (\A r \in answered' : r.cred # v.cred)
    OBVIOUS
  <2>1. v.cred # c /\ v \in staged
    BY <1>7, <1>10
  <2>2. /\ \A j \in DOMAIN logins : \A p \in KeysOf(j) : p.cred # v.cred
        /\ \A r \in answered : r.cred # v.cred
    BY <2>1 DEF KeysInv, WritesFresh
  <2>3. ASSUME NEW p \in w.keys PROVE p.cred # v.cred
    BY <1>5, <1>6, <1>12, <2>1, <2>2
  <2> QED
    BY <1>7, <1>9, <2>1, <2>2, <2>3
<1>14. /\ logins' \in [DOMAIN logins' -> PkLogin] /\ DOMAIN logins' = DOMAIN logins \cup {L}
       /\ DOMAIN logins' \subseteq LoginIds
       /\ KeysOf(L)' = w.keys /\ \A j \in DOMAIN logins : j # L => KeysOf(j)' = KeysOf(j)
       /\ WritesFit' /\ WritesFresh'
  BY <1>5, <1>13, SavedLogin DEF L
<1>15. PkTyped'
  BY <1>1, <1>7, <1>8, <1>9, <1>14 DEF PkTyped
<1>16. PICK b \in Ledgers : Recorded(b)
  BY DEF KeysInv
<1>17. PICK b2 \in Ledgers :
         /\ b2[c].acct = a /\ b2[c].at = saves'[a] /\ \A e \in Nat : e # c => b2[e] = b[e]
         /\ \A e \in Nat : b[e].at \in Nat
  <2> DEFINE d == [b EXCEPT ![c] = [acct |-> a, at |-> saves'[a]]]
  <2>1. /\ d \in Ledgers /\ d[c].acct = a /\ d[c].at = saves'[a] /\ \A e \in Nat : e # c => d[e] = b[e]
        /\ \A e \in Nat : b[e].at \in Nat
    BY <1>1, <1>2, <1>8 DEF Ledgers
  <2> HIDE DEF d
  <2> QED
    BY <2>1
<1>18. ASSUME NEW e \in Accounts, NEW x, NEW n \in Nat, n <= saves[e], Stands(e, x, n)
       PROVE  saves'[e] <= n + 1 => \E j \in DOMAIN logins' : \E p \in KeysOf(j)' :
                                      p.cred = x /\ p.acct = e /\ (saves'[e] = n => ~p.replaced)
  <2> SUFFICES ASSUME saves'[e] <= n + 1
               PROVE  \E j \in DOMAIN logins' : \E p \in KeysOf(j)' :
                        p.cred = x /\ p.acct = e /\ (saves'[e] = n => ~p.replaced)
    OBVIOUS
  <2>1. saves[e] <= n + 1 /\ (e = a => saves[e] = n /\ saves'[e] # n /\ ~Full(KeysAt(L), a))
    BY <1>1, <1>8, <1>18
  <2>2. PICK j \in DOMAIN logins : \E p \in KeysOf(j) :
               p.cred = x /\ p.acct = e /\ (saves[e] = n => ~p.replaced)
    BY <1>18, <2>1 DEF Stands
  <2>3. PICK p \in KeysOf(j) : p.cred = x /\ p.acct = e /\ (saves[e] = n => ~p.replaced)
    BY <2>2
  <2>4. j \in DOMAIN logins'
    BY <1>14
  <2>5. CASE j # L
    BY <1>8, <1>14, <2>1, <2>3, <2>4, <2>5
  <2>6. CASE j = L /\ e # a
    BY <1>4, <1>5, <1>8, <1>14, <2>3, <2>4, <2>6
  <2>7. CASE j = L /\ e = a
    BY <1>4, <1>5, <1>14, <2>1, <2>3, <2>4, <2>7
  <2> QED
    BY <2>5, <2>6, <2>7
<1>19. AllStand'
  <2>1. ASSUME NEW e \in Accounts, site[e].cred # 0
        PROVE  saves'[e] <= site[e].at + 1 => \E j \in DOMAIN logins' : \E p \in KeysOf(j)' :
                 p.cred = site[e].cred /\ p.acct = e /\ (saves'[e] = site[e].at => ~p.replaced)
    <3>1. site[e].at \in Nat /\ site[e].at <= saves[e] /\ Stands(e, site[e].cred, site[e].at)
      BY <1>1, <1>16, <2>1 DEF Recorded, PkTyped, KeysInv, AllStand
    <3> QED
      BY <1>18, <3>1
  <2>2. ASSUME NEW r \in answered, r.at > site[r.acct].at
        PROVE  saves'[r.acct] <= r.at + 1 => \E j \in DOMAIN logins' : \E p \in KeysOf(j)' :
                 p.cred = r.cred /\ p.acct = r.acct /\ (saves'[r.acct] = r.at => ~p.replaced)
    <3>1. r.acct \in Accounts /\ r.at \in Nat /\ r.at <= saves[r.acct] /\ Stands(r.acct, r.cred, r.at)
      BY <1>1, <1>16, <2>2 DEF Recorded, PkTyped, PkAnswer, KeysInv, AllStand
    <3> QED
      BY <1>18, <3>1
  <2>3. \E j \in DOMAIN logins' : \E p \in KeysOf(j)' : p.cred = c /\ p.acct = a /\ ~p.replaced
    BY <1>5, <1>6, <1>14
  <2> QED
    BY <1>7, <1>9, <2>1, <2>2, <2>3 DEF AllStand, Stands
<1>20. Recorded(b2)'
  <2>1. ASSUME NEW j \in DOMAIN logins, NEW p \in KeysOf(j), p # Foreign
        PROVE  /\ p.cred \in Nat /\ p.cred # c /\ p.acct \in Accounts /\ p.cred <= creds
               /\ b2[p.cred].acct = p.acct /\ b2[p.cred].at \in Nat /\ b2[p.cred].at <= saves[p.acct]
               /\ b2[p.cred] = b[p.cred]
    <3>1. p \in PkKey
      BY <1>1, <2>1 DEF PkTyped, PkLogin, PkKeys, KeysOf
    <3>2. p.cred \in Nat /\ p.acct \in Accounts /\ p.cred # c
      BY <1>11, <3>1 DEF PkKey
    <3> QED
      BY <1>16, <1>17, <2>1, <3>2 DEF Recorded
  <2>2. ASSUME NEW j \in DOMAIN logins', NEW p \in KeysOf(j)', p # Foreign
        PROVE  p.cred <= creds /\ b2[p.cred].acct = p.acct /\ b2[p.cred].at <= saves'[p.acct]
    <3>1. CASE j # L
      BY <1>1, <1>8, <1>14, <2>1, <2>2, <3>1
    <3>2. CASE j = L /\ p = NewKey(a, c)
      BY <1>1, <1>6, <1>8, <1>17, <3>2
    <3>3. CASE j = L /\ p \in KeysAt(L) /\ p.acct # a
      BY <1>1, <1>8, <1>12, <2>1, <2>2, <3>3
    <3>4. CASE j = L /\ p.acct = a /\ \E q \in KeysAt(L) : q.cred = p.cred /\ q.acct = a
      <4>1. PICK q \in KeysAt(L) : q.cred = p.cred /\ q.acct = a
        BY <3>4
      <4>2. q # Foreign
        BY <1>1, <4>1, PkAssumption DEF Foreign
      <4> QED
        BY <1>1, <1>8, <1>12, <2>1, <3>4, <4>1, <4>2
    <3> QED
      BY <1>5, <1>14, <2>2, <3>1, <3>2, <3>3, <3>4
  <2>3. ASSUME NEW j \in DOMAIN logins', NEW p \in KeysOf(j)', NEW q \in KeysOf(j)',
               p.replaced, ~q.replaced, p.acct = q.acct
        PROVE  b2[p.cred].at < b2[q.cred].at
    <3>0. ASSUME NEW i \in DOMAIN logins, NEW u \in KeysOf(i), NEW v \in KeysOf(i),
                 u.replaced, ~v.replaced, u.acct = v.acct
          PROVE  b2[u.cred].at < b2[v.cred].at
      <4>1. u # Foreign
        BY <3>0 DEF Foreign
      <4>2. v # Foreign
        BY <2>1, <3>0, <4>1, PkAssumption DEF Foreign
      <4>3. b[u.cred].at < b[v.cred].at
        BY <1>16, <3>0 DEF Recorded
      <4> QED
        BY <2>1, <4>1, <4>2, <4>3
    <3>1. CASE j # L
      BY <1>14, <2>3, <3>0, <3>1
    <3>2. CASE j = L /\ p.acct # a
      <4>1. p \in KeysAt(L) /\ q \in KeysAt(L)
        BY <1>5, <1>6, <1>14, <2>3, <3>2
      <4> QED
        BY <1>12, <2>3, <3>0, <4>1
    <3>3. CASE j = L /\ p.acct = a
      <4>1. q = NewKey(a, c)
        BY <1>5, <1>14, <2>3, <3>3
      <4>2. PICK u \in KeysAt(L) : u.cred = p.cred /\ u.acct = a
        BY <1>5, <1>6, <1>14, <2>3, <3>3
      <4>3. u # Foreign
        BY <1>1, <4>2, PkAssumption DEF Foreign
      <4>4. b2[p.cred].at \in Nat /\ b2[p.cred].at <= saves[a]
        BY <1>12, <2>1, <4>2, <4>3
      <4>5. b2[q.cred].at = saves'[a]
        BY <1>6, <1>17, <4>1
      <4> QED
        BY <1>1, <1>8, <4>4, <4>5
    <3> QED
      BY <3>1, <3>2, <3>3
  <2>4. ASSUME NEW r \in answered'
        PROVE  r.cred <= creds /\ b2[r.cred].acct = r.acct /\ b2[r.cred].at = r.at /\ r.at <= saves'[r.acct]
    <3>1. CASE r \in answered
      <4>1. r.cred \in Nat /\ r.cred # c /\ r.acct \in Accounts /\ r.at \in Nat
        BY <1>1, <1>11, <3>1 DEF PkTyped, PkAnswer
      <4>2. r.cred <= creds /\ b[r.cred].acct = r.acct /\ b[r.cred].at = r.at /\ r.at <= saves[r.acct]
        BY <1>16, <3>1 DEF Recorded
      <4>3. saves[r.acct] <= saves'[r.acct] /\ saves'[r.acct] \in Nat /\ saves[r.acct] \in Nat
        BY <1>1, <1>8, <4>1
      <4> QED
        BY <1>17, <4>1, <4>2, <4>3
    <3>2. CASE r = r0
      <4>1. saves'[a] \in Nat
        BY <1>1, <1>8
      <4> QED
        BY <1>1, <1>9, <1>17, <3>2, <4>1
    <3> QED
      BY <1>7, <3>1, <3>2
  <2>5. ASSUME NEW e \in Accounts
        PROVE  /\ site[e].at <= saves'[e]
               /\ site[e].cred # 0 => /\ site[e].cred <= creds
                                      /\ b2[site[e].cred].acct = e /\ b2[site[e].cred].at = site[e].at
               /\ \A k \in known[e] : k <= creds /\ b2[k].acct = e /\ b2[k].at <= site[e].at
    <3>1. site[e].at \in Nat /\ site[e].cred \in Nat /\ site[e].cred # c /\ saves[e] <= saves'[e]
          /\ saves[e] \in Nat /\ saves'[e] \in Nat
      BY <1>1, <1>8, <1>11 DEF PkTyped
    <3>2. \A k \in known[e] : k \in Nat /\ k # c
      BY <1>1, <1>11 DEF PkTyped
    <3>3. /\ site[e].at <= saves[e]
          /\ site[e].cred # 0 => /\ site[e].cred <= creds
                                 /\ b[site[e].cred].acct = e /\ b[site[e].cred].at = site[e].at
          /\ \A k \in known[e] : k <= creds /\ b[k].acct = e /\ b[k].at <= site[e].at
      BY <1>16 DEF Recorded
    <3> QED
      BY <1>17, <3>1, <3>2, <3>3
  <2> QED
    BY <1>7, <2>2, <2>3, <2>4, <2>5 DEF Recorded
<1>21. b2 \in Ledgers /\ Recorded(b2)'
  BY <1>20
<1> QED
  BY <1>14, <1>15, <1>19, <1>21 DEF KeysInv

\* The steps that leave the logins and the site alone.
LEMMA KeysStay ==
    ASSUME KeysInv, UNCHANGED <<logins, staged, creds, answered, site, known, saves>>
    PROVE  KeysInv'
<1>1. PkTyped'
  BY DEF KeysInv, PkTyped
<1>2. \A j : RevAt(j)' = RevAt(j) /\ KeysAt(j)' = KeysAt(j) /\ KeysOf(j)' = KeysOf(j)
  BY DEF RevAt, KeysAt, KeysOf
<1>3. WritesFit'
  BY <1>2 DEF KeysInv, WritesFit, DropsPasskeys, AddsPasskey
<1>4. WritesFresh'
  BY <1>2 DEF KeysInv, WritesFresh
<1> QED
  BY <1>1, <1>3, <1>4, QuietKeys DEF KeysInv, PkTyped

LEMMA KeysInit == PkInit => KeysInv
<1> SUFFICES ASSUME PkInit PROVE KeysInv
  OBVIOUS
<1>1. /\ logins \in [HomeLogins -> [rev : {1}, user : {NoOne}, keys : {{}, {Foreign}}]]
      /\ staged = {} /\ creds = 0 /\ answered = {}
      /\ site = [a \in Accounts |-> [cred |-> 0, at |-> 0]]
      /\ known = [a \in Accounts |-> {}] /\ saves = [a \in Accounts |-> 0]
  BY DEF PkInit
<1>2. logins \in [DOMAIN logins -> PkLogin] /\ DOMAIN logins \subseteq LoginIds
  <2>1. DOMAIN logins = HomeLogins
    BY <1>1
  <2>2. [rev : {1}, user : {NoOne}, keys : {{}, {Foreign}}] \subseteq PkLogin
    BY DEF PkLogin, PkKeys
  <2>3. HomeLogins \subseteq LoginIds
    BY DEF LoginIds
  <2> QED
    BY <1>1, <2>1, <2>2, <2>3
<1>3. \A i \in DOMAIN logins : \A p \in KeysOf(i) : p = Foreign
  BY <1>1 DEF KeysOf
<1>4. PkTyped
  BY <1>1, <1>2 DEF PkTyped
<1>5. WritesFit /\ WritesFresh
  BY <1>1 DEF WritesFit, WritesFresh
<1>6. AllStand
  BY <1>1 DEF AllStand
<1> DEFINE b == [n \in Nat |-> [acct |-> NoOne, at |-> 0]]
<1>7. b \in Ledgers
  BY DEF Ledgers
<1>8. Recorded(b)
  BY <1>1, <1>3 DEF Recorded, Foreign
<1> QED
  BY <1>4, <1>5, <1>6, <1>7, <1>8 DEF KeysInv

\* The invariant says what WorkingPasskeyKept promises.
LEMMA KeysWork == KeysInv => WorkingPasskeyKept
<1> SUFFICES ASSUME KeysInv, NEW a \in Accounts, site[a].cred # 0, saves[a] <= site[a].at + 1
             PROVE  \E m \in PasskeysFor({site[a].cred}) : AssertFor(m.item, site[a].cred) = a
  BY DEF WorkingPasskeyKept
<1> DEFINE c == site[a].cred
<1>1. PICK i \in DOMAIN logins : \E p \in KeysOf(i) : p.cred = c /\ p.acct = a
  BY DEF KeysInv, AllStand, Stands
<1>2. PICK p \in KeysOf(i) : p.cred = c /\ p.acct = a
  BY <1>1
<1>3. PICK b \in Ledgers : Recorded(b)
  BY DEF KeysInv
<1>4. \A q \in KeysOf(i) : q.cred = c => q.acct = a
  <2> SUFFICES ASSUME NEW q \in KeysOf(i), q.cred = c PROVE q.acct = a
    OBVIOUS
  <2>1. q # Foreign
    BY DEF Foreign
  <2>2. b[q.cred].acct = q.acct /\ b[c].acct = a
    BY <1>3, <2>1 DEF Recorded
  <2> QED
    BY <2>2
<1> HIDE DEF c
<1>5. (CHOOSE q \in KeysOf(i) : q.cred = c) \in KeysOf(i) /\ (CHOOSE q \in KeysOf(i) : q.cred = c).cred = c
  BY <1>2
<1>6. AssertFor(i, c) = a
  BY <1>2, <1>4, <1>5 DEF AssertFor
<1> DEFINE m == [item |-> i, cred |-> p.cred, replaced |-> p.replaced]
<1>7. m \in PasskeysFor({c}) /\ m.item = i
  BY <1>2 DEF PasskeysFor
<1> HIDE DEF m
<1> QED
  BY <1>6, <1>7 DEF c

-----------------------------------------------------------------------------
(* Fills: a fill of a login was not yet spent by a silent upgrade           *)

\* A set of naturals that is not empty has a least one.
LEMMA LeastNat ==
    ASSUME NEW T \in SUBSET Nat, T # {}
    PROVE  \E x \in T : \A y \in T : x <= y
<1> DEFINE R == OpToRel(<, Nat)
<1>1. \E x \in T : \A y \in T : ~(<<y, x>> \in R)
  BY NatLessThanWellFounded, WFMin
<1>2. \A x, y \in Nat : <<y, x>> \in R <=> y < x
  BY DEF OpToRel
<1> HIDE DEF R
<1>3. PICK x \in T : \A y \in T : ~(<<y, x>> \in R)
  BY <1>1
<1>4. \A y \in T : x \in Nat /\ y \in Nat /\ ~(y < x)
  BY <1>2, <1>3
<1> QED
  BY <1>4

\* So a bounded one has a greatest.
LEMMA GreatestNat ==
    ASSUME NEW T \in SUBSET Nat, T # {}, NEW N \in Nat, \A y \in T : y <= N
    PROVE  \E x \in T : \A y \in T : y <= x
<1> DEFINE U == {n \in Nat : \A y \in T : y <= n}
<1>1. U \in SUBSET Nat /\ U # {}
  OBVIOUS
<1>2. PICK m \in U : \A n \in U : m <= n
  BY <1>1, LeastNat
<1>3. m \in T
  <2> SUFFICES ASSUME m \notin T PROVE FALSE
    OBVIOUS
  <2>1. \A y \in T : y \in Nat /\ y < m
    BY <1>2
  <2>2. m \in Nat /\ m # 0
    <3>1. PICK y \in T : TRUE
      OBVIOUS
    <3>2. m \in Nat /\ y \in Nat /\ y < m
      BY <1>2, <2>1, <3>1
    <3> QED
      BY <3>2
  <2>3. m - 1 \in Nat /\ \A y \in T : y <= m - 1
    BY <2>1, <2>2
  <2>4. m - 1 \in U
    BY <2>3
  <2> QED
    BY <1>2, <2>2, <2>4
<1> QED
  BY <1>2, <1>3

\* Fills are ordered, and a login with a fill was filled more often than it
\* was upgraded silently.
FillInv ==
    /\ filled \in [LoginIds -> Nat] /\ silent \in [LoginIds -> Nat]
    /\ \A f \in fills : f.item \in HomeLogins /\ f.nth \in Nat
    /\ \E n \in Nat : \A f \in fills : f.nth <= n
    /\ \A i \in LoginIds : silent[i] <= filled[i]
    /\ \A f \in fills : silent[f.item] < filled[f.item]

LEMMA FillKeeps ==
    ASSUME FillInv, NEW i \in HomeLogins, Fill(i)
    PROVE  FillInv'
<1> DEFINE kept == {f \in fills : IsRecent(f) /\ f.item # i}
           n == NewestNth(kept)
           made == [item |-> i, at |-> now, nth |-> 1 + n]
           nths == {0} \cup {f.nth : f \in kept}
<1>1. PICK N \in Nat : \A f \in fills : f.nth <= N
  BY DEF FillInv
<1>2. nths \in SUBSET Nat /\ nths # {} /\ \A y \in nths : y <= N
  BY <1>1 DEF FillInv
<1>3. \E x \in nths : \A y \in nths : y <= x
  BY <1>1, <1>2, GreatestNat
<1>4. n = CHOOSE x \in nths : \A y \in nths : x >= y
  BY DEF NewestNth, Max
<1>5. n \in nths /\ \A y \in nths : y <= n
  <2> HIDE DEF nths, n
  <2>1. \A x, y \in nths : y <= x <=> x >= y
    BY <1>2
  <2> QED
    BY <1>3, <1>4, <2>1
<1>6. n \in Nat
  BY <1>2, <1>5
<1>7. \A f \in kept : f \in fills /\ f.item # i /\ f.nth \in Nat /\ f.nth <= n
  BY <1>5 DEF FillInv
<1> HIDE DEF n, nths
<1>8. made.item = i /\ made.nth = n + 1
  BY <1>6
<1>9. \A f \in fills' : f \in kept \/ f = made
  BY DEF Fill, n
<1> HIDE DEF kept, made
<1>10. filled' = [filled EXCEPT ![i] = @ + 1] /\ silent' = silent /\ i \in LoginIds
  BY DEF Fill, LoginIds
<1>11. \A f \in fills' : f.item \in HomeLogins /\ f.nth \in Nat /\ f.nth <= n + 1
  BY <1>6, <1>7, <1>8, <1>9 DEF FillInv
<1>12. filled' \in [LoginIds -> Nat] /\ filled'[i] = filled[i] + 1
       /\ \A j \in LoginIds : j # i => filled'[j] = filled[j]
  BY <1>10 DEF FillInv
<1>13. \A j \in LoginIds : silent[j] \in Nat /\ filled[j] \in Nat /\ silent[j] <= filled[j]
  BY DEF FillInv
<1>14. \A j \in LoginIds : silent'[j] <= filled'[j]
  BY <1>10, <1>12, <1>13
<1>15. \A f \in fills' : silent'[f.item] < filled'[f.item]
  <2> SUFFICES ASSUME NEW f \in fills' PROVE silent'[f.item] < filled'[f.item]
    OBVIOUS
  <2>1. CASE f = made
    BY <1>8, <1>10, <1>12, <1>13, <2>1
  <2>2. CASE f \in kept
    <3>1. f \in fills /\ f.item # i /\ f.item \in LoginIds
      BY <1>7, <2>2 DEF FillInv, LoginIds
    <3>2. silent[f.item] < filled[f.item]
      BY <3>1 DEF FillInv
    <3> QED
      BY <1>10, <1>12, <3>1, <3>2
  <2> QED
    BY <1>9, <2>1, <2>2
<1> QED
  BY <1>6, <1>10, <1>11, <1>12, <1>14, <1>15 DEF FillInv

\* A silent upgrade spends the fill that allowed it.
LEMMA SilentKeeps ==
    ASSUME FillInv, NEW a \in Accounts, CreateSilently(a)
    PROVE  FillInv'
<1> DEFINE homes == WithRoom(HomeLogins)
           found == {f \in fills : IsRecent(f) /\ f.item \in homes /\ SameAccount(f.item, a)}
           last == CHOOSE f \in found : \A g \in found : g.nth <= f.nth
           up == asked[a].upgrade
<1>1. up = UpgradeFor(a, homes) /\ up.how = "auto" /\ StageCreateFor(a, up.item, TRUE)
      /\ FindPasskeyHolders(a) = {}
  BY DEF CreateSilently
<1>2. UpgradeFor(a, homes) = IF found = {} THEN [how |-> "none", item |-> NoOne]
                             ELSE [how |-> IF auto THEN "auto" ELSE "ask", item |-> last.item]
  BY DEF UpgradeFor
<1> HIDE DEF up
<1>3. found # {} /\ up.item = last.item
  BY <1>1, <1>2
<1>4. PICK N \in Nat : \A f \in fills : f.nth <= N
  BY DEF FillInv
<1>5. \E f \in found : \A g \in found : g.nth <= f.nth
  <2> DEFINE T == {f.nth : f \in found}
  <2>1. T \in SUBSET Nat /\ T # {} /\ \A y \in T : y <= N
    BY <1>3, <1>4 DEF FillInv
  <2>2. \E x \in T : \A y \in T : y <= x
    BY <1>4, <2>1, GreatestNat
  <2> QED
    BY <2>2
<1>6. last \in found
  <2> HIDE DEF found
  <2> QED
    BY <1>5
<1> DEFINE i == last.item
<1>7. last \in fills /\ i \in HomeLogins /\ i \in LoginIds
  BY <1>6 DEF FillInv, LoginIds
<1> HIDE DEF found, last
<1>8. i # NoOne /\ up.item = i
  BY <1>3, <1>7, PkAssumption
<1>9. Homes(a, up.item) \subseteq {i}
  BY <1>1, <1>8 DEF Homes
<1> HIDE DEF i
<1>10. /\ fills' = SpendFill(i) /\ silent' = [silent EXCEPT ![i] = @ + 1]
       /\ filled' = filled
  BY <1>1, <1>9 DEF StageCreateFor
<1>11. silent[i] < filled[i]
  BY <1>7 DEF FillInv, i
<1>12. \A j \in LoginIds : silent[j] \in Nat /\ filled[j] \in Nat /\ silent[j] <= filled[j]
  BY DEF FillInv
<1>13. silent' \in [LoginIds -> Nat] /\ silent'[i] = silent[i] + 1
       /\ \A j \in LoginIds : j # i => silent'[j] = silent[j]
  BY <1>7, <1>10 DEF FillInv
<1>14. \A j \in LoginIds : silent'[j] <= filled'[j]
  BY <1>7, <1>10, <1>11, <1>12, <1>13
<1>15. \A f \in fills' : f \in fills /\ f.item # i /\ f.item \in LoginIds
  BY <1>10 DEF SpendFill, FillInv, LoginIds
<1>16. \A f \in fills' : silent'[f.item] < filled'[f.item]
  BY <1>10, <1>13, <1>15 DEF FillInv
<1>17. \A f \in fills' : f.item \in HomeLogins /\ f.nth \in Nat /\ f.nth <= N
  BY <1>4, <1>15 DEF FillInv
<1> QED
  BY <1>4, <1>10, <1>13, <1>14, <1>16, <1>17 DEF FillInv

LEMMA FillsStay ==
    ASSUME FillInv, UNCHANGED <<fills, filled, silent>>
    PROVE  FillInv'
BY DEF FillInv

PkInv == KeysInv /\ FillInv

LEMMA PkInvInit == PkInit => PkInv
<1>1. ASSUME PkInit PROVE FillInv
  <2>1. fills = {} /\ filled = [i \in LoginIds |-> 0] /\ silent = [i \in LoginIds |-> 0]
    BY <1>1 DEF PkInit
  <2> QED
    BY <2>1 DEF FillInv
<1> QED
  BY <1>1, KeysInit DEF PkInv

LEMMA PkInvStep == PkInv /\ [PkNext]_pkVars => PkInv'
<1> SUFFICES ASSUME KeysInv, FillInv, [PkNext]_pkVars PROVE KeysInv' /\ FillInv'
  BY DEF PkInv
<1>1. CASE UNCHANGED pkVars
  BY <1>1, KeysStay, FillsStay DEF pkVars
<1>2. ASSUME NEW i \in HomeLogins, Fill(i) PROVE KeysInv' /\ FillInv'
  BY <1>2, KeysStay, FillKeeps DEF Fill
<1>3. ASSUME NEW a \in Accounts, NEW c, NEW x, Check(a, c, x) PROVE KeysInv' /\ FillInv'
  BY <1>3, KeysStay, FillsStay DEF Check
<1>4. ASSUME NEW a \in Accounts, NEW i, CreateAsked(a, i) PROVE KeysInv' /\ FillInv'
  <2>1. StageCreateFor(a, i, FALSE)
    BY <1>4 DEF CreateAsked
  <2>2. UNCHANGED <<fills, filled, silent>>
    BY <2>1 DEF StageCreateFor
  <2> QED
    BY <2>1, <2>2, StageKeys, FillsStay
<1>5. ASSUME NEW a \in Accounts, CreateSilently(a) PROVE KeysInv' /\ FillInv'
  <2>1. StageCreateFor(a, asked[a].upgrade.item, TRUE)
    BY <1>5 DEF CreateSilently
  <2> QED
    BY <1>5, <2>1, StageKeys, SilentKeeps
<1>6. ASSUME NEW a \in Accounts, EndRequest(a) PROVE KeysInv' /\ FillInv'
  BY <1>6, KeysStay, FillsStay DEF EndRequest
<1>7. ASSUME NEW a \in Accounts, NEW x \in SUBSET known[a], DropReplaced(x) PROVE KeysInv' /\ FillInv'
  <2>1. UNCHANGED <<fills, filled, silent>>
    BY <1>7 DEF DropReplaced
  <2> QED
    BY <1>7, <2>1, DropKeys, FillsStay
<1>8. ASSUME NEW w \in staged, SaveCreateFails(w) PROVE KeysInv' /\ FillInv'
  <2>1. UNCHANGED <<fills, filled, silent>>
    BY <1>8 DEF SaveCreateFails
  <2> QED
    BY <1>8, <2>1, FailKeys, FillsStay
<1>9. ASSUME NEW w \in staged, NEW lost \in BOOLEAN, SaveCreate(w, lost) PROVE KeysInv' /\ FillInv'
  <2>1. UNCHANGED <<fills, filled, silent>>
    BY <1>9 DEF SaveCreate
  <2> QED
    BY <1>9, <2>1, SaveDropKeys, SaveAddKeys, FillsStay
<1>10. ASSUME NEW r \in answered, SiteAccepts(r) \/ SiteRejects(r) PROVE KeysInv' /\ FillInv'
  <2>1. UNCHANGED <<fills, filled, silent>>
    BY <1>10 DEF SiteAccepts, SiteRejects
  <2> QED
    BY <1>10, <2>1, SiteKeys, FillsStay
<1>11. ASSUME NEW i \in DOMAIN logins, NEW p \in KeysOf(i), RemovePasskey(i, p) PROVE KeysInv' /\ FillInv'
  <2>1. UNCHANGED <<fills, filled, silent>>
    BY <1>11 DEF RemovePasskey
  <2> QED
    BY <1>11, <2>1, RemoveKeys, FillsStay
<1>12. CASE PkTick
  BY <1>12, KeysStay, FillsStay DEF PkTick
<1> QED
  BY <1>1, <1>2, <1>3, <1>4, <1>5, <1>6, <1>7, <1>8, <1>9, <1>10, <1>11, <1>12 DEF PkNext

\* Creating passkeys keeps the working one and spends a fill once
\* (stage_create_for, find_passkeys, stage_passkey_create): for any number of
\* logins, accounts, open writes and passkeys per login, however creates, lists
\* of the site, removals and lost answers interleave.
THEOREM PasskeysKeptHolds == PkSpec => []PasskeysKept
<1>1. PkInv => PasskeysKept
  BY KeysWork DEF PkInv, FillInv, PasskeysKept, OneFillOnePasskey
<1> QED
  BY <1>1, PkInvInit, PkInvStep, PTL DEF PkSpec
=============================================================================
