-------------------------- MODULE EventSourceProofs --------------------------
(***************************************************************************)
(* Proofs about the event source over the marketplace, for any number of   *)
(* listings, offers, calls and blocks, and an event cache that is any      *)
(* number of blocks behind.                                                *)
(***************************************************************************)
EXTENDS EventSource, MarketplaceProofs

IsLast(k, S) == k \in S /\ \A j \in S : j <= k

SameTerms(a, b) == a.status = b.status /\ a.buyer = b.buyer /\ a.value = b.value

\* The log of an offer up to block b tells what became of it: it has not been made,
Unmade(s, b) == OfferAt(s, b).status = Undefined /\ Changes(s, b) = {}

\* it stands, and its terms are those it had at its last event,
Standing(s, b) ==
    /\ OfferAt(s, b).status # Undefined
    /\ Opening(s, b) = Changes(s, b)
    /\ \E m : IsLast(m, Opening(s, b)) /\ SameTerms(OfferAt(s, log[s][m].block), OfferAt(s, b))

\* or it was closed, by the last event that changed it.
Settled(s, b) ==
    /\ OfferAt(s, b).status = Undefined
    /\ \E m : IsLast(m, Opening(s, b))
    /\ \E k : IsLast(k, Changes(s, b)) /\ Changes(s, b) \ Opening(s, b) = {k}

Story(s, b) == Unmade(s, b) \/ Standing(s, b) \/ Settled(s, b)

\* The terms can still be read at the last event that left the offer in the contract.
TermsKept(s) ==
    /\ offers[s].status # Undefined =>
            agreed[s] = [buyer |-> offers[s].buyer, value |-> offers[s].value]
    /\ \A m : IsLast(m, Opening(s, now)) /\ ~ClosedInOneBlock(s) =>
            LET offer == OfferAt(s, log[s][m].block) IN
            offer.buyer = agreed[s].buyer /\ offer.value = agreed[s].value

Untouched(s) == s[2] >= numOffers[s[1]] => Changes(s, now) = {}
Deleted(s)   == offers[s].status = Undefined => offers[s] = NoOffer

Told(s) ==
    /\ \A b \in Now0 .. now : Story(s, b)
    /\ TermsKept(s) /\ Untouched(s) /\ Deleted(s)

Names == {"OfferCreated", "OfferAccepted", "OfferWithdrawn", "OfferFundsAdded", "OfferFinalized",
          "OfferDisputed", "OfferRuling", "OfferData"}
Event == [event : Names, block : Nat, party : Accounts]

Recorded ==
    /\ now \in Nat /\ Now0 \in Nat /\ Now0 <= now
    /\ log \in [Slots -> Seq(Event)]
    /\ \A s \in Slots : \A i \in DOMAIN log[s] : log[s][i].block \in Now0 .. now
    /\ agreed \in [Slots -> [buyer : Accounts \cup {Null}, value : Nat]]
    /\ DOMAIN archive = Now0 .. now - 1

SourceInv == Wellformed /\ Recorded /\ \A s \in Slots : Told(s)

-----------------------------------------------------------------------------
(* The log *)

LEMMA LastIsMax ==
    ASSUME NEW S \in SUBSET Nat, NEW k, IsLast(k, S)
    PROVE  Max(S) = k
<1>1. k \in S /\ \A j \in S : k >= j
  BY DEF IsLast
<1>2. \A m \in S : (\A j \in S : m >= j) => m = k
  BY <1>1
<1> QED
  BY <1>1, <1>2 DEF Max

LEMMA PlacesAre ==
    ASSUME Recorded, NEW s \in Slots
    PROVE  /\ log[s] \in Seq(Event) /\ Len(log[s]) \in Nat /\ DOMAIN log[s] = 1 .. Len(log[s])
           /\ \A i \in 1 .. Len(log[s]) : log[s][i] \in Event /\ log[s][i].block \in Now0 .. now
           /\ \A b : EventsOf(s, b) \subseteq 1 .. Len(log[s])
           /\ \A b : Changes(s, b) \subseteq EventsOf(s, b) /\ Opening(s, b) \subseteq Changes(s, b)
           /\ EventsOf(s, now) = 1 .. Len(log[s])
<1>1. log[s] \in Seq(Event) /\ Len(log[s]) \in Nat /\ DOMAIN log[s] = 1 .. Len(log[s])
  BY DEF Recorded
<1>2. \A i \in 1 .. Len(log[s]) : log[s][i] \in Event /\ log[s][i].block \in Now0 .. now
  BY <1>1 DEF Recorded
<1>3. /\ \A b : EventsOf(s, b) \subseteq 1 .. Len(log[s])
      /\ \A b : Changes(s, b) \subseteq EventsOf(s, b) /\ Opening(s, b) \subseteq Changes(s, b)
  BY <1>1 DEF EventsOf, Changes, Opening, LeavesOffer
<1>4. EventsOf(s, now) = 1 .. Len(log[s])
  BY <1>1, <1>2 DEF EventsOf, Recorded
<1> QED
  BY <1>1, <1>2, <1>3, <1>4

\* A log that stays.
LEMMA LogStays ==
    ASSUME NEW s \in Slots, log'[s] = log[s], NEW b
    PROVE  /\ EventsOf(s, b)' = EventsOf(s, b) /\ Changes(s, b)' = Changes(s, b)
           /\ Opening(s, b)' = Opening(s, b)
           /\ ClosedInOneBlock(s)' <=> ClosedInOneBlock(s)
BY DEF EventsOf, Changes, Opening, ClosedInOneBlock

LEMMA SlotStays ==
    ASSUME Recorded, NEW s \in Slots, Told(s), log'[s] = log[s], offers'[s] = offers[s],
           agreed'[s] = agreed[s], UNCHANGED <<archive, now>>,
           s[2] >= numOffers'[s[1]] => s[2] >= numOffers[s[1]]
    PROVE  Told(s)'
<1>1. \A b : OfferAt(s, b)' = OfferAt(s, b)
  BY DEF OfferAt
<1>2. ASSUME NEW b \in Now0 .. now
      PROVE  Story(s, b)'
  <2>1. Story(s, b)
    BY <1>2 DEF Told
  <2>2. Changes(s, b)' = Changes(s, b) /\ Opening(s, b)' = Opening(s, b)
    BY LogStays
  <2>3. CASE Unmade(s, b)
    BY <1>1, <2>2, <2>3 DEF Unmade, Story
  <2>4. CASE Standing(s, b)
    BY <1>1, <2>2, <2>4 DEF Standing, Story
  <2>5. CASE Settled(s, b)
    BY <1>1, <2>2, <2>5 DEF Settled, Story
  <2> QED
    BY <2>1, <2>3, <2>4, <2>5 DEF Story
<1>3. TermsKept(s)'
  <2>1. Opening(s, now)' = Opening(s, now)
    BY LogStays DEF Opening, EventsOf
  <2>2. ClosedInOneBlock(s)' <=> ClosedInOneBlock(s)
    BY LogStays
  <2> QED
    BY <1>1, <2>1, <2>2 DEF Told, TermsKept
<1>4. Untouched(s)' /\ Deleted(s)'
  BY LogStays DEF Told, Untouched, Deleted, Changes, EventsOf
<1> QED
  BY <1>2, <1>3, <1>4 DEF Told

-----------------------------------------------------------------------------
(* An event is added to a log *)

Appended(s, e) ==
    /\ log'[s] = Append(log[s], e) /\ e \in Event /\ e.block = now
    /\ UNCHANGED <<archive, now>>

LEMMA AppendedIs ==
    ASSUME Recorded, NEW s \in Slots, NEW e, Appended(s, e), NEW n, n = Len(log[s]) + 1
    PROVE  /\ n \in Nat /\ n >= 1 /\ Len(log'[s]) = n /\ DOMAIN log'[s] = 1 .. n /\ log'[s][n] = e
           /\ \A i \in 1 .. Len(log[s]) : log'[s][i] = log[s][i]
           /\ log'[s] \in Seq(Event)
           /\ n \notin 1 .. Len(log[s]) /\ \A i \in 1 .. Len(log[s]) : i <= n
<1>1. log[s] \in Seq(Event) /\ e \in Event /\ Len(log[s]) \in Nat
  BY PlacesAre DEF Appended
<1> QED
  BY <1>1, AppendProperties DEF Appended

\* Readers behind this block do not see it,
LEMMA OlderViews ==
    ASSUME Recorded, NEW s \in Slots, NEW e, Appended(s, e), NEW b \in Now0 .. now, b # now
    PROVE  EventsOf(s, b)' = EventsOf(s, b) /\ Changes(s, b)' = Changes(s, b)
                /\ Opening(s, b)' = Opening(s, b)
<1>1. PICK n : n = Len(log[s]) + 1
  OBVIOUS
<1>2. /\ DOMAIN log'[s] = 1 .. n /\ log'[s][n] = e /\ n \in Nat
      /\ \A i \in 1 .. Len(log[s]) : log'[s][i] = log[s][i]
  BY <1>1, AppendedIs
<1>3. 1 .. n = 1 .. Len(log[s]) \cup {n} /\ DOMAIN log[s] = 1 .. Len(log[s])
  BY <1>1, <1>2, PlacesAre
<1>4. ~(e.block <= b)
  BY DEF Appended, Recorded
<1>5. EventsOf(s, b)' = EventsOf(s, b)
  <2>1. EventsOf(s, b)' = {i \in 1 .. n : log'[s][i].block <= b}
    BY <1>2 DEF EventsOf
  <2>2. EventsOf(s, b) = {i \in 1 .. Len(log[s]) : log[s][i].block <= b}
    BY <1>3 DEF EventsOf
  <2> QED
    BY <1>2, <1>3, <1>4, <2>1, <2>2
<1>6. \A i \in EventsOf(s, b) : log'[s][i] = log[s][i]
  BY <1>2, PlacesAre
<1> QED
  BY <1>5, <1>6 DEF Changes, Opening

\* and those at this block do.
LEMMA NewViews ==
    ASSUME Recorded, NEW s \in Slots, NEW e, Appended(s, e), NEW n, n = Len(log[s]) + 1,
           NEW b, b = now
    PROVE  /\ EventsOf(s, b)' = EventsOf(s, b) \cup {n}
           /\ Changes(s, b)' = IF e.event = "OfferData" THEN Changes(s, b)
                                 ELSE Changes(s, b) \cup {n}
           /\ Opening(s, b)' = IF LeavesOffer(e) THEN Opening(s, b) \cup {n}
                                 ELSE Opening(s, b)
<1>2. /\ DOMAIN log'[s] = 1 .. n /\ log'[s][n] = e /\ n \in Nat /\ n \notin 1 .. Len(log[s])
      /\ \A i \in 1 .. Len(log[s]) : log'[s][i] = log[s][i]
  BY AppendedIs
<1>3. 1 .. n = 1 .. Len(log[s]) \cup {n} /\ DOMAIN log[s] = 1 .. Len(log[s])
  BY <1>2, PlacesAre
<1>4. e.block = b /\ b \in Nat
  BY DEF Appended, Recorded
<1>5. EventsOf(s, b)' = EventsOf(s, b) \cup {n}
  <2>1. \A i \in 1 .. n : i \in EventsOf(s, b)' <=> log'[s][i].block <= b
    BY <1>2, <1>4 DEF EventsOf
  <2>2. \A i \in 1 .. n : log'[s][i].block <= b
    <3>1. \A i \in 1 .. Len(log[s]) : log[s][i].block <= b
      BY <1>4, PlacesAre
    <3>2. e.block <= b
      BY <1>4
    <3>3. \A i \in 1 .. n : i = n \/ i \in 1 .. Len(log[s])
      BY <1>3
    <3> QED
      BY <1>2, <3>1, <3>2, <3>3
  <2>3. EventsOf(s, b)' \subseteq 1 .. n
    BY <1>2 DEF EventsOf
  <2>4. EventsOf(s, b) = 1 .. Len(log[s])
    BY PlacesAre
  <2> QED
    BY <1>3, <2>1, <2>2, <2>3, <2>4
<1>6. \A i \in EventsOf(s, b) : log'[s][i] = log[s][i]
  BY <1>2, PlacesAre
<1>7. Changes(s, b)' = {i \in EventsOf(s, b)' : log'[s][i].event # "OfferData"}
  BY DEF Changes
<1>8. Opening(s, b)' = {i \in EventsOf(s, b)' : LeavesOffer(log'[s][i])}
  BY DEF Opening
<1>9. Changes(s, b)' = IF e.event = "OfferData" THEN Changes(s, b)
                         ELSE Changes(s, b) \cup {n}
  BY <1>2, <1>5, <1>6, <1>7 DEF Changes
<1>10. Opening(s, b)' = IF LeavesOffer(e) THEN Opening(s, b) \cup {n}
                          ELSE Opening(s, b)
  BY <1>2, <1>5, <1>6, <1>8 DEF Opening
<1> QED
  BY <1>5, <1>9, <1>10

-----------------------------------------------------------------------------
(* What a call does to the story of its offer *)

\* OfferData leaves the terms alone, the events of closing delete the offer, and the
\* others leave one that stands, where one stood or none had been made.
Effect(s, event) ==
    \/ event = "OfferData" /\ SameTerms(offers'[s], offers[s])
    \/ /\ event \in {"OfferCreated", "OfferAccepted", "OfferFundsAdded", "OfferDisputed"}
       /\ offers'[s].status # Undefined
       /\ offers[s].status # Undefined \/ Changes(s, now) = {}
    \/ /\ event \in {"OfferFinalized", "OfferWithdrawn", "OfferRuling"}
       /\ offers'[s].status = Undefined /\ offers[s].status # Undefined

LEMMA OlderStory ==
    ASSUME Recorded, NEW s \in Slots, NEW e, Appended(s, e), NEW b \in Now0 .. now, b # now,
           Story(s, b)
    PROVE  Story(s, b)'
<1>1. Changes(s, b)' = Changes(s, b) /\ Opening(s, b)' = Opening(s, b)
  BY OlderViews
<1>2. \A c : c # now => OfferAt(s, c)' = OfferAt(s, c)
  BY DEF OfferAt, Appended
<1>3. \A m \in Opening(s, b) : log'[s][m] = log[s][m] /\ log[s][m].block # now
  <2>1. \A m \in Opening(s, b) : m \in 1 .. Len(log[s]) /\ log[s][m].block <= b
    BY PlacesAre DEF Opening, EventsOf
  <2>2. \A m \in 1 .. Len(log[s]) : log'[s][m] = log[s][m]
    BY AppendedIs
  <2>3. ~(now <= b)
    BY DEF Recorded
  <2> QED
    BY <2>1, <2>2, <2>3
<1>4. CASE Unmade(s, b)
  BY <1>1, <1>2, <1>4 DEF Unmade, Story
<1>5. CASE Standing(s, b)
  <2>1. PICK m : IsLast(m, Opening(s, b)) /\ SameTerms(OfferAt(s, log[s][m].block), OfferAt(s, b))
    BY <1>5 DEF Standing
  <2>2. log'[s][m] = log[s][m] /\ log[s][m].block # now
    BY <1>3, <2>1 DEF IsLast
  <2>3. SameTerms(OfferAt(s, log[s][m].block)', OfferAt(s, b)')
    BY <1>2, <2>1, <2>2 DEF OfferAt, Appended
  <2> QED
    BY <1>1, <1>2, <1>5, <2>1, <2>2, <2>3 DEF Standing, Story
<1>6. CASE Settled(s, b)
  BY <1>1, <1>2, <1>6 DEF Settled, Story
<1> QED
  BY <1>4, <1>5, <1>6 DEF Story

\* What the contract says now, to a reader at this block.
LEMMA OfferNow ==
    ASSUME NEW s \in Slots, NEW e, Appended(s, e), NEW b, b = now
    PROVE  /\ OfferAt(s, b) = offers[s] /\ OfferAt(s, b)' = offers'[s]
           /\ \A c : c # b => OfferAt(s, c)' = OfferAt(s, c)
BY DEF OfferAt, Appended

LEMMA DataStory ==
    ASSUME Recorded, NEW s \in Slots, NEW e, Appended(s, e), NEW b, b = now, Story(s, b),
           e.event = "OfferData", SameTerms(offers'[s], offers[s])
    PROVE  Story(s, b)'
<1>1. PICK n : n = Len(log[s]) + 1
  OBVIOUS
<1>2. Changes(s, b)' = Changes(s, b) /\ Opening(s, b)' = Opening(s, b)
  BY <1>1, NewViews DEF LeavesOffer
<1>3. \A m \in Opening(s, b) : log'[s][m] = log[s][m]
  BY PlacesAre, AppendedIs DEF Opening
<1>4. CASE Unmade(s, b)
  BY <1>2, <1>4, OfferNow DEF Unmade, Story, SameTerms
<1>5. CASE Standing(s, b)
  <2>1. PICK m : IsLast(m, Opening(s, b)) /\ SameTerms(OfferAt(s, log[s][m].block), OfferAt(s, b))
    BY <1>5 DEF Standing
  <2>2. PICK c : c = log[s][m].block
    OBVIOUS
  <2>3. log'[s][m].block = c
    BY <1>3, <2>1, <2>2 DEF IsLast
  <2>4. SameTerms(OfferAt(s, c)', OfferAt(s, b)')
    BY <2>1, <2>2, OfferNow DEF SameTerms
  <2>5. SameTerms(OfferAt(s, log[s][m].block)', OfferAt(s, b)')
    BY <2>3, <2>4 DEF OfferAt
  <2>6. OfferAt(s, b)'.status # Undefined
    BY <1>5, OfferNow DEF Standing, SameTerms
  <2> QED
    BY <1>2, <1>5, <2>1, <2>5, <2>6 DEF Standing, Story
<1>6. CASE Settled(s, b)
  BY <1>2, <1>6, OfferNow DEF Settled, Story, SameTerms
<1> QED
  BY <1>4, <1>5, <1>6 DEF Story

LEMMA OpeningStory ==
    ASSUME Recorded, NEW s \in Slots, NEW e, Appended(s, e), NEW b, b = now, Story(s, b),
           LeavesOffer(e), offers'[s].status # Undefined,
           offers[s].status # Undefined \/ Changes(s, b) = {},
           NEW n, n = Len(log[s]) + 1
    PROVE  Story(s, b)' /\ IsLast(n, Opening(s, b)')
<1>1. Changes(s, b)' = Changes(s, b) \cup {n} /\ Opening(s, b)' = Opening(s, b) \cup {n}
  BY NewViews DEF LeavesOffer
<1>2. Opening(s, b) = Changes(s, b)
  <2>1. CASE Changes(s, b) = {}
    BY <2>1, PlacesAre
  <2>2. CASE offers[s].status # Undefined
    BY <2>2, OfferNow DEF Story, Unmade, Standing, Settled
  <2> QED
    BY <2>1, <2>2
<1>3. IsLast(n, Opening(s, b)')
  BY <1>1, AppendedIs, PlacesAre DEF IsLast
<1>4. log'[s][n].block = b
  BY AppendedIs DEF Appended
<1>5. SameTerms(OfferAt(s, log[s][n].block)', OfferAt(s, b)')
  BY <1>4 DEF SameTerms, OfferAt
<1>6. OfferAt(s, b)'.status # Undefined
  BY OfferNow
<1> QED
  BY <1>1, <1>2, <1>3, <1>5, <1>6 DEF Story, Standing

LEMMA ClosingStory ==
    ASSUME Recorded, NEW s \in Slots, NEW e, Appended(s, e), NEW b, b = now, Story(s, b),
           e.event \in {"OfferFinalized", "OfferWithdrawn", "OfferRuling"},
           offers'[s].status = Undefined, offers[s].status # Undefined
    PROVE  Story(s, b)' /\ Opening(s, b)' = Opening(s, b) /\ Standing(s, b)
<1>1. PICK n : n = Len(log[s]) + 1
  OBVIOUS
<1>2. Changes(s, b)' = Changes(s, b) \cup {n} /\ Opening(s, b)' = Opening(s, b)
  BY <1>1, NewViews DEF LeavesOffer
<1>3. Standing(s, b)
  BY OfferNow DEF Story, Unmade, Settled
<1>4. IsLast(n, Changes(s, b)')
  BY <1>1, <1>2, AppendedIs, PlacesAre DEF IsLast
<1>5. Changes(s, b)' \ Opening(s, b)' = {n}
  BY <1>1, <1>2, <1>3, AppendedIs, PlacesAre DEF Standing
<1>6. OfferAt(s, b)'.status = Undefined
  BY OfferNow
<1> QED
  BY <1>2, <1>3, <1>4, <1>5, <1>6 DEF Story, Standing, Settled

LEMMA StaysClosed ==
    ASSUME Recorded, NEW s \in Slots, NEW e, Appended(s, e), ClosedInOneBlock(s)
    PROVE  ClosedInOneBlock(s)'
<1>1. PICK n : n = Len(log[s]) + 1
  OBVIOUS
<1>2. /\ DOMAIN log'[s] = 1 .. n /\ n \in Nat /\ DOMAIN log[s] = 1 .. Len(log[s])
      /\ \A i \in 1 .. Len(log[s]) : log'[s][i] = log[s][i]
  BY <1>1, AppendedIs, PlacesAre
<1>3. DOMAIN log[s] \subseteq DOMAIN log'[s]
  BY <1>1, <1>2, PlacesAre
<1> QED
  BY <1>2, <1>3 DEF ClosedInOneBlock

\* An event that closes the offer in the block of the last event before it.
LEMMA ClosesInBlock ==
    ASSUME Recorded, NEW s \in Slots, NEW e, Appended(s, e),
           e.event \in {"OfferFinalized", "OfferWithdrawn", "OfferRuling"},
           NEW m \in Opening(s, now), log[s][m].block = now
    PROVE  ClosedInOneBlock(s)'
<1>1. PICK n : n = Len(log[s]) + 1
  OBVIOUS
<1>2. m \in 1 .. Len(log[s]) /\ LeavesOffer(log[s][m])
  BY PlacesAre DEF Opening
<1>3. /\ n \in DOMAIN log'[s] /\ m \in DOMAIN log'[s] /\ n # m
      /\ log'[s][n] = e /\ log'[s][m] = log[s][m]
  BY <1>1, <1>2, AppendedIs
<1>4. ~LeavesOffer(e) /\ e.event # "OfferData" /\ e.block = now
  BY DEF LeavesOffer, Appended
<1> QED
  BY <1>2, <1>3, <1>4 DEF ClosedInOneBlock

AgreedStep(s) == agreed'[s] = IF offers'[s] = NoOffer THEN agreed[s]
                              ELSE [buyer |-> offers'[s].buyer, value |-> offers'[s].value]

LEMMA TermsStep ==
    ASSUME Recorded, NEW s \in Slots, NEW e, Appended(s, e), Told(s), Effect(s, e.event),
           AgreedStep(s), offers'[s].status = Undefined => offers'[s] = NoOffer
    PROVE  TermsKept(s)'
<1>1. PICK n : n = Len(log[s]) + 1
  OBVIOUS
<1>2. PICK b : b = now
  OBVIOUS
<1>3. Story(s, b) /\ b \in Now0 .. now /\ now' = b
  BY <1>2 DEF Told, Recorded, Appended
<1>4. Opening(s, now)' = Opening(s, b)' /\ Opening(s, now) = Opening(s, b)
  BY <1>2, <1>3 DEF Opening, EventsOf
<1>5. offers'[s].status # Undefined =>
            agreed'[s] = [buyer |-> offers'[s].buyer, value |-> offers'[s].value]
  BY DEF AgreedStep, NoOffer
<1>6. \A m : IsLast(m, Opening(s, b)) /\ ~ClosedInOneBlock(s) =>
            LET offer == OfferAt(s, log[s][m].block) IN
            offer.buyer = agreed[s].buyer /\ offer.value = agreed[s].value
  BY <1>4 DEF Told, TermsKept
<1>7. ASSUME NEW m, IsLast(m, Opening(s, b)'), ~ClosedInOneBlock(s)', NEW c, c = log'[s][m].block
      PROVE  OfferAt(s, c)'.buyer = agreed'[s].buyer /\ OfferAt(s, c)'.value = agreed'[s].value
  <2>1. ~ClosedInOneBlock(s)
    BY <1>7, StaysClosed
  <2>2. CASE e.event = "OfferData" /\ SameTerms(offers'[s], offers[s])
    <3>1. Opening(s, b)' = Opening(s, b)
      BY <1>1, <1>2, <2>2, NewViews DEF LeavesOffer
    <3>2. IsLast(m, Opening(s, b)) /\ log'[s][m] = log[s][m]
      BY <1>7, <3>1, PlacesAre, AppendedIs DEF IsLast
    <3>3. OfferAt(s, c).buyer = agreed[s].buyer /\ OfferAt(s, c).value = agreed[s].value
      BY <1>6, <1>7, <2>1, <3>2
    <3>4. OfferAt(s, c)'.buyer = OfferAt(s, c).buyer /\ OfferAt(s, c)'.value = OfferAt(s, c).value
      BY <1>2, <2>2, OfferNow DEF SameTerms
    <3>5. agreed'[s].buyer = agreed[s].buyer /\ agreed'[s].value = agreed[s].value
      BY <2>2 DEF Told, TermsKept, AgreedStep, SameTerms
    <3> QED
      BY <3>3, <3>4, <3>5
  <2>3. CASE LeavesOffer(e) /\ offers'[s].status # Undefined /\ Effect(s, e.event)
    <3>1. IsLast(n, Opening(s, b)')
      BY <1>1, <1>2, <2>3, NewViews, AppendedIs, PlacesAre DEF IsLast
    <3>2. n \in Nat /\ Opening(s, b)' \subseteq Nat
      BY <1>1, <1>2, <2>3, NewViews, PlacesAre
    <3>3. m = n
      BY <1>7, <3>1, <3>2 DEF IsLast
    <3>4. c = b
      BY <1>1, <1>2, <1>7, <3>3, AppendedIs DEF Appended
    <3>5. OfferAt(s, c)' = offers'[s]
      BY <1>2, <3>4, OfferNow
    <3> QED
      BY <1>5, <2>3, <3>5
  <2>4. CASE /\ e.event \in {"OfferFinalized", "OfferWithdrawn", "OfferRuling"}
             /\ offers'[s].status = Undefined /\ offers[s].status # Undefined
    <3>1. Opening(s, b)' = Opening(s, b)
      BY <1>1, <1>2, <2>4, NewViews DEF LeavesOffer
    <3>2. IsLast(m, Opening(s, b)) /\ m \in Opening(s, now) /\ log'[s][m] = log[s][m]
      BY <1>4, <1>7, <3>1, PlacesAre, AppendedIs DEF IsLast
    <3>3. c # now
      BY <1>7, <2>4, <3>2, ClosesInBlock
    <3>4. OfferAt(s, c).buyer = agreed[s].buyer /\ OfferAt(s, c).value = agreed[s].value
      BY <1>6, <1>7, <2>1, <3>2
    <3>5. OfferAt(s, c)' = OfferAt(s, c)
      BY <1>2, <3>3, OfferNow
    <3>6. agreed'[s] = agreed[s]
      BY <2>4 DEF AgreedStep
    <3> QED
      BY <3>4, <3>5, <3>6
  <2> QED
    BY <2>2, <2>3, <2>4 DEF Effect, LeavesOffer
<1>8. \A m : IsLast(m, Opening(s, b)') /\ ~ClosedInOneBlock(s)' =>
            /\ OfferAt(s, log[s][m].block)'.buyer = agreed'[s].buyer
            /\ OfferAt(s, log[s][m].block)'.value = agreed'[s].value
  BY <1>7 DEF OfferAt
<1> QED
  BY <1>4, <1>5, <1>8 DEF TermsKept

LEMMA ToldStep ==
    ASSUME Recorded, NEW s \in Slots, NEW e, Appended(s, e), Told(s), Effect(s, e.event),
           AgreedStep(s), offers'[s].status = Undefined => offers'[s] = NoOffer,
           s[2] >= numOffers'[s[1]] => s[2] >= numOffers[s[1]] /\ e.event = "OfferData"
    PROVE  Told(s)'
<1>1. ASSUME NEW b \in Now0 .. now
      PROVE  Story(s, b)'
  <2>1. Story(s, b)
    BY <1>1 DEF Told
  <2>2. CASE b # now
    BY <1>1, <2>1, <2>2, OlderStory
  <2>3. CASE b = now
    <3>1. CASE e.event = "OfferData" /\ SameTerms(offers'[s], offers[s])
      BY <2>1, <2>3, <3>1, DataStory
    <3>2. CASE /\ e.event \in {"OfferCreated", "OfferAccepted", "OfferFundsAdded", "OfferDisputed"}
               /\ offers'[s].status # Undefined
               /\ offers[s].status # Undefined \/ Changes(s, now) = {}
      <4>1. LeavesOffer(e)
        BY <3>2 DEF LeavesOffer
      <4>2. PICK n : n = Len(log[s]) + 1
        OBVIOUS
      <4> QED
        BY <2>1, <2>3, <3>2, <4>1, <4>2, OpeningStory
    <3>3. CASE /\ e.event \in {"OfferFinalized", "OfferWithdrawn", "OfferRuling"}
               /\ offers'[s].status = Undefined /\ offers[s].status # Undefined
      BY <2>1, <2>3, <3>3, ClosingStory
    <3> QED
      BY <3>1, <3>2, <3>3 DEF Effect
  <2> QED
    BY <2>2, <2>3
<1>2. now' = now
  BY DEF Appended
<1>3. TermsKept(s)'
  BY TermsStep
<1>4. Untouched(s)'
  <2>1. SUFFICES ASSUME s[2] >= numOffers'[s[1]]
                 PROVE  Changes(s, now)' = {}
    BY DEF Untouched
  <2>2. Changes(s, now) = {} /\ e.event = "OfferData"
    BY <2>1 DEF Told, Untouched
  <2>3. PICK n, b : n = Len(log[s]) + 1 /\ b = now
    OBVIOUS
  <2>4. Changes(s, b)' = Changes(s, b)
    BY <2>2, <2>3, NewViews
  <2> QED
    BY <1>2, <2>2, <2>3, <2>4 DEF Changes, EventsOf
<1>5. Deleted(s)'
  BY DEF Deleted
<1> QED
  BY <1>1, <1>2, <1>3, <1>4, <1>5 DEF Told

-----------------------------------------------------------------------------
(* The calls *)

\* What a call that emits an event about offer s does to all offers.
Calls(s, event) ==
    /\ Effect(s, event) /\ now' = now
    /\ \A t \in Slots \ {s} : offers'[t] = offers[t]
    /\ offers'[s].status = Undefined => offers'[s] = NoOffer
    /\ \A t \in Slots : t[2] >= numOffers'[t[1]] => t[2] >= numOffers[t[1]]
    /\ s[2] >= numOffers'[s[1]] => event = "OfferData"

LEMMA CallRecorded ==
    ASSUME Recorded, Wellformed', NEW s \in Slots, NEW event \in Names, NEW party \in Accounts,
           Emits(s, event, party), now' = now,
           NEW e, e = [event |-> event, block |-> now, party |-> party]
    PROVE  /\ Recorded' /\ Appended(s, e) /\ AgreedStep(s)
           /\ \A t \in Slots \ {s} : log'[t] = log[t] /\ agreed'[t] = agreed[t]
<1>1. /\ log \in [Slots -> Seq(Event)] /\ now \in Nat /\ Now0 \in Nat /\ Now0 <= now
      /\ agreed \in [Slots -> [buyer : Accounts \cup {Null}, value : Nat]]
  BY DEF Recorded
<1>2. e \in Event /\ e.block = now
  BY <1>1 DEF Event
<1>3. log' = [log EXCEPT ![s] = Append(log[s], e)]
  BY DEF Emits
<1>4. Append(log[s], e) \in Seq(Event)
  BY <1>1, <1>2
<1>5. /\ log' \in [Slots -> Seq(Event)] /\ log'[s] = Append(log[s], e)
      /\ \A t \in Slots \ {s} : log'[t] = log[t]
  BY <1>1, <1>3, <1>4
<1>6. offers'[s].buyer \in Accounts \cup {Null} /\ offers'[s].value \in Nat
  BY DEF Wellformed, TypeOK, Offer
<1>7. PICK a : a = [buyer |-> offers'[s].buyer, value |-> offers'[s].value]
  OBVIOUS
<1>8. agreed' = IF offers'[s] = NoOffer THEN agreed ELSE [agreed EXCEPT ![s] = a]
  BY <1>7 DEF Emits
<1>9. a \in [buyer : Accounts \cup {Null}, value : Nat]
  BY <1>6, <1>7
<1>10. /\ agreed' \in [Slots -> [buyer : Accounts \cup {Null}, value : Nat]]
       /\ agreed'[s] = IF offers'[s] = NoOffer THEN agreed[s] ELSE a
       /\ \A t \in Slots \ {s} : agreed'[t] = agreed[t]
  <2> HIDE <1>7
  <2>1. CASE offers'[s] = NoOffer
    BY <1>1, <1>8, <2>1
  <2>2. CASE offers'[s] # NoOffer
    BY <1>1, <1>8, <1>9, <2>2
  <2> QED
    BY <2>1, <2>2
<1>11. Appended(s, e)
  BY <1>2, <1>5 DEF Appended, Emits
<1>12. \A t \in Slots : \A i \in DOMAIN log'[t] : log'[t][i].block \in Now0 .. now
  <2>1. ASSUME NEW t \in Slots \ {s}
        PROVE  \A i \in DOMAIN log'[t] : log'[t][i].block \in Now0 .. now
    BY <1>5, <2>1 DEF Recorded
  <2>2. \A i \in DOMAIN log'[s] : log'[s][i].block \in Now0 .. now
    <3>1. PICK n : n = Len(log[s]) + 1
      OBVIOUS
    <3>2. /\ DOMAIN log'[s] = 1 .. n /\ log'[s][n] = e /\ n \in Nat
          /\ \A i \in 1 .. Len(log[s]) : log'[s][i] = log[s][i]
      BY <1>11, <3>1, AppendedIs
    <3>3. \A i \in 1 .. n : i = n \/ i \in 1 .. Len(log[s])
      BY <3>1, <3>2, PlacesAre
    <3>4. \A i \in 1 .. Len(log[s]) : log[s][i].block \in Now0 .. now
      BY PlacesAre
    <3>5. e.block \in Now0 .. now
      BY <1>1, <1>2
    <3> QED
      BY <3>2, <3>3, <3>4, <3>5
  <2> QED
    BY <2>1, <2>2
<1>13. Recorded'
  BY <1>1, <1>5, <1>10, <1>12 DEF Recorded, Emits
<1> QED
  BY <1>5, <1>7, <1>10, <1>11, <1>13 DEF AgreedStep

LEMMA CallTold ==
    ASSUME SourceInv, Wellformed', NEW s \in Slots, NEW event \in Names, NEW party \in Accounts,
           Emits(s, event, party), Calls(s, event)
    PROVE  SourceInv'
<1>1. PICK e : e = [event |-> event, block |-> now, party |-> party]
  OBVIOUS
<1>2. Recorded /\ now' = now /\ e.event = event
  BY <1>1 DEF SourceInv, Calls
<1>3. /\ Recorded' /\ Appended(s, e) /\ AgreedStep(s)
      /\ \A t \in Slots \ {s} : log'[t] = log[t] /\ agreed'[t] = agreed[t]
  BY <1>1, <1>2, CallRecorded
<1>4. Told(s)'
  BY <1>2, <1>3, ToldStep DEF Calls, SourceInv
<1>5. ASSUME NEW t \in Slots \ {s}
      PROVE  Told(t)'
  BY <1>2, <1>3, <1>5, SlotStays DEF Calls, SourceInv, Appended
<1> QED
  BY <1>3, <1>4, <1>5 DEF SourceInv

\* One offer is stored.
LEMMA OneStored ==
    ASSUME Wellformed, NEW s \in Slots, NEW new, offers' = [offers EXCEPT ![s] = new]
    PROVE  offers'[s] = new /\ \A t \in Slots \ {s} : offers'[t] = offers[t]
BY DEF Wellformed, TypeOK

LEMMA NoOfferIs == NoOffer.status = Undefined
BY DEF NoOffer

LEMMA StoredCalls ==
    ASSUME Wellformed, NEW s \in Slots, Live(s), ~(s[2] >= numOffers[s[1]]), NEW event, NEW new,
           offers' = [offers EXCEPT ![s] = new], now' = now, numOffers' = numOffers,
           new.status = Undefined => new = NoOffer,
           \/ event = "OfferData" /\ SameTerms(new, offers[s])
           \/ /\ event \in {"OfferAccepted", "OfferFundsAdded", "OfferDisputed"}
              /\ new.status # Undefined
           \/ /\ event \in {"OfferFinalized", "OfferWithdrawn", "OfferRuling"}
              /\ new = NoOffer
    PROVE  Calls(s, event)
<1>1. offers'[s] = new /\ \A t \in Slots \ {s} : offers'[t] = offers[t]
  BY OneStored
<1>2. Effect(s, event)
  BY <1>1, NoOfferIs DEF Effect, Live
<1> QED
  BY <1>1, <1>2 DEF Calls

LEMMA OfferCallIs ==
    ASSUME Wellformed, NEW sender \in Accounts, NEW l \in ListingIds, NEW o \in OfferIds,
           OfferCall(sender, l, o), NEW s, s = <<l, o>>
    PROVE  \E event \in Names : Emits(s, event, sender) /\ Calls(s, event)
<1>1. /\ s \in Slots /\ s[1] = l /\ s[2] = o /\ offers[s] \in Offer
      /\ Live(s) => o < numOffers[l]
      /\ o \in Nat /\ numOffers[l] \in Nat
  BY OfferFacts, BoundAssumption DEF OfferIds
<1>2. Live(s) => ~(s[2] >= numOffers[s[1]])
  BY <1>1
<1>3. CASE AcceptOffer(sender, l, o) /\ Emits(s, "OfferAccepted", sender)
  <2>1. PICK new : new = [offers[s] EXCEPT !.finalizes = WindowEnd(offers[s].finalizes),
                                           !.status = Accepted]
    OBVIOUS
  <2>2. /\ offers' = [offers EXCEPT ![s] = new] /\ now' = now /\ numOffers' = numOffers
        /\ offers[s].status = Created
    BY <1>1, <1>3, <2>1 DEF AcceptOffer, Wellformed, TypeOK
  <2>3. new.status = Accepted /\ new.status # Undefined
    BY <1>1, <2>1 DEF Offer, Accepted, Undefined
  <2>4. Live(s)
    BY <2>2, <2>3 DEF Live, Undefined, Created, Accepted
  <2>5. Calls(s, "OfferAccepted")
    BY <1>1, <1>2, <2>2, <2>3, <2>4, StoredCalls
  <2> QED
    BY <1>3, <2>5 DEF Names
<1>4. CASE WithdrawOffer(sender, l, o) /\ Emits(s, "OfferWithdrawn", sender)
  <2>1. /\ offers' = [offers EXCEPT ![s] = NoOffer] /\ now' = now /\ numOffers' = numOffers
        /\ offers[s].status = Created
    BY <1>1, <1>4 DEF WithdrawOffer
  <2>2. Live(s)
    BY <2>1 DEF Live, Undefined, Created
  <2>3. Calls(s, "OfferWithdrawn")
    BY <1>1, <1>2, <2>1, <2>2, NoOfferIs, StoredCalls DEF Live, Undefined, Created
  <2> QED
    BY <1>4, <2>3 DEF Names
<1>5. CASE (\E value \in Values : AddFunds(sender, l, o, value)) /\ Emits(s, "OfferFundsAdded", sender)
  <2>1. PICK value \in Values : AddFunds(sender, l, o, value)
    BY <1>5
  <2>2. PICK new : new = [offers[s] EXCEPT !.value = @ + value]
    OBVIOUS
  <2>3. /\ offers' = [offers EXCEPT ![s] = new] /\ now' = now /\ numOffers' = numOffers
        /\ offers[s].status = Accepted
    BY <1>1, <2>1, <2>2 DEF AddFunds, Wellformed, TypeOK
  <2>4. new.status = Accepted
    BY <1>1, <2>2, <2>3 DEF Offer
  <2>5. Live(s)
    BY <2>3, <2>4 DEF Live, Undefined, Accepted
  <2>6. Calls(s, "OfferFundsAdded")
    BY <1>1, <1>2, <2>3, <2>4, <2>5, NoOfferIs, StoredCalls DEF Live, Undefined, Accepted
  <2> QED
    BY <1>5, <2>6 DEF Names
<1>6. CASE Finalize(sender, l, o) /\ Emits(s, "OfferFinalized", sender)
  <2>1. /\ offers' = [offers EXCEPT ![s] = NoOffer] /\ now' = now /\ numOffers' = numOffers
        /\ offers[s].status = Accepted
    BY <1>1, <1>6 DEF Finalize
  <2>2. Live(s)
    BY <2>1 DEF Live, Undefined, Accepted
  <2>3. Calls(s, "OfferFinalized")
    BY <1>1, <1>2, <2>1, <2>2, NoOfferIs, StoredCalls DEF Live, Undefined, Accepted
  <2> QED
    BY <1>6, <2>3 DEF Names
<1>7. CASE Dispute(sender, l, o) /\ Emits(s, "OfferDisputed", sender)
  <2>1. PICK new : new = [offers[s] EXCEPT !.status = Disputed]
    OBVIOUS
  <2>2. /\ offers' = [offers EXCEPT ![s] = new] /\ now' = now /\ numOffers' = numOffers
        /\ offers[s].status = Accepted
    BY <1>1, <1>7, <2>1 DEF Dispute, Wellformed, TypeOK
  <2>3. new.status = Disputed /\ new.status # Undefined
    BY <1>1, <2>1 DEF Offer, Disputed, Undefined
  <2>4. Live(s)
    BY <2>2, <2>3 DEF Live, Undefined, Accepted, Disputed
  <2>5. Calls(s, "OfferDisputed")
    BY <1>1, <1>2, <2>2, <2>3, <2>4, StoredCalls
  <2> QED
    BY <1>7, <2>5 DEF Names
<1>8. CASE /\ \E ruling \in Rulings, refund \in Refunds :
                ExecuteRuling(sender, l, o, ruling, refund)
           /\ Emits(s, "OfferRuling", sender)
  <2>1. PICK ruling \in Rulings, refund \in Refunds : ExecuteRuling(sender, l, o, ruling, refund)
    BY <1>8
  <2>2. /\ offers' = [offers EXCEPT ![s] = NoOffer] /\ now' = now /\ numOffers' = numOffers
        /\ offers[s].status = Disputed
    BY <1>1, <2>1 DEF ExecuteRuling
  <2>3. Live(s)
    BY <2>2 DEF Live, Undefined, Disputed
  <2>4. Calls(s, "OfferRuling")
    BY <1>1, <1>2, <2>2, <2>3, NoOfferIs, StoredCalls DEF Live, Undefined, Disputed
  <2> QED
    BY <1>8, <2>4 DEF Names
<1>9. CASE (\E refund \in Refunds : UpdateRefund(sender, l, o, refund)) /\ Emits(s, "OfferData", sender)
  <2>1. PICK refund \in Refunds : UpdateRefund(sender, l, o, refund)
    BY <1>9
  <2>2. PICK new : new = [offers[s] EXCEPT !.refund = refund]
    OBVIOUS
  <2>3. /\ offers' = [offers EXCEPT ![s] = new] /\ now' = now /\ numOffers' = numOffers
        /\ offers[s].status = Accepted
    BY <1>1, <2>1, <2>2 DEF UpdateRefund, Wellformed, TypeOK
  <2>4. SameTerms(new, offers[s])
    BY <1>1, <2>2 DEF Offer, SameTerms
  <2>5. Live(s)
    BY <2>3, <2>4 DEF Live, Undefined, Accepted
  <2>6. Calls(s, "OfferData")
    BY <1>1, <1>2, <2>3, <2>4, <2>5, NoOfferIs, StoredCalls DEF Live, Undefined, Accepted, SameTerms
  <2> QED
    BY <1>9, <2>6 DEF Names
<1> QED
  BY <1>3, <1>4, <1>5, <1>6, <1>7, <1>8, <1>9 DEF OfferCall

LEMMA AddDataIs ==
    ASSUME SourceInv, NEW sender \in Accounts, NEW s \in Slots, UNCHANGED vars
    PROVE  Calls(s, "OfferData")
<1>1. offers' = offers /\ now' = now /\ numOffers' = numOffers
  BY DEF vars
<1>2. offers[s].status = Undefined => offers[s] = NoOffer
  BY DEF SourceInv, Told, Deleted
<1> QED
  BY <1>1, <1>2 DEF Calls, Effect, SameTerms

LEMMA MakeOfferCallIs ==
    ASSUME SourceInv, MakeOfferCall
    PROVE  \E s \in Slots, party \in Accounts :
                Emits(s, "OfferCreated", party) /\ Calls(s, "OfferCreated")
<1>1. PICK sender \in Accounts, l \in ListingIds, finalizes \in Windows,
           affiliate \in Payees \cup {Null}, commission \in Commissions, value \in Values,
           currency \in Currencies, arbitrator \in Arbitrators :
             MakeOffer(sender, l, finalizes, affiliate, commission, value, currency, arbitrator)
  BY DEF MakeOfferCall, MakeOfferStep
<1>2. PICK s : s = <<l, numOffers[l]>>
  OBVIOUS
<1>3. /\ numOffers \in [ListingIds -> 0 .. MaxOffers] /\ numOffers[l] < MaxOffers
      /\ numOffers' = [numOffers EXCEPT ![l] = @ + 1] /\ MaxOffers \in Nat /\ now' = now
  BY <1>1, BoundAssumption DEF MakeOffer, SourceInv, Wellformed, TypeOK
<1>4. s \in Slots /\ s[1] = l /\ s[2] = numOffers[l] /\ numOffers[l] \in OfferIds
  BY <1>2, <1>3 DEF Slots, OfferIds
<1>5. /\ numOffers'[l] = numOffers[l] + 1
      /\ \A k \in ListingIds : k # l => numOffers'[k] = numOffers[k]
      /\ \A k \in ListingIds : numOffers[k] \in Nat
  BY <1>3
<1>6. PICK k \in ListingIds : /\ numOffers'[k] > numOffers[k]
                              /\ Emits(<<k, numOffers[k]>>, "OfferCreated",
                                       offers'[<<k, numOffers[k]>>].buyer)
  BY DEF MakeOfferCall
<1>7. k = l
  BY <1>5, <1>6
<1>8. PICK new : new = [value |-> value, commission |-> commission, refund |-> 0,
                        currency |-> currency, buyer |-> sender, affiliate |-> affiliate,
                        arbitrator |-> arbitrator, finalizes |-> finalizes, status |-> Created]
  OBVIOUS
<1>9. offers' = [offers EXCEPT ![s] = new]
  BY <1>1, <1>2, <1>8 DEF MakeOffer
<1>10. offers'[s] = new /\ \A t \in Slots \ {s} : offers'[t] = offers[t]
  BY <1>4, <1>9, OneStored DEF SourceInv
<1>11. new.status # Undefined /\ new.buyer = sender
  BY <1>8 DEF Created, Undefined
<1>12. Changes(s, now) = {}
  BY <1>3, <1>4, <1>5 DEF SourceInv, Told, Untouched
<1>13. Effect(s, "OfferCreated")
  BY <1>10, <1>11, <1>12 DEF Effect
<1>14. \A t \in Slots : t[2] >= numOffers'[t[1]] => t[2] >= numOffers[t[1]]
  <2>1. \A t \in Slots : t[1] \in ListingIds /\ t[2] \in Int
    BY DEF Slots, OfferIds
  <2> QED
    BY <1>5, <2>1
<1>15. ~(s[2] >= numOffers'[s[1]])
  BY <1>4, <1>5
<1>16. Calls(s, "OfferCreated")
  BY <1>3, <1>10, <1>11, <1>13, <1>14, <1>15 DEF Calls
<1>17. Emits(s, "OfferCreated", sender)
  BY <1>2, <1>6, <1>7, <1>10, <1>11
<1> QED
  BY <1>4, <1>16, <1>17

-----------------------------------------------------------------------------
(* Blocks *)

LEMMA EndBlockTold ==
    ASSUME SourceInv, Wellformed', EndBlock
    PROVE  SourceInv'
<1>1. /\ now' = now + 1 /\ UNCHANGED <<log, agreed, offers, numOffers>>
      /\ archive' = [b \in DOMAIN archive \cup {now} |-> IF b = now THEN offers ELSE archive[b]]
  BY DEF EndBlock, Tick, offerVars
<1>2. /\ now \in Nat /\ Now0 \in Nat /\ Now0 <= now /\ DOMAIN archive = Now0 .. now - 1
  BY DEF SourceInv, Recorded
<1>3. /\ DOMAIN archive' = Now0 .. now' - 1 /\ archive'[now] = offers
      /\ \A b \in Now0 .. now - 1 : archive'[b] = archive[b]
  <2>1. (Now0 .. now - 1) \cup {now} = Now0 .. now' - 1 /\ now \notin Now0 .. now - 1
    BY <1>1, <1>2
  <2> QED
    BY <1>1, <1>2, <2>1
<1>4. \A s \in Slots : \A b \in Now0 .. now : OfferAt(s, b)' = OfferAt(s, b)
  <2>1. \A b \in Now0 .. now : b # now'
    BY <1>1, <1>2
  <2>2. \A b \in Now0 .. now : b = now \/ b \in Now0 .. now - 1
    BY <1>2
  <2> QED
    BY <1>1, <1>3, <2>1, <2>2 DEF OfferAt
<1>5. \A s \in Slots : \A b : EventsOf(s, b)' = EventsOf(s, b) /\ Changes(s, b)' = Changes(s, b)
                                  /\ Opening(s, b)' = Opening(s, b)
  BY <1>1 DEF EventsOf, Changes, Opening
<1>6. ASSUME NEW s \in Slots
      PROVE  \A b : \A m \in Opening(s, b) : log'[s][m] = log[s][m] /\ log[s][m].block \in Now0 .. now
  BY <1>1, PlacesAre DEF SourceInv, Opening
<1>7. Recorded'
  <2>1. \A b \in Now0 .. now : b \in Now0 .. now'
    BY <1>1, <1>2
  <2> QED
    BY <1>1, <1>2, <1>3, <2>1 DEF SourceInv, Recorded
<1>8. ASSUME NEW s \in Slots, NEW b \in Now0 .. now, NEW d, d \in {b, now'}, d = now' => b = now
      PROVE  Story(s, d)'
  <2>1. Story(s, b)
    BY <1>8 DEF SourceInv, Told
  <2>2. EventsOf(s, d) = EventsOf(s, b)
    <3>1. CASE d = now' /\ b = now
      <4>1. \A i \in DOMAIN log[s] : log[s][i].block <= d /\ log[s][i].block <= b
        BY <1>1, <1>2, <3>1, PlacesAre DEF SourceInv
      <4> QED
        BY <4>1 DEF EventsOf
    <3> QED
      BY <1>8, <3>1
  <2>3. Changes(s, d)' = Changes(s, b) /\ Opening(s, d)' = Opening(s, b)
    BY <1>5, <2>2 DEF Changes, Opening
  <2>4. OfferAt(s, d)' = OfferAt(s, b)
    BY <1>1, <1>4, <1>8 DEF OfferAt
  <2>5. CASE Unmade(s, b)
    BY <2>3, <2>4, <2>5 DEF Unmade, Story
  <2>6. CASE Standing(s, b)
    <3>1. PICK m : IsLast(m, Opening(s, b)) /\ SameTerms(OfferAt(s, log[s][m].block), OfferAt(s, b))
      BY <2>6 DEF Standing
    <3>2. OfferAt(s, log[s][m].block)' = OfferAt(s, log[s][m].block)
      <4>1. PICK c : c = log[s][m].block
        OBVIOUS
      <4>2. c \in Now0 .. now /\ log'[s][m].block = c
        BY <1>1, <1>6, <3>1, <4>1 DEF IsLast
      <4>3. OfferAt(s, c)' = OfferAt(s, c)
        BY <1>4, <4>2
      <4> QED
        BY <4>1, <4>2, <4>3 DEF OfferAt
    <3> QED
      BY <2>3, <2>4, <2>6, <3>1, <3>2 DEF Standing, Story
  <2>7. CASE Settled(s, b)
    BY <2>3, <2>4, <2>7 DEF Settled, Story
  <2> QED
    BY <2>1, <2>5, <2>6, <2>7 DEF Story
<1>9. ASSUME NEW s \in Slots
      PROVE  Told(s)'
  <2>1. \A d \in Now0 .. now' : Story(s, d)'
    <3>1. ASSUME NEW d \in Now0 .. now'
          PROVE  Story(s, d)'
      <4>1. CASE d = now'
        BY <1>2, <1>8, <4>1
      <4>2. CASE d # now'
        <5>1. d \in Now0 .. now
          BY <1>1, <1>2, <4>2
        <5> QED
          BY <1>8, <4>2, <5>1
      <4> QED
        BY <4>1, <4>2
    <3> QED
      BY <3>1
  <2>2. \A b : EventsOf(s, b)' = EventsOf(s, b)
    BY <1>5
  <2>3. EventsOf(s, now)' = EventsOf(s, now)
    <3>1. \A i \in DOMAIN log[s] : log[s][i].block <= now + 1 /\ log[s][i].block <= now
      BY <1>2, PlacesAre DEF SourceInv
    <3> QED
      BY <1>1, <3>1 DEF EventsOf
  <2>4. Opening(s, now)' = Opening(s, now) /\ Changes(s, now)' = Changes(s, now)
    BY <1>1, <2>3 DEF Opening, Changes
  <2>5. ClosedInOneBlock(s)' <=> ClosedInOneBlock(s)
    BY <1>1 DEF ClosedInOneBlock
  <2>6. \A m : IsLast(m, Opening(s, now)) =>
                    OfferAt(s, log[s][m].block)' = OfferAt(s, log[s][m].block)
    <3>1. ASSUME NEW m, IsLast(m, Opening(s, now)), NEW c, c = log[s][m].block
          PROVE  OfferAt(s, c)' = OfferAt(s, c)
      BY <1>4, <1>6, <3>1 DEF IsLast
    <3> QED
      BY <1>1, <3>1 DEF OfferAt
  <2>7. TermsKept(s)'
    BY <1>1, <2>4, <2>5, <2>6 DEF SourceInv, Told, TermsKept
  <2>8. Untouched(s)' /\ Deleted(s)'
    BY <1>1, <2>4 DEF SourceInv, Told, Untouched, Deleted
  <2> QED
    BY <2>1, <2>7, <2>8 DEF Told
<1> QED
  BY <1>7, <1>9 DEF SourceInv

-----------------------------------------------------------------------------
(* The invariant *)

LEMMA SourceInitInv == SourceInit => SourceInv
<1> SUFFICES ASSUME SourceInit
             PROVE  SourceInv
  OBVIOUS
<1>1. Wellformed
  BY InitWellformed DEF SourceInit
<1>2. now = Now0 /\ Now0 \in Nat
  BY TimeAssumption DEF SourceInit, Init
<1>3. /\ \A s \in Slots : log[s] = << >> /\ DOMAIN log[s] = {} /\ offers[s] = NoOffer
      /\ log \in [Slots -> Seq(Event)]
  BY DEF SourceInit, Init
<1>4. /\ DOMAIN archive = Now0 .. now - 1
      /\ agreed \in [Slots -> [buyer : Accounts \cup {Null}, value : Nat]]
  <2>1. Now0 .. now - 1 = {}
    BY <1>2
  <2>2. DOMAIN archive = {}
    BY DEF SourceInit
  <2> QED
    BY <2>1, <2>2 DEF SourceInit
<1>5. Recorded
  BY <1>2, <1>3, <1>4 DEF Recorded
<1>6. ASSUME NEW s \in Slots
      PROVE  Told(s)
  <2>1. \A b : EventsOf(s, b) = {} /\ Changes(s, b) = {} /\ Opening(s, b) = {}
    BY <1>3 DEF EventsOf, Changes, Opening
  <2>2. offers[s] = NoOffer /\ offers[s].status = Undefined
    BY <1>3, NoOfferIs
  <2>3. \A b \in Now0 .. now : Story(s, b)
    <3>1. \A b \in Now0 .. now : b = now
      BY <1>2
    <3> QED
      BY <2>1, <2>2, <3>1 DEF Story, Unmade, OfferAt
  <2>4. TermsKept(s) /\ Untouched(s) /\ Deleted(s)
    BY <2>1, <2>2 DEF TermsKept, Untouched, Deleted, IsLast
  <2> QED
    BY <2>3, <2>4 DEF Told
<1> QED
  BY <1>1, <1>5, <1>6 DEF SourceInv

\* Steps that leave the offers and the logs alone.
LEMMA QuietStep ==
    ASSUME SourceInv, Wellformed', UNCHANGED <<sourceVars, offers, numOffers, now>>
    PROVE  SourceInv'
<1>1. /\ log' = log /\ archive' = archive /\ agreed' = agreed
      /\ offers' = offers /\ numOffers' = numOffers /\ now' = now
  BY DEF sourceVars
<1>2. Recorded'
  BY <1>1 DEF SourceInv, Recorded
<1>3. ASSUME NEW s \in Slots
      PROVE  Told(s)'
  BY <1>1, <1>3, SlotStays DEF SourceInv
<1> QED
  BY <1>2, <1>3 DEF SourceInv

LEMMA SourceStep ==
    ASSUME SourceInv, [SourceNext]_allVars
    PROVE  SourceInv'
<1>1. Wellformed
  BY DEF SourceInv
<1>2. [Next]_vars
  <2>1. ASSUME NEW sender \in Accounts, NEW l \in ListingIds, NEW o \in OfferIds,
               OfferCall(sender, l, o)
        PROVE  OfferStep
    BY <2>1 DEF OfferCall, OfferStep
  <2>2. MakeOfferCall => MakeOfferStep
    BY DEF MakeOfferCall
  <2>3. EndBlock => Tick
    BY DEF EndBlock
  <2>4. \A sender \in Accounts, l \in ListingIds, o \in OfferIds :
            AddData(sender, l, o) => UNCHANGED vars
    BY DEF AddData
  <2>5. UNCHANGED allVars => UNCHANGED vars
    BY DEF allVars
  <2> QED
    BY <2>1, <2>2, <2>3, <2>4, <2>5 DEF SourceNext, Next
<1>3. Wellformed'
  BY <1>1, <1>2, NextWellformed
<1>4. CASE (ListingStep \/ OwnerStep) /\ UNCHANGED sourceVars
  <2>1. ListingStep => UNCHANGED <<offers, numOffers, now>>
    BY DEF ListingStep, CreateListing, UpdateListing, WithdrawListing, SendDeposit, offerVars
  <2>2. OwnerStep => UNCHANGED <<offers, numOffers, now>>
    BY DEF OwnerStep, SetTokenAddr, AddAffiliate, RemoveAffiliate, offerVars
  <2> QED
    BY <1>3, <1>4, <2>1, <2>2, QuietStep
<1>5. CASE MakeOfferCall
  <2>1. PICK s \in Slots, party \in Accounts :
                Emits(s, "OfferCreated", party) /\ Calls(s, "OfferCreated")
    BY <1>5, MakeOfferCallIs
  <2>2. "OfferCreated" \in Names
    BY DEF Names
  <2> QED
    BY <1>3, <2>1, <2>2, CallTold
<1>6. ASSUME NEW sender \in Accounts, NEW l \in ListingIds, NEW o \in OfferIds,
             OfferCall(sender, l, o)
      PROVE  SourceInv'
  <2>1. PICK s : s = <<l, o>>
    OBVIOUS
  <2>2. s \in Slots
    BY <2>1 DEF Slots
  <2>3. PICK event \in Names : Emits(s, event, sender) /\ Calls(s, event)
    BY <1>1, <1>6, <2>1, OfferCallIs
  <2> QED
    BY <1>3, <2>2, <2>3, CallTold
<1>7. ASSUME NEW sender \in Accounts, NEW l \in ListingIds, NEW o \in OfferIds,
             AddData(sender, l, o)
      PROVE  SourceInv'
  <2>1. PICK s : s = <<l, o>>
    OBVIOUS
  <2>2. s \in Slots
    BY <2>1 DEF Slots
  <2>3. UNCHANGED vars /\ Emits(s, "OfferData", sender)
    BY <1>7, <2>1 DEF AddData
  <2>4. Calls(s, "OfferData")
    BY <2>2, <2>3, AddDataIs
  <2>5. "OfferData" \in Names
    BY DEF Names
  <2> QED
    BY <1>3, <2>2, <2>3, <2>4, <2>5, CallTold
<1>8. CASE EndBlock
  BY <1>3, <1>8, EndBlockTold
<1>9. CASE UNCHANGED allVars
  BY <1>3, <1>9, QuietStep DEF allVars, vars, sourceVars
<1> QED
  BY <1>4, <1>5, <1>6, <1>7, <1>8, <1>9 DEF SourceNext

LEMMA SourceInvariant == SourceSpec => []SourceInv
<1>1. SourceInv /\ [SourceNext]_allVars => SourceInv'
  BY SourceStep
<1> QED
  BY <1>1, SourceInitInv, PTL DEF SourceSpec

-----------------------------------------------------------------------------
(* What is shown *)

\* The places a reader takes from the log.
LEMMA Reads ==
    ASSUME Recorded, NEW s \in Slots, NEW b
    PROVE  /\ \A m : IsLast(m, Opening(s, b)) => LatestBlock(s, b) = log[s][m].block
           /\ \A k : IsLast(k, Changes(s, b)) => LastEvent(s, b) = log[s][k]
<1>1. Opening(s, b) \in SUBSET Nat /\ Changes(s, b) \in SUBSET Nat
  BY PlacesAre
<1> QED
  BY <1>1, LastIsMax DEF LatestBlock, LastEvent

\* An offer that stands is shown with its status.
LEMMA StandingShown ==
    ASSUME Recorded, NEW s \in Slots, NEW b, Standing(s, b)
    PROVE  /\ ShownStatus(s, b) = OfferAt(s, b).status
           /\ SameTerms(ShownOffer(s, b), OfferAt(s, b))
<1>1. PICK m : IsLast(m, Opening(s, b)) /\ SameTerms(OfferAt(s, log[s][m].block), OfferAt(s, b))
  BY DEF Standing
<1>2. Opening(s, b) = Changes(s, b)
  BY DEF Standing
<1>3. LatestBlock(s, b) = log[s][m].block /\ LastEvent(s, b) = log[s][m]
  BY <1>1, <1>2, Reads
<1>4. \A i \in EventsOf(s, b) : log[s][i].event # "OfferFinalized"
  <2>1. \A i \in EventsOf(s, b) : log[s][i].event # "OfferData" => LeavesOffer(log[s][i])
    BY <1>2 DEF Opening, Changes
  <2> QED
    BY <2>1 DEF LeavesOffer
<1>5. LeavesOffer(log[s][m])
  BY <1>1 DEF IsLast, Opening
<1>6. log[s][m].event # "OfferWithdrawn" /\ log[s][m].event # "OfferRuling"
  BY <1>5 DEF LeavesOffer
<1>7. ShownStatus(s, b) = ShownOffer(s, b).status
  BY <1>3, <1>4, <1>6 DEF ShownStatus
<1>8. SameTerms(ShownOffer(s, b), OfferAt(s, b))
  BY <1>1, <1>3 DEF ShownOffer
<1> QED
  BY <1>7, <1>8 DEF SameTerms

\* An offer that was closed is shown as closed, by its last event.
LEMMA SettledShown ==
    ASSUME Recorded, NEW s \in Slots, NEW b, Settled(s, b)
    PROVE  /\ ShownStatus(s, b) \in {Withdrawn, Finalized, Ruled}
           /\ ShownStatus(s, b) = Withdrawn => LastEvent(s, b).event = "OfferWithdrawn"
           /\ \E k \in EventsOf(s, b) : LastEvent(s, b) = log[s][k]
<1>1. PICK k : IsLast(k, Changes(s, b)) /\ Changes(s, b) \ Opening(s, b) = {k}
  BY DEF Settled
<1>2. LastEvent(s, b) = log[s][k]
  BY <1>1, Reads
<1>3. k \in EventsOf(s, b) /\ log[s][k].event # "OfferData" /\ ~LeavesOffer(log[s][k])
  BY <1>1 DEF Changes, Opening
<1>4. log[s][k].event \in {"OfferFinalized", "OfferWithdrawn", "OfferRuling"}
  BY <1>3 DEF LeavesOffer
<1>5. CASE log[s][k].event = "OfferFinalized"
  <2>1. \E i \in EventsOf(s, b) : log[s][i].event = "OfferFinalized"
    BY <1>3, <1>5
  <2>2. ShownStatus(s, b) = Finalized
    BY <1>2, <1>5, <2>1 DEF ShownStatus
  <2> QED
    BY <1>2, <1>3, <2>2 DEF Withdrawn, Finalized
<1>6. CASE log[s][k].event = "OfferWithdrawn"
  BY <1>2, <1>3, <1>6 DEF ShownStatus
<1>7. CASE log[s][k].event = "OfferRuling"
  <2>1. ShownStatus(s, b) = Ruled
    BY <1>2, <1>7 DEF ShownStatus
  <2> QED
    BY <1>2, <1>3, <2>1 DEF Withdrawn, Ruled
<1> QED
  BY <1>4, <1>5, <1>6, <1>7

\* Where an offer is there to be read, it has been made.
LEMMA MadeBefore ==
    ASSUME NEW s \in Slots, NEW b \in Readings(s)
    PROVE  Changes(s, b) # {} /\ b \in Now0 .. now
<1>1. PICK i \in EventsOf(s, b) : log[s][i].event = "OfferCreated"
  BY DEF Readings
<1>2. i \in Changes(s, b)
  BY <1>1 DEF Changes
<1> QED
  BY <1>2 DEF Readings

\* A reader any number of blocks behind is shown the status the offer had at its
\* block, in a contract with any number of listings, offers and calls.
THEOREM StatusAsInContract == SourceSpec => []StatusShown
<1>1. SourceInv => StatusShown
  <2>1. SUFFICES ASSUME SourceInv, NEW s \in Slots, NEW b \in Readings(s)
                 PROVE  IF OfferAt(s, b).status = Undefined
                        THEN ShownStatus(s, b) \in {Withdrawn, Finalized, Ruled}
                        ELSE ShownStatus(s, b) = OfferAt(s, b).status
    BY DEF StatusShown
  <2>2. Story(s, b) /\ ~Unmade(s, b) /\ Recorded
    BY <2>1, MadeBefore DEF SourceInv, Told, Unmade
  <2>3. CASE Standing(s, b)
    BY <2>2, <2>3, StandingShown DEF Standing
  <2>4. CASE Settled(s, b)
    BY <2>2, <2>4, SettledShown DEF Settled
  <2> QED
    BY <2>2, <2>3, <2>4 DEF Story
<1> QED
  BY <1>1, SourceInvariant, PTL

\* Buyer and value are shown as they were agreed, also after the offer is deleted,
\* unless it was closed in the block it is read at.
THEOREM TermsAsAgreed == SourceSpec => []TermsShown
<1>1. SourceInv => TermsShown
  <2>1. SUFFICES ASSUME SourceInv, NEW s \in Slots, Readings(s) # {}, ~ClosedInOneBlock(s)
                 PROVE  /\ ShownOffer(s, now).buyer = agreed[s].buyer
                        /\ ShownOffer(s, now).value = agreed[s].value
                        /\ ShownDeclined(s, now) =>
                                \E i \in DOMAIN log[s] : log[s][i].event = "OfferWithdrawn"
                                            /\ log[s][i].party # agreed[s].buyer
    BY DEF TermsShown
  <2>2. Recorded /\ Told(s) /\ now \in Now0 .. now
    BY <2>1 DEF SourceInv, Recorded
  <2>3. Changes(s, now) # {}
    <3>1. PICK b \in Readings(s) : TRUE
      BY <2>1
    <3>2. PICK i \in EventsOf(s, b) : log[s][i].event = "OfferCreated"
      BY DEF Readings
    <3>3. i \in EventsOf(s, now)
      BY <2>2, PlacesAre
    <3> QED
      BY <3>2, <3>3 DEF Changes
  <2>4. Story(s, now) /\ ~Unmade(s, now)
    BY <2>2, <2>3 DEF Told, Unmade
  <2>5. PICK m : IsLast(m, Opening(s, now))
    BY <2>4 DEF Story, Standing, Settled
  <2>6. ShownOffer(s, now) = OfferAt(s, log[s][m].block)
    BY <2>2, <2>5, Reads DEF ShownOffer
  <2>7. ShownOffer(s, now).buyer = agreed[s].buyer /\ ShownOffer(s, now).value = agreed[s].value
    BY <2>1, <2>2, <2>5, <2>6 DEF Told, TermsKept
  <2>8. ASSUME ShownDeclined(s, now)
        PROVE  \E i \in DOMAIN log[s] : log[s][i].event = "OfferWithdrawn"
                                            /\ log[s][i].party # agreed[s].buyer
    <3>1. ShownStatus(s, now) = Withdrawn /\ LastEvent(s, now).party # agreed[s].buyer
      BY <2>7, <2>8 DEF ShownDeclined
    <3>2. ~Standing(s, now)
      BY <2>2, <3>1, StandingShown DEF Standing, Withdrawn, Undefined
    <3>3. PICK k \in EventsOf(s, now) : LastEvent(s, now) = log[s][k]
      BY <2>2, <2>4, <3>2, SettledShown DEF Story
    <3>4. log[s][k].event = "OfferWithdrawn"
      BY <2>2, <2>4, <3>1, <3>2, <3>3, SettledShown DEF Story
    <3>5. k \in DOMAIN log[s]
      BY <2>2, <3>3, PlacesAre
    <3> QED
      BY <3>1, <3>3, <3>4, <3>5
  <2> QED
    BY <2>7, <2>8
<1> QED
  BY <1>1, SourceInvariant, PTL
=============================================================================
