--------------------------- MODULE Intel_proofs -----------------------------
(***************************************************************************)
(* Of the lookalike analyses, whatever their requests, the providers'      *)
(* answers and the intervals: the calls of any number of them to a host    *)
(* keep their distance, and every result accounts for itself.  Of the      *)
(* sensor: its cache is the addresses used last, whatever visits overlap   *)
(* and whenever the provider answers.  And of these with the digests and   *)
(* the feed, side by side.                                                 *)
(***************************************************************************)
EXTENDS MCIntel, Fusion_proofs

Hosts == {"crt", "rdap"}
Waiting == {"crt wait", "rdap wait", "ip wait"}

\* An asset sleeps until its slot at a host.
WaitsFor(a, i, host) == asset[a][i].at \in Waiting /\ HostOf(asset[a][i].at) = host

\* Two slots of a host lie an interval apart.
Apart(host, s, t) == s + MIN_INTERVAL[host] <= t \/ t + MIN_INTERVAL[host] <= s

ClockOK ==
    /\ now \in Nat
    /\ next_slot \in [Hosts -> Nat]
    /\ DOMAIN sent = Hosts
    /\ DOMAIN asset = Analyses

AssetsOK ==
    \A a \in Analyses : \A i \in DOMAIN asset[a] :
        DOMAIN asset[a][i] = {"at", "slot", "found"} /\ asset[a][i].slot \in Nat

\* A slot that was given to a sleeper is behind the next one, and apart from
\* the slot of any other sleeper and of any call.
SlotsOK(host) ==
    \A a \in Analyses : \A i \in DOMAIN asset[a] : WaitsFor(a, i, host) =>
        /\ asset[a][i].slot + MIN_INTERVAL[host] <= next_slot[host]
        /\ \A b \in Analyses : \A j \in DOMAIN asset[b] :
              WaitsFor(b, j, host) /\ <<a, i>> # <<b, j>> =>
                  Apart(host, asset[a][i].slot, asset[b][j].slot)
        /\ \A call \in sent[host] : Apart(host, asset[a][i].slot, call.slot)

CallsOK(host) ==
    \A call \in sent[host] :
        /\ call.slot \in Nat
        /\ call.slot <= now
        /\ call.slot + MIN_INTERVAL[host] <= next_slot[host]
        /\ \A other \in sent[host] : other # call => Apart(host, call.slot, other.slot)

PhantomInv ==
    /\ ClockOK
    /\ AssetsOK
    /\ \A host \in Hosts : SlotsOK(host) /\ CallsOK(host)

-----------------------------------------------------------------------------
LEMMA Intervals == \A host \in Hosts : MIN_INTERVAL[host] \in Nat /\ MIN_INTERVAL[host] >= 1
BY IntervalAssumption DEF Hosts

\* One asset of one analysis is replaced.
LEMMA UpdateFacts ==
    ASSUME ClockOK, NEW a \in Analyses, NEW i \in DOMAIN asset[a], NEW new, Update(a, i, new)
    PROVE  /\ DOMAIN asset' = Analyses
           /\ \A b \in Analyses : DOMAIN asset'[b] = DOMAIN asset[b]
           /\ asset'[a][i] = new
           /\ \A b \in Analyses : \A j \in DOMAIN asset[b] :
                 <<b, j>> # <<a, i>> => asset'[b][j] = asset[b][j]
BY DEF Update, ClockOK

\* A step in which nobody takes a slot or calls: sleepers may stop waiting.
LEMMA NobodyCalls ==
    ASSUME PhantomInv, now' \in Nat, now' >= now, UNCHANGED <<next_slot, sent>>,
           DOMAIN asset' = Analyses, AssetsOK',
           \A a \in Analyses : \A i \in DOMAIN asset'[a] :
               asset'[a][i].at \in Waiting =>
                   i \in DOMAIN asset[a] /\ asset[a][i] = asset'[a][i]
    PROVE  PhantomInv'
<1>1. ClockOK'
  BY DEF PhantomInv, ClockOK
<1>2. ASSUME NEW host \in Hosts
      PROVE  SlotsOK(host)' /\ CallsOK(host)'
  <2>1. SlotsOK(host)'
    BY <1>2 DEF PhantomInv, SlotsOK, WaitsFor, Apart
  <2>2. CallsOK(host)'
    BY <1>2, Intervals DEF PhantomInv, ClockOK, CallsOK, Apart
  <2>3. QED
    BY <2>1, <2>2
<1>3. QED
  BY <1>1, <1>2 DEF PhantomInv

\* The next slot of a host, given to one asset.
LEMMA SlotIsTaken ==
    ASSUME PhantomInv, NEW a \in Analyses, NEW i \in DOMAIN asset[a], NEW new,
           NEW host \in Hosts, Update(a, i, new), Reserve(host),
           DOMAIN new = {"at", "slot", "found"},
           new.at \in Waiting, HostOf(new.at) = host, new.slot = Slot(host),
           UNCHANGED <<now, sent>>
    PROVE  PhantomInv'
<1>1. /\ DOMAIN asset' = Analyses
      /\ \A b \in Analyses : DOMAIN asset'[b] = DOMAIN asset[b]
      /\ asset'[a][i] = new
      /\ \A b \in Analyses : \A j \in DOMAIN asset[b] :
            <<b, j>> # <<a, i>> => asset'[b][j] = asset[b][j]
  BY UpdateFacts DEF PhantomInv
<1>2. /\ Slot(host) \in Nat /\ Slot(host) >= next_slot[host]
      /\ next_slot' \in [Hosts -> Nat]
      /\ next_slot'[host] = Slot(host) + MIN_INTERVAL[host]
      /\ \A h \in Hosts : h # host => next_slot'[h] = next_slot[h]
  BY Intervals DEF PhantomInv, ClockOK, Slot, Reserve
<1>3. ClockOK'
  BY <1>1, <1>2 DEF PhantomInv, ClockOK
<1>4. AssetsOK'
  BY <1>1, <1>2 DEF PhantomInv, AssetsOK
<1>5. ASSUME NEW h \in Hosts, h # host
      PROVE  SlotsOK(h)' /\ CallsOK(h)'
  <2>1. \A b \in Analyses : \A j \in DOMAIN asset'[b] :
           WaitsFor(b, j, h)' => asset'[b][j] = asset[b][j] /\ j \in DOMAIN asset[b] /\ WaitsFor(b, j, h)
    BY <1>1, <1>5 DEF WaitsFor
  <2>2. SlotsOK(h)'
    BY <1>2, <1>5, <2>1 DEF PhantomInv, SlotsOK, Apart
  <2>3. CallsOK(h)'
    BY <1>2, <1>5 DEF PhantomInv, CallsOK, Apart
  <2>4. QED
    BY <2>2, <2>3
<1>6. CallsOK(host)'
  <2>1. \A call \in sent[host] : call.slot + MIN_INTERVAL[host] <= next_slot'[host]
    BY <1>2, Intervals DEF PhantomInv, ClockOK, CallsOK
  <2>2. QED
    BY <2>1 DEF PhantomInv, CallsOK, Apart
<1>7. SlotsOK(host)'
  <2>1. \A b \in Analyses : \A j \in DOMAIN asset[b] :
           WaitsFor(b, j, host)' /\ <<b, j>> # <<a, i>> =>
              /\ asset'[b][j] = asset[b][j] /\ WaitsFor(b, j, host)
              /\ asset[b][j].slot \in Nat
              /\ asset[b][j].slot + MIN_INTERVAL[host] <= Slot(host)
              /\ asset[b][j].slot + MIN_INTERVAL[host] <= next_slot'[host]
    <3> SUFFICES ASSUME NEW b \in Analyses, NEW j \in DOMAIN asset[b],
                        WaitsFor(b, j, host)', <<b, j>> # <<a, i>>
                 PROVE  /\ asset'[b][j] = asset[b][j] /\ WaitsFor(b, j, host)
                        /\ asset[b][j].slot \in Nat
                        /\ asset[b][j].slot + MIN_INTERVAL[host] <= Slot(host)
                        /\ asset[b][j].slot + MIN_INTERVAL[host] <= next_slot'[host]
      OBVIOUS
    <3>1. asset'[b][j] = asset[b][j] /\ WaitsFor(b, j, host)
      BY <1>1 DEF WaitsFor
    <3>2. /\ asset[b][j].slot \in Nat
          /\ asset[b][j].slot + MIN_INTERVAL[host] <= next_slot[host]
      BY <3>1 DEF PhantomInv, AssetsOK, SlotsOK
    <3>3. next_slot[host] \in Nat /\ MIN_INTERVAL[host] \in Nat
      BY Intervals DEF PhantomInv, ClockOK
    <3>4. QED
      BY <1>2, <3>1, <3>2, <3>3
  <2>2. \A call \in sent[host] : Apart(host, call.slot, new.slot) /\ Apart(host, new.slot, call.slot)
    <3>1. \A call \in sent[host] :
             call.slot \in Nat /\ call.slot + MIN_INTERVAL[host] <= next_slot[host]
      BY DEF PhantomInv, CallsOK
    <3>2. next_slot[host] \in Nat /\ MIN_INTERVAL[host] \in Nat
      BY Intervals DEF PhantomInv, ClockOK
    <3>3. QED
      BY <1>2, <3>1, <3>2 DEF Apart
  <2>3. new.slot + MIN_INTERVAL[host] <= next_slot'[host]
    BY <1>2, Intervals
  <2> SUFFICES ASSUME NEW b \in Analyses, NEW j \in DOMAIN asset'[b], WaitsFor(b, j, host)'
               PROVE  /\ asset'[b][j].slot + MIN_INTERVAL[host] <= next_slot'[host]
                      /\ \A c \in Analyses : \A k \in DOMAIN asset'[c] :
                            WaitsFor(c, k, host)' /\ <<b, j>> # <<c, k>> =>
                                Apart(host, asset'[b][j].slot, asset'[c][k].slot)
                      /\ \A call \in sent'[host] : Apart(host, asset'[b][j].slot, call.slot)
    BY DEF SlotsOK, Apart
  <2>4. CASE <<b, j>> = <<a, i>>
    <3>1. asset'[b][j].slot = Slot(host)
      BY <1>1, <2>4
    <3>2. ASSUME NEW c \in Analyses, NEW k \in DOMAIN asset'[c],
                 WaitsFor(c, k, host)', <<b, j>> # <<c, k>>
          PROVE  Apart(host, asset'[b][j].slot, asset'[c][k].slot)
      <4>1. k \in DOMAIN asset[c] /\ <<c, k>> # <<a, i>>
        BY <1>1, <2>4, <3>2
      <4>2. QED
        BY <2>1, <3>1, <3>2, <4>1 DEF Apart
    <3>3. QED
      BY <1>1, <2>2, <2>3, <2>4, <3>2
  <2>5. CASE <<b, j>> # <<a, i>>
    <3>0. j \in DOMAIN asset[b]
      BY <1>1
    <3>1. /\ asset'[b][j] = asset[b][j] /\ WaitsFor(b, j, host)
          /\ asset[b][j].slot + MIN_INTERVAL[host] <= Slot(host)
          /\ asset[b][j].slot + MIN_INTERVAL[host] <= next_slot'[host]
      BY <2>1, <2>5, <3>0
    <3>2. ASSUME NEW c \in Analyses, NEW k \in DOMAIN asset'[c],
                 WaitsFor(c, k, host)', <<b, j>> # <<c, k>>
          PROVE  Apart(host, asset'[b][j].slot, asset'[c][k].slot)
      <4>1. CASE <<c, k>> = <<a, i>>
        BY <1>1, <3>1, <4>1 DEF Apart
      <4>2. CASE <<c, k>> # <<a, i>>
        <5>1. k \in DOMAIN asset[c]
          BY <1>1
        <5>2. asset'[c][k] = asset[c][k] /\ WaitsFor(c, k, host)
          BY <2>1, <3>2, <4>2, <5>1
        <5>3. QED
          BY <3>0, <3>1, <3>2, <5>1, <5>2 DEF PhantomInv, SlotsOK
      <4>3. QED
        BY <4>1, <4>2
    <3>3. \A call \in sent[host] : Apart(host, asset[b][j].slot, call.slot)
      BY <3>0, <3>1 DEF PhantomInv, SlotsOK
    <3>4. QED
      BY <3>1, <3>2, <3>3
  <2>6. QED
    BY <2>4, <2>5
<1>8. QED
  BY <1>3, <1>4, <1>5, <1>6, <1>7 DEF PhantomInv

\* A sleeper calls in its slot.
LEMMA SlotIsUsed ==
    ASSUME PhantomInv, NEW a \in Analyses, NEW i \in DOMAIN asset[a], Send(a, i)
    PROVE  PhantomInv'
<1> DEFINE it == asset[a][i]
           label == CASE it.at = "crt wait" -> "crt" [] it.at = "rdap wait" -> "rdap" [] OTHER -> "ip"
           new == [it EXCEPT !.at = label]
           call == [by |-> <<a, i, it.at>>, slot |-> it.slot]
<1>0. it.at \in Waiting /\ HostOf(it.at) \in Hosts
  BY DEF Send, Waiting, HostOf, Hosts
<1>a. PICK host \in Hosts : host = HostOf(it.at)
  BY <1>0
<1>1. /\ it.at \in Waiting /\ now >= it.slot
      /\ Update(a, i, new)
      /\ sent' = [sent EXCEPT ![host] = @ \cup {call}]
      /\ UNCHANGED <<now, next_slot>>
  BY <1>0, <1>a DEF Send
<1>2. host \in Hosts /\ WaitsFor(a, i, host)
  BY <1>0, <1>a DEF WaitsFor
<1>3. /\ DOMAIN new = {"at", "slot", "found"} /\ new.at \notin Waiting
      /\ new.slot = it.slot /\ it.slot \in Nat
  <2>1. DOMAIN it = {"at", "slot", "found"} /\ it.slot \in Nat
    BY DEF PhantomInv, AssetsOK
  <2>2. label \notin Waiting
    BY DEF Waiting
  <2>3. QED
    BY <2>1, <2>2
<1>4. call.slot = it.slot
  OBVIOUS
<1> HIDE DEF label, new, call
<1>5. /\ DOMAIN asset' = Analyses
      /\ \A b \in Analyses : DOMAIN asset'[b] = DOMAIN asset[b]
      /\ asset'[a][i] = new
      /\ \A b \in Analyses : \A j \in DOMAIN asset[b] :
            <<b, j>> # <<a, i>> => asset'[b][j] = asset[b][j]
  BY <1>1, UpdateFacts DEF PhantomInv
<1>6. /\ DOMAIN sent' = Hosts /\ sent'[host] = sent[host] \cup {call}
      /\ \A h \in Hosts : h # host => sent'[h] = sent[h]
  BY <1>1, <1>2 DEF PhantomInv, ClockOK
<1>7. ClockOK'
  BY <1>1, <1>5, <1>6 DEF PhantomInv, ClockOK
<1>8. AssetsOK'
  BY <1>3, <1>5 DEF PhantomInv, AssetsOK
<1>9. \A h \in Hosts : \A b \in Analyses : \A j \in DOMAIN asset'[b] :
         WaitsFor(b, j, h)' =>
            /\ <<b, j>> # <<a, i>> /\ j \in DOMAIN asset[b]
            /\ asset'[b][j] = asset[b][j] /\ WaitsFor(b, j, h)
  BY <1>3, <1>5 DEF WaitsFor
<1>10. ASSUME NEW h \in Hosts, h # host
       PROVE  SlotsOK(h)' /\ CallsOK(h)'
  <2>1. SlotsOK(h)'
    BY <1>1, <1>6, <1>9, <1>10 DEF PhantomInv, SlotsOK, Apart
  <2>2. CallsOK(h)'
    BY <1>1, <1>6, <1>10 DEF PhantomInv, CallsOK, Apart
  <2>3. QED
    BY <2>1, <2>2
<1>11. /\ it.slot + MIN_INTERVAL[host] <= next_slot[host]
       /\ \A b \in Analyses : \A j \in DOMAIN asset[b] :
             WaitsFor(b, j, host) /\ <<a, i>> # <<b, j>> => Apart(host, it.slot, asset[b][j].slot)
       /\ \A x \in sent[host] : Apart(host, it.slot, x.slot)
  BY <1>2 DEF PhantomInv, SlotsOK
<1>12. SlotsOK(host)'
  <2> SUFFICES ASSUME NEW b \in Analyses, NEW j \in DOMAIN asset'[b], WaitsFor(b, j, host)'
               PROVE  /\ asset'[b][j].slot + MIN_INTERVAL[host] <= next_slot'[host]
                      /\ \A c \in Analyses : \A k \in DOMAIN asset'[c] :
                            WaitsFor(c, k, host)' /\ <<b, j>> # <<c, k>> =>
                                Apart(host, asset'[b][j].slot, asset'[c][k].slot)
                      /\ \A x \in sent'[host] : Apart(host, asset'[b][j].slot, x.slot)
    BY DEF SlotsOK, Apart
  <2>1. /\ <<b, j>> # <<a, i>> /\ j \in DOMAIN asset[b]
        /\ asset'[b][j] = asset[b][j] /\ WaitsFor(b, j, host)
    BY <1>2, <1>9
  <2>2. \A x \in sent[host] : Apart(host, asset[b][j].slot, x.slot)
    BY <1>2, <2>1 DEF PhantomInv, SlotsOK
  <2>3. Apart(host, asset[b][j].slot, call.slot)
    BY <1>4, <1>11, <2>1 DEF Apart
  <2>4. QED
    BY <1>1, <1>2, <1>6, <1>9, <2>1, <2>2, <2>3 DEF PhantomInv, SlotsOK
<1>13. CallsOK(host)'
  <2>1. /\ call.slot \in Nat /\ call.slot <= now
        /\ call.slot + MIN_INTERVAL[host] <= next_slot[host]
        /\ \A x \in sent[host] : Apart(host, call.slot, x.slot) /\ Apart(host, x.slot, call.slot)
    <3>1. now \in Nat
      BY DEF PhantomInv, ClockOK
    <3>2. QED
      BY <1>1, <1>3, <1>4, <1>11, <3>1 DEF Apart
  <2>2. \A x \in sent[host] :
           /\ x.slot \in Nat /\ x.slot <= now
           /\ x.slot + MIN_INTERVAL[host] <= next_slot[host]
           /\ \A y \in sent[host] : y # x => Apart(host, x.slot, y.slot)
    BY <1>2 DEF PhantomInv, CallsOK
  <2>3. \A x \in sent'[host] :
           /\ x.slot \in Nat
           /\ x.slot <= now'
           /\ x.slot + MIN_INTERVAL[host] <= next_slot'[host]
           /\ \A y \in sent'[host] : y # x => Apart(host, x.slot, y.slot)
    BY <1>1, <1>6, <2>1, <2>2
  <2>4. QED
    BY <2>3 DEF CallsOK, Apart
<1>14. QED
  BY <1>7, <1>8, <1>10, <1>12, <1>13 DEF PhantomInv

\* What an asset becomes when it stops waiting, or has not waited yet.
LEMMA AssetRests ==
    ASSUME PhantomInv, NEW a \in Analyses, NEW i \in DOMAIN asset[a], NEW new,
           Update(a, i, new), DOMAIN new = {"at", "slot", "found"},
           new.at \notin Waiting, new.slot \in Nat, UNCHANGED <<now, next_slot, sent>>
    PROVE  PhantomInv'
<1>1. /\ DOMAIN asset' = Analyses
      /\ \A b \in Analyses : DOMAIN asset'[b] = DOMAIN asset[b]
      /\ asset'[a][i] = new
      /\ \A b \in Analyses : \A j \in DOMAIN asset[b] :
            <<b, j>> # <<a, i>> => asset'[b][j] = asset[b][j]
  BY UpdateFacts DEF PhantomInv
<1>2. AssetsOK'
  BY <1>1 DEF PhantomInv, AssetsOK
<1>3. now' \in Nat /\ now' >= now
  BY DEF PhantomInv, ClockOK
<1>4. QED
  BY <1>1, <1>2, <1>3, NobodyCalls

LEMMA AssetStepKeeps ==
    ASSUME PhantomInv, NEW a \in Analyses, NEW i \in DOMAIN asset[a], AssetStep(a, i)
    PROVE  PhantomInv'
<1>1. DOMAIN asset[a][i] = {"at", "slot", "found"} /\ asset[a][i].slot \in Nat
  BY DEF PhantomInv, AssetsOK
<1>2. "crt" \in Hosts /\ "rdap" \in Hosts
  BY DEF Hosts
<1>3. HostOf("crt wait") = "crt" /\ HostOf("rdap wait") = "rdap" /\ HostOf("ip wait") = "rdap"
  BY DEF HostOf
<1>4. CASE Fetch(a, i)
  <2> DEFINE new == [asset[a][i] EXCEPT !.at = "crt wait", !.slot = Slot("crt")]
  <2>1. Update(a, i, new) /\ Reserve("crt") /\ UNCHANGED <<now, sent>>
    BY <1>4 DEF Fetch
  <2>2. DOMAIN new = {"at", "slot", "found"} /\ new.at = "crt wait" /\ new.slot = Slot("crt")
    BY <1>1
  <2> HIDE DEF new
  <2>3. QED
    BY <1>2, <1>3, <2>1, <2>2, SlotIsTaken DEF Waiting
<1>5. CASE Send(a, i)
  BY <1>5, SlotIsUsed
<1>6. CASE CrtAnswers(a, i)
  <2>1. PICK found : /\ Update(a, i, [at |-> "rdap wait", slot |-> Slot("rdap"), found |-> found])
                     /\ Reserve("rdap") /\ UNCHANGED <<now, sent>>
    BY <1>6 DEF CrtAnswers
  <2> DEFINE new == [at |-> "rdap wait", slot |-> Slot("rdap"), found |-> found]
  <2>2. DOMAIN new = {"at", "slot", "found"} /\ new.at = "rdap wait" /\ new.slot = Slot("rdap")
    OBVIOUS
  <2>3. Update(a, i, new)
    BY <2>1
  <2> HIDE DEF new
  <2>4. QED
    BY <1>2, <1>3, <2>1, <2>2, <2>3, SlotIsTaken DEF Waiting
<1>7. CASE AssetRaises(a, i)
  <2> DEFINE new == [asset[a][i] EXCEPT !.at = "raised"]
  <2>1. Update(a, i, new) /\ UNCHANGED <<now, next_slot, sent>>
    BY <1>7 DEF AssetRaises
  <2>2. DOMAIN new = {"at", "slot", "found"} /\ new.at \notin Waiting /\ new.slot \in Nat
    BY <1>1 DEF Waiting
  <2> HIDE DEF new
  <2>3. QED
    BY <2>1, <2>2, AssetRests
<1>8. CASE RdapAnswers(a, i)
  <2>1. PICK found :
           /\ \/ /\ Update(a, i, [at |-> "ip wait", slot |-> Slot("rdap"), found |-> found])
                 /\ Reserve("rdap")
              \/ /\ Update(a, i, [at |-> "done", slot |-> 0, found |-> found])
                 /\ UNCHANGED next_slot
           /\ UNCHANGED <<now, sent>>
    BY <1>8 DEF RdapAnswers
  <2> DEFINE asks == [at |-> "ip wait", slot |-> Slot("rdap"), found |-> found]
             ends == [at |-> "done", slot |-> 0, found |-> found]
  <2>2. /\ DOMAIN asks = {"at", "slot", "found"} /\ asks.at = "ip wait" /\ asks.slot = Slot("rdap")
        /\ DOMAIN ends = {"at", "slot", "found"} /\ ends.at \notin Waiting /\ ends.slot \in Nat
    BY DEF Waiting
  <2>3. \/ Update(a, i, asks) /\ Reserve("rdap")
        \/ Update(a, i, ends) /\ UNCHANGED next_slot
    BY <2>1
  <2> HIDE DEF asks, ends
  <2>4. CASE Update(a, i, asks) /\ Reserve("rdap")
    BY <1>2, <1>3, <2>1, <2>2, <2>4, SlotIsTaken DEF Waiting
  <2>5. CASE Update(a, i, ends) /\ UNCHANGED next_slot
    BY <2>1, <2>2, <2>5, AssetRests
  <2>6. QED
    BY <2>3, <2>4, <2>5
<1>9. CASE IpAnswers(a, i)
  <2>1. PICK found : /\ Update(a, i, [at |-> "done", slot |-> 0, found |-> found])
                     /\ UNCHANGED <<now, next_slot, sent>>
    BY <1>9 DEF IpAnswers
  <2> DEFINE new == [at |-> "done", slot |-> 0, found |-> found]
  <2>2. DOMAIN new = {"at", "slot", "found"} /\ new.at \notin Waiting /\ new.slot \in Nat
    BY DEF Waiting
  <2>3. Update(a, i, new)
    BY <2>1
  <2> HIDE DEF new
  <2>4. QED
    BY <2>1, <2>2, <2>3, AssetRests
<1>10. QED
  BY <1>4, <1>5, <1>6, <1>7, <1>8, <1>9 DEF AssetStep

\* An analysis that starts, or whose fixtures answer: all its assets at rest.
LEMMA AnalysisRests ==
    ASSUME PhantomInv, NEW a \in Analyses, NEW fresh,
           asset' = [asset EXCEPT ![a] = fresh],
           \A i \in DOMAIN fresh : /\ DOMAIN fresh[i] = {"at", "slot", "found"}
                                   /\ fresh[i].at \notin Waiting /\ fresh[i].slot \in Nat,
           UNCHANGED <<now, next_slot, sent>>
    PROVE  PhantomInv'
<1>1. /\ DOMAIN asset' = Analyses /\ asset'[a] = fresh
      /\ \A b \in Analyses : b # a => asset'[b] = asset[b]
  BY DEF PhantomInv, ClockOK
<1>2. AssetsOK'
  BY <1>1 DEF PhantomInv, AssetsOK
<1>3. now' \in Nat /\ now' >= now
  BY DEF PhantomInv, ClockOK
<1>4. QED
  BY <1>1, <1>2, <1>3, NobodyCalls

LEMMA PhantomStep ==
    ASSUME PhantomInv, [PhantomNext]_phantomVars
    PROVE  PhantomInv'
<1>1. ASSUME UNCHANGED <<asset, now, next_slot, sent>>
      PROVE  PhantomInv'
  <2>1. now \in Nat /\ DOMAIN asset = Analyses
    BY DEF PhantomInv, ClockOK
  <2>2. AssetsOK'
    BY <1>1 DEF PhantomInv, AssetsOK
  <2>3. QED
    BY <1>1, <2>1, <2>2, NobodyCalls
<1>2. CASE Tick
  <2>1. now \in Nat /\ DOMAIN asset = Analyses /\ now' = now + 1
        /\ UNCHANGED <<asset, next_slot, sent>>
    BY <1>2 DEF PhantomInv, ClockOK, Tick
  <2>2. AssetsOK'
    BY <2>1 DEF PhantomInv, AssetsOK
  <2>3. QED
    BY <2>1, <2>2, NobodyCalls
<1>3. ASSUME NEW a \in Analyses, NEW request \in Requests[a], Analyze(a, request)
      PROVE  PhantomInv'
  <2>1. PICK domain : /\ asset' = [asset EXCEPT ![a] = [i \in domain |-> Fresh]]
                      /\ UNCHANGED <<now, next_slot, sent>>
    BY <1>3 DEF Analyze
  <2> DEFINE fresh == [i \in domain |-> Fresh]
  <2>2. \A i \in DOMAIN fresh : /\ DOMAIN fresh[i] = {"at", "slot", "found"}
                                /\ fresh[i].at \notin Waiting /\ fresh[i].slot \in Nat
    BY DEF Fresh, Waiting
  <2>3. asset' = [asset EXCEPT ![a] = fresh]
    BY <2>1
  <2> HIDE DEF fresh
  <2>4. QED
    BY <2>1, <2>2, <2>3, AnalysisRests
<1>4. ASSUME NEW a \in Analyses, Mock(a)
      PROVE  PhantomInv'
  <2> DEFINE fresh == [i \in DOMAIN asset[a] |->
                          [at |-> "done", slot |-> 0, found |-> Profile(Form(a, i))]]
  <2>1. asset' = [asset EXCEPT ![a] = fresh] /\ UNCHANGED <<now, next_slot, sent>>
    BY <1>4 DEF Mock
  <2>2. \A i \in DOMAIN fresh : /\ DOMAIN fresh[i] = {"at", "slot", "found"}
                                /\ fresh[i].at \notin Waiting /\ fresh[i].slot \in Nat
    BY DEF Waiting
  <2> HIDE DEF fresh
  <2>3. QED
    BY <2>1, <2>2, AnalysisRests
<1>5. ASSUME NEW a \in Analyses, NEW i \in DOMAIN asset[a], AssetStep(a, i)
      PROVE  PhantomInv'
  BY <1>5, AssetStepKeeps
<1>6. ASSUME NEW a \in Analyses,
             GatherRaises(a) \/ \E keys \in SummaryKeys, answer \in SummaryAnswers :
                                    Conclude(a, keys, answer)
      PROVE  PhantomInv'
  <2>1. UNCHANGED <<asset, now, next_slot, sent>>
    BY <1>6 DEF GatherRaises, Conclude
  <2>2. QED
    BY <1>1, <2>1
<1>7. CASE UNCHANGED phantomVars
  BY <1>1, <1>7 DEF phantomVars
<1>8. QED
  BY <1>2, <1>3, <1>4, <1>5, <1>6, <1>7 DEF PhantomNext, AnalysisStep

LEMMA PhantomInitially == PhantomInit => PhantomInv
BY DEF PhantomInit, PhantomInv, ClockOK, AssetsOK, SlotsOK, CallsOK, WaitsFor, Hosts

\* Each slot of a limiter is given once, an interval after the one before, and
\* used once, through any failures (_RateLimiter.wait, enrich_domains).
THEOREM SlotsAreKept == PhantomSpec => []PhantomInv
BY PhantomInitially, PhantomStep, PTL DEF PhantomSpec

\* The calls of all analyses to a host are spread out (_RateLimiter.wait).
THEOREM CallsKeepTheirDistance == PhantomSpec => []CallsAreSpaced
<1>1. PhantomInv => CallsAreSpaced
  <2> SUFFICES ASSUME PhantomInv, NEW host \in Hosts
               PROVE  /\ \A call, later \in sent[host] :
                            call # later /\ call.slot <= later.slot =>
                                later.slot >= call.slot + MIN_INTERVAL[host]
                      /\ \A call \in sent[host] : call.slot <= now
    BY DEF CallsAreSpaced, Hosts
  <2>1. ASSUME NEW call \in sent[host], NEW later \in sent[host],
               call # later, call.slot <= later.slot
        PROVE  later.slot >= call.slot + MIN_INTERVAL[host]
    <3>1. call.slot \in Nat /\ later.slot \in Nat /\ Apart(host, call.slot, later.slot)
      BY <2>1 DEF PhantomInv, CallsOK
    <3>2. QED
      BY <2>1, <3>1, Intervals DEF Apart
  <2>2. QED
    BY <2>1 DEF PhantomInv, CallsOK
<1>2. QED
  BY <1>1, SlotsAreKept, PTL

-----------------------------------------------------------------------------
(* The sensor's cache of addresses *)

\* Where each address was last used.
LastUses == {i \in DOMAIN uses : \A j \in DOMAIN uses : uses[j] = uses[i] => j <= i}

\* The entries of the cache stand for last uses, in the order of time; those the
\* cache has lost are before all of them, and then it is full.
StandFor(pos) ==
    /\ \A k \in DOMAIN cache : uses[pos[k]] = cache[k].ip
    /\ Ascends(pos)
    /\ \A i \in LastUses :
          \/ \E k \in DOMAIN cache : pos[k] = i
          \/ Len(cache) = _MAX_CACHE_ENTRIES /\ \A k \in DOMAIN cache : i < pos[k]

Entry == [ip : {Ip(v) : v \in Visits}, at : Nat]

CacheInv ==
    /\ uses \in Seq({Ip(v) : v \in Visits})
    /\ cache \in Seq(Entry) /\ Len(cache) <= _MAX_CACHE_ENTRIES
    /\ \E pos \in [DOMAIN cache -> LastUses] : StandFor(pos)

\* What is known of a visitor is of its address, and fresh.
GeoInv ==
    /\ DOMAIN visits = Visits
    /\ \A v \in Visits : visits[v].geo # NoGeo =>
          visits[v].geo.ip = Ip(v) /\ visits[v].geo.age < _CACHE_TTL_SECONDS

\* The cache has the addresses used last, each once and in that order.
LEMMA CacheIsLatest ==
    ASSUME CacheInv
    PROVE  [i \in DOMAIN cache |-> cache[i].ip]
              = Reverse(FirstOf(FromKeys(Reverse(uses)), _MAX_CACHE_ENTRIES))
<1> DEFINE ips == {Ip(v) : v \in Visits}
<1>1. PICK most : most = _MAX_CACHE_ENTRIES
  OBVIOUS
<1>2. PICK n : n = Len(uses)
  OBVIOUS
<1>3. PICK m : m = Len(cache)
  OBVIOUS
<1>4. /\ n \in Nat /\ DOMAIN uses = 1..n
      /\ m \in Nat /\ DOMAIN cache = 1..m
      /\ m <= most /\ most \in Nat \ {0}
  BY <1>1, <1>2, <1>3, LenProperties, VisitAssumption DEF CacheInv
<1>5. PICK pos \in [DOMAIN cache -> LastUses] : StandFor(pos)
  BY DEF CacheInv
<1>6. /\ \A k \in 1..m : pos[k] \in 1..n /\ uses[pos[k]] = cache[k].ip
      /\ \A j, k \in 1..m : j < k => pos[j] < pos[k]
      /\ \A i \in LastUses : (\E k \in 1..m : pos[k] = i)
                             \/ (m = most /\ \A k \in 1..m : i < pos[k])
  BY <1>1, <1>3, <1>4, <1>5 DEF StandFor, Ascends, LastUses
<1>7. PICK r : r = Reverse(uses)
  OBVIOUS
<1>8. r \in Seq(ips) /\ Len(r) = n /\ DOMAIN r = 1..n
      /\ \A i \in 1..n : r[i] = uses[n + 1 - i]
  <2>1. r = [i \in 1..n |-> uses[(n - i) + 1]]
    BY <1>2, <1>7 DEF Reverse
  <2>2. \A i \in 1..n : uses[i] \in ips
    BY <1>2, ElementOfSeq DEF CacheInv
  <2>3. \A i \in 1..n : (n - i) + 1 \in 1..n /\ (n - i) + 1 = n + 1 - i
    BY <1>4
  <2>4. r \in [1..n -> ips]
    BY <2>1, <2>2, <2>3
  <2>5. QED
    BY <1>4, <2>1, <2>3, <2>4
<1>9. PICK firsts : firsts = Firsts(r)
  OBVIOUS
<1>10. firsts \in SUBSET DOMAIN r /\ firsts \in SUBSET Nat /\ IsFiniteSet(firsts)
  <2>1. firsts \in SUBSET DOMAIN r
    BY <1>9 DEF Firsts
  <2>2. QED
    BY <1>8, <2>1, PlacesAreFinite
<1>11. \A i \in 1..n : i \in firsts <=> n + 1 - i \in LastUses
  <2> SUFFICES ASSUME NEW i \in 1..n
               PROVE  i \in firsts <=> n + 1 - i \in LastUses
    OBVIOUS
  <2>1. i \in firsts <=> \A j \in 1..(i - 1) : uses[n + 1 - j] # uses[n + 1 - i]
    <3>1. \A j \in 1..(i - 1) : j \in 1..n
      BY <1>4
    <3>2. QED
      BY <1>8, <1>9, <3>1 DEF Firsts
  <2>2. n + 1 - i \in LastUses <=> \A j \in 1..n : uses[j] = uses[n + 1 - i] => j <= n + 1 - i
    BY <1>4 DEF LastUses
  <2>3. (\A j \in 1..(i - 1) : uses[n + 1 - j] # uses[n + 1 - i])
          <=> \A j \in 1..n : uses[j] = uses[n + 1 - i] => j <= n + 1 - i
    <3>1. ASSUME \A j \in 1..(i - 1) : uses[n + 1 - j] # uses[n + 1 - i],
                 NEW j \in 1..n, uses[j] = uses[n + 1 - i], ~(j <= n + 1 - i)
          PROVE  FALSE
      <4>1. n + 1 - j \in 1..(i - 1) /\ n + 1 - (n + 1 - j) = j
        BY <1>4, <3>1
      <4>2. QED
        BY <3>1, <4>1
    <3>2. ASSUME \A j \in 1..n : uses[j] = uses[n + 1 - i] => j <= n + 1 - i,
                 NEW j \in 1..(i - 1), uses[n + 1 - j] = uses[n + 1 - i]
          PROVE  FALSE
      <4>1. n + 1 - j \in 1..n /\ ~(n + 1 - j <= n + 1 - i)
        BY <1>4
      <4>2. QED
        BY <3>2, <4>1
    <3>3. QED
      BY <3>1, <3>2
  <2>4. QED
    BY <2>1, <2>2, <2>3
<1>12. PICK t : t = [k \in 1..m |-> n + 1 - pos[m + 1 - k]]
  OBVIOUS
<1>13. \A k \in 1..m : /\ m + 1 - k \in 1..m /\ pos[m + 1 - k] \in 1..n
                       /\ t[k] = n + 1 - pos[m + 1 - k] /\ t[k] \in 1..n
  BY <1>4, <1>6, <1>12
<1>14. t \in Seq(firsts) /\ Len(t) = m /\ DOMAIN t = 1..m
  <2>1. \A k \in 1..m : t[k] \in firsts
    <3> SUFFICES ASSUME NEW k \in 1..m
                 PROVE  t[k] \in firsts
      OBVIOUS
    <3>1. n + 1 - t[k] = pos[m + 1 - k]
      BY <1>4, <1>13
    <3>2. pos[m + 1 - k] \in LastUses
      BY <1>4, <1>5, <1>13
    <3>3. QED
      BY <1>11, <1>13, <3>1, <3>2
  <2>2. t \in [1..m -> firsts]
    BY <1>12, <2>1
  <2>3. QED
    BY <1>4, <1>12, <2>2
<1>15. Ascends(t)
  <2> SUFFICES ASSUME NEW j \in 1..m, NEW k \in 1..m, j < k
               PROVE  t[j] < t[k]
    BY <1>14 DEF Ascends
  <2>1. m + 1 - k < m + 1 - j
    BY <1>4
  <2>2. pos[m + 1 - k] < pos[m + 1 - j]
    BY <1>6, <1>13, <2>1
  <2>3. QED
    BY <1>4, <1>13, <2>2
<1>16. \A q \in firsts : (\E k \in 1..m : t[k] = q) \/ (m = most /\ \A k \in 1..m : t[k] < q)
  <2> SUFFICES ASSUME NEW q \in firsts
               PROVE  (\E k \in 1..m : t[k] = q) \/ (m = most /\ \A k \in 1..m : t[k] < q)
    OBVIOUS
  <2>1. q \in 1..n
    BY <1>8, <1>10
  <2>2. n + 1 - q \in LastUses
    BY <1>11, <2>1
  <2>3. CASE \E k \in 1..m : pos[k] = n + 1 - q
    <3>1. PICK k \in 1..m : pos[k] = n + 1 - q
      BY <2>3
    <3>2. m + 1 - k \in 1..m /\ m + 1 - (m + 1 - k) = k
      BY <1>4
    <3>3. t[m + 1 - k] = n + 1 - pos[k]
      BY <1>13, <3>2
    <3>4. t[m + 1 - k] = q
      BY <1>4, <2>1, <3>1, <3>3
    <3>5. QED
      BY <3>2, <3>4
  <2>4. CASE m = most /\ \A k \in 1..m : n + 1 - q < pos[k]
    <3>1. \A k \in 1..m : t[k] < q
      <4> SUFFICES ASSUME NEW k \in 1..m
                   PROVE  t[k] < q
        OBVIOUS
      <4>1. n + 1 - q < pos[m + 1 - k]
        BY <1>13, <2>4
      <4>2. QED
        BY <1>4, <1>13, <2>1, <4>1
    <3>2. QED
      BY <2>4, <3>1
  <2>5. QED
    BY <1>6, <2>2, <2>3, <2>4
<1>17. /\ m <= Cardinality(firsts)
       /\ \A k \in 1..m : Ascending(firsts)[k] = t[k]
       /\ (\A q \in firsts : \E k \in 1..m : t[k] = q) => m = Cardinality(firsts)
  BY <1>10, <1>14, <1>15, <1>16, BeginsAscending
<1>18. PICK keys : keys = FromKeys(r)
  OBVIOUS
<1>19. /\ keys \in Seq(ips) /\ Len(keys) = Cardinality(firsts)
       /\ \A k \in 1..Len(keys) : keys[k] = r[Ascending(firsts)[k]]
  <2>1. keys = Picked(r, firsts)
    BY <1>8, <1>9, <1>18, FromKeysPicks
  <2>2. /\ keys \in Seq(ips) /\ Len(keys) = Cardinality(firsts)
        /\ \A k \in DOMAIN keys : keys[k] = r[Ascending(firsts)[k]]
    BY <1>8, <1>10, <2>1, PickedInOrder
  <2>3. DOMAIN keys = 1..Len(keys)
    BY <2>2, LenProperties
  <2>4. QED
    BY <2>2, <2>3
<1>20. m = IF most < Len(keys) THEN most ELSE Len(keys)
  <2>1. Cardinality(firsts) \in Nat
    BY <1>10, FS_CardinalityType
  <2>2. m = most \/ m = Cardinality(firsts)
    BY <1>16, <1>17
  <2>3. QED
    BY <1>4, <1>17, <1>19, <2>1, <2>2
<1>21. PICK first : first = FirstOf(keys, most)
  OBVIOUS
<1>22. /\ Len(first) = m
       /\ \A k \in 1..m : first[k] = keys[k] /\ k \in 1..Len(keys)
  <2>1. first = SubSeq(keys, 1, m) /\ m <= Len(keys)
    BY <1>17, <1>19, <1>20, <1>21 DEF FirstOf
  <2>2. Len(keys) \in Nat
    BY <1>19, LenProperties
  <2>3. QED
    BY <1>4, <1>19, <2>1, <2>2, SubSeqProperties
<1>23. \A i \in 1..m : first[(m - i) + 1] = cache[i].ip
  <2> SUFFICES ASSUME NEW i \in 1..m
               PROVE  first[(m - i) + 1] = cache[i].ip
    OBVIOUS
  <2>1. PICK k : k = (m - i) + 1
    OBVIOUS
  <2>2. k \in 1..m /\ m + 1 - k = i
    BY <1>4, <2>1
  <2>3. first[k] = r[t[k]]
    BY <1>17, <1>19, <1>22, <2>2
  <2>4. t[k] = n + 1 - pos[i] /\ pos[i] \in 1..n /\ t[k] \in 1..n
    BY <1>13, <2>2
  <2>5. r[t[k]] = uses[pos[i]]
    BY <1>4, <1>8, <2>4
  <2>6. QED
    BY <1>6, <2>1, <2>3, <2>5
<1>24. Reverse(first) = [i \in 1..m |-> first[(m - i) + 1]]
  BY <1>22 DEF Reverse
<1>25. Reverse(first) = [i \in 1..m |-> cache[i].ip]
  BY <1>23, <1>24
<1>26. QED
  BY <1>1, <1>4, <1>7, <1>18, <1>21, <1>25

\* An entry that is used goes to the end, and the cache keeps its limit.
LEMMA UseKeepsOrder ==
    ASSUME CacheInv, NEW entry \in Entry,
           uses' = Append(uses, entry.ip),
           cache' = IF Len(MovedToEnd(entry)) > _MAX_CACHE_ENTRIES THEN Tail(MovedToEnd(entry))
                    ELSE MovedToEnd(entry)
    PROVE  CacheInv'
<1> DEFINE ips == {Ip(v) : v \in Visits}
<1>1. PICK most : most = _MAX_CACHE_ENTRIES
  OBVIOUS
<1>2. PICK n : n = Len(uses)
  OBVIOUS
<1>3. PICK m : m = Len(cache)
  OBVIOUS
<1>4. PICK x : x = entry.ip
  OBVIOUS
<1>5. /\ n \in Nat /\ DOMAIN uses = 1..n
      /\ m \in Nat /\ DOMAIN cache = 1..m
      /\ m <= most /\ most \in Nat \ {0}
      /\ x \in ips
  BY <1>1, <1>2, <1>3, <1>4, LenProperties, VisitAssumption DEF CacheInv, Entry
<1>6. PICK pos \in [DOMAIN cache -> LastUses] : StandFor(pos)
  BY DEF CacheInv
<1>7. /\ \A k \in 1..m : pos[k] \in 1..n /\ pos[k] \in LastUses /\ uses[pos[k]] = cache[k].ip
      /\ \A j, k \in 1..m : j < k => pos[j] < pos[k]
      /\ \A i \in LastUses : (\E k \in 1..m : pos[k] = i)
                             \/ (m = most /\ \A k \in 1..m : i < pos[k])
  BY <1>1, <1>3, <1>5, <1>6 DEF StandFor, Ascends, LastUses
<1>8. /\ uses' \in Seq(ips) /\ Len(uses') = n + 1 /\ DOMAIN uses' = 1..(n + 1)
      /\ \A i \in 1..n : uses'[i] = uses[i]
      /\ uses'[n + 1] = x
  BY <1>2, <1>4, <1>5, AppendProperties, LenProperties DEF CacheInv
<1>9. PICK others : others = {i \in DOMAIN cache : cache[i].ip # x}
  OBVIOUS
<1>10. PICK at : at = Ascending(others)
  OBVIOUS
<1>11. PICK c : c = Cardinality(others)
  OBVIOUS
<1>12. /\ others \in SUBSET DOMAIN cache
       /\ others \in SUBSET Nat /\ IsFiniteSet(others)
  BY <1>9, PlacesAreFinite DEF CacheInv
<1>13. /\ c \in Nat
       /\ DOMAIN at = 1..c
       /\ \A k \in 1..c : at[k] \in 1..m /\ cache[at[k]].ip # x
       /\ \A j, k \in 1..c : j < k => at[j] < at[k]
       /\ \A i \in others : \E k \in 1..c : at[k] = i
  <2>1. c \in Nat
    BY <1>11, <1>12, FS_CardinalityType
  <2>2. /\ at \in Seq(others) /\ Len(at) = c /\ DOMAIN at = 1..c /\ Ascends(at)
        /\ \A i \in others : \E k \in 1..c : at[k] = i
    BY <1>10, <1>11, <1>12, AscendingIsSorted
  <2>3. \A k \in 1..c : at[k] \in others
    BY <2>2, ElementOfSeq
  <2>4. QED
    BY <1>5, <1>9, <2>1, <2>2, <2>3 DEF Ascends
<1>14. PICK moved : moved = MovedToEnd(entry)
  OBVIOUS
<1>15. /\ moved \in Seq(Entry) /\ Len(moved) = c + 1
       /\ \A k \in 1..c : moved[k] = cache[at[k]]
       /\ moved[c + 1] = entry
  <2>1. PICK picked : picked = Picked(cache, others)
    OBVIOUS
  <2>2. /\ picked \in Seq(Entry) /\ Len(picked) = c
        /\ \A k \in 1..c : picked[k] = cache[at[k]]
    <3>1. /\ picked \in Seq(Entry) /\ Len(picked) = c
          /\ \A k \in DOMAIN picked : picked[k] = cache[at[k]]
      BY <1>10, <1>11, <1>12, <2>1, PickedInOrder DEF CacheInv
    <3>2. DOMAIN picked = 1..c
      BY <3>1, LenProperties
    <3>3. QED
      BY <3>1, <3>2
  <2>3. moved = Append(picked, entry)
    BY <1>4, <1>9, <1>14, <2>1 DEF MovedToEnd, Kept
  <2>4. QED
    BY <1>13, <2>2, <2>3, AppendProperties
<1>16. LastUses' = {i \in LastUses : uses[i] # x} \cup {n + 1}
  <2>1. \A i : i \in LastUses' <=>
           i \in 1..(n + 1) /\ \A j \in 1..(n + 1) : uses'[j] = uses'[i] => j <= i
    BY <1>8 DEF LastUses
  <2>2. \A i : i \in LastUses <=> i \in 1..n /\ \A j \in 1..n : uses[j] = uses[i] => j <= i
    BY <1>5 DEF LastUses
  <2>3. n + 1 \in LastUses'
    BY <1>5, <2>1
  <2>4. ASSUME NEW i \in 1..n
        PROVE  i \in LastUses' <=> i \in LastUses /\ uses[i] # x
    <3>1. uses'[i] = uses[i] /\ i \in 1..(n + 1) /\ ~(n + 1 <= i)
      BY <1>5, <1>8
    <3>2. CASE uses[i] = x
      BY <1>5, <1>8, <2>1, <3>1, <3>2
    <3>3. CASE uses[i] # x
      <4>1. \A j \in 1..(n + 1) : j = n + 1 \/ j \in 1..n
        BY <1>5
      <4>2. (\A j \in 1..(n + 1) : uses'[j] = uses'[i] => j <= i)
              <=> \A j \in 1..n : uses[j] = uses[i] => j <= i
        <5>1. ASSUME \A j \in 1..(n + 1) : uses'[j] = uses'[i] => j <= i,
                     NEW j \in 1..n, uses[j] = uses[i]
              PROVE  j <= i
          <6>1. j \in 1..(n + 1) /\ uses'[j] = uses[j]
            BY <1>5, <1>8
          <6>2. QED
            BY <3>1, <5>1, <6>1
        <5>2. ASSUME \A j \in 1..n : uses[j] = uses[i] => j <= i,
                     NEW j \in 1..(n + 1), uses'[j] = uses'[i]
              PROVE  j <= i
          <6>1. j # n + 1
            BY <1>8, <3>1, <3>3, <5>2
          <6>2. j \in 1..n /\ uses'[j] = uses[j]
            BY <1>8, <4>1, <6>1
          <6>3. QED
            BY <3>1, <5>2, <6>2
        <5>3. QED
          BY <5>1, <5>2
      <4>3. QED
        BY <2>1, <2>2, <3>1, <3>3, <4>2
    <3>4. QED
      BY <3>2, <3>3
  <2>5. \A i \in LastUses' : i \in 1..n \/ i = n + 1
    BY <1>5, <2>1
  <2>6. \A i \in LastUses : i \in 1..n
    BY <2>2
  <2>7. QED
    BY <2>3, <2>4, <2>5, <2>6
<1>17. PICK new : new = [k \in 1..(c + 1) |-> IF k <= c THEN pos[at[k]] ELSE n + 1]
  OBVIOUS
<1>18. /\ \A k \in 1..c : new[k] = pos[at[k]] /\ k \in 1..(c + 1)
       /\ new[c + 1] = n + 1
       /\ \A k \in 1..(c + 1) : k \in 1..c \/ k = c + 1
  BY <1>13, <1>17
<1>19. \A k \in 1..(c + 1) : new[k] \in LastUses' /\ uses'[new[k]] = moved[k].ip
  <2>1. \A k \in 1..c : new[k] \in LastUses' /\ uses'[new[k]] = moved[k].ip
    <3> SUFFICES ASSUME NEW k \in 1..c
                 PROVE  new[k] \in LastUses' /\ uses'[new[k]] = moved[k].ip
      OBVIOUS
    <3>1. at[k] \in 1..m /\ cache[at[k]].ip # x /\ new[k] = pos[at[k]] /\ moved[k] = cache[at[k]]
      BY <1>13, <1>15, <1>18
    <3>2. new[k] \in 1..n /\ new[k] \in LastUses /\ uses[new[k]] = moved[k].ip
      BY <1>7, <3>1
    <3>3. QED
      BY <1>8, <1>16, <3>1, <3>2
  <2>2. new[c + 1] \in LastUses' /\ uses'[new[c + 1]] = moved[c + 1].ip
    BY <1>4, <1>8, <1>15, <1>16, <1>18
  <2>3. QED
    BY <1>18, <2>1, <2>2
<1>20. /\ \A k \in 1..(c + 1) : new[k] \in Nat
       /\ \A j, k \in 1..(c + 1) : j < k => new[j] < new[k]
  <2>1. \A k \in 1..c : new[k] \in 1..n
    BY <1>7, <1>13, <1>18
  <2>2. \A k \in 1..(c + 1) : new[k] \in Nat
    BY <1>5, <1>18, <2>1
  <2>3. ASSUME NEW j \in 1..(c + 1), NEW k \in 1..(c + 1), j < k
        PROVE  new[j] < new[k]
    <3>1. j \in 1..c
      BY <1>13, <2>3
    <3>2. CASE k \in 1..c
      <4>1. at[j] < at[k] /\ at[j] \in 1..m /\ at[k] \in 1..m
        BY <1>13, <2>3, <3>1, <3>2
      <4>2. QED
        BY <1>7, <1>18, <3>1, <3>2, <4>1
    <3>3. CASE k = c + 1
      BY <1>5, <1>18, <2>1, <3>1, <3>3
    <3>4. QED
      BY <1>18, <3>2, <3>3
  <2>4. QED
    BY <2>2, <2>3
<1>21. c <= m /\ m <= c + 1
  <2>1. IsFiniteSet(1..m) /\ Cardinality(1..m) = m
    BY <1>5, FS_Interval
  <2>2. c <= m
    BY <1>5, <1>11, <1>12, <2>1, FS_Subset
  <2>3. \A j, k \in 1..m : j \notin others /\ k \notin others => j = k
    <3> SUFFICES ASSUME NEW j \in 1..m, NEW k \in 1..m, cache[j].ip = x, cache[k].ip = x
                 PROVE  j = k
      BY <1>5, <1>9
    <3>1. pos[j] \in LastUses /\ pos[k] \in LastUses /\ uses[pos[j]] = uses[pos[k]]
          /\ pos[j] \in 1..n /\ pos[k] \in 1..n
      BY <1>7
    <3>2. pos[j] <= pos[k] /\ pos[k] <= pos[j]
      BY <1>5, <3>1 DEF LastUses
    <3>3. ~(j < k) /\ ~(k < j)
      BY <1>7, <3>1, <3>2
    <3>4. QED
      BY <1>5, <3>3
  <2>4. m <= c + 1
    <3>1. CASE \A j \in 1..m : j \in others
      <4>1. others = 1..m
        BY <1>5, <1>12, <3>1
      <4>2. QED
        BY <1>5, <1>11, <2>1, <4>1
    <3>2. CASE \E j \in 1..m : j \notin others
      <4>1. PICK j \in 1..m : j \notin others
        BY <3>2
      <4>2. others = (1..m) \ {j}
        BY <1>5, <1>12, <2>3, <4>1
      <4>3. Cardinality(others) = Cardinality(1..m) - 1
        BY <2>1, <4>2, FS_RemoveElement
      <4>4. QED
        BY <1>5, <1>11, <2>1, <4>3
    <3>3. QED
      BY <3>1, <3>2
  <2>5. QED
    BY <2>2, <2>4
<1>22. \A i \in LastUses' :
          \/ \E k \in 1..(c + 1) : new[k] = i
          \/ most <= c + 1 /\ \A k \in 1..(c + 1) : i < new[k]
  <2> SUFFICES ASSUME NEW i \in LastUses', ~\E k \in 1..(c + 1) : new[k] = i
               PROVE  most <= c + 1 /\ \A k \in 1..(c + 1) : i < new[k]
    OBVIOUS
  <2>1. c + 1 \in 1..(c + 1)
    BY <1>13
  <2>2. i \in LastUses /\ uses[i] # x /\ i \in 1..n
    BY <1>5, <1>16, <1>18, <2>1 DEF LastUses
  <2>3. ~\E k \in 1..m : pos[k] = i
    <3> SUFFICES ASSUME NEW k \in 1..m, pos[k] = i
                 PROVE  FALSE
      OBVIOUS
    <3>1. k \in others
      BY <1>5, <1>7, <1>9, <2>2
    <3>2. PICK j \in 1..c : at[j] = k
      BY <1>13, <3>1
    <3>3. j \in 1..(c + 1) /\ new[j] = i
      BY <1>18, <3>2
    <3>4. QED
      BY <3>3
  <2>4. m = most /\ \A k \in 1..m : i < pos[k]
    BY <1>7, <2>2, <2>3
  <2>5. \A k \in 1..(c + 1) : i < new[k]
    BY <1>5, <1>13, <1>18, <2>2, <2>4
  <2>6. QED
    BY <1>21, <2>4, <2>5
<1>23. CASE c + 1 <= most
  <2>1. cache' = moved
    BY <1>1, <1>5, <1>13, <1>14, <1>15, <1>23
  <2>2. Len(cache') = c + 1 /\ DOMAIN cache' = 1..(c + 1)
    BY <1>15, <2>1, LenProperties
  <2>3. new \in [DOMAIN cache' -> LastUses']
    BY <1>17, <1>19, <2>2
  <2>4. StandFor(new)'
    <3>1. \A k \in DOMAIN cache' : uses'[new[k]] = cache'[k].ip
      BY <1>19, <2>1, <2>2
    <3>2. DOMAIN new = 1..(c + 1)
      BY <1>17
    <3>3. Ascends(new)
      BY <1>20, <3>2 DEF Ascends
    <3>4. \A i \in LastUses' :
             \/ \E k \in DOMAIN cache' : new[k] = i
             \/ Len(cache') = most /\ \A k \in DOMAIN cache' : i < new[k]
      <4>1. most <= c + 1 => Len(cache') = most
        <5>1. most \in Nat /\ c \in Nat /\ c + 1 <= most /\ Len(cache') = c + 1
          BY <1>5, <1>13, <1>23, <2>2
        <5>2. QED
          BY <5>1
      <4>2. QED
        BY <1>22, <2>2, <4>1
    <3>5. QED
      BY <1>1, <3>1, <3>3, <3>4 DEF StandFor
  <2>5. QED
    BY <1>1, <1>8, <1>15, <1>23, <2>1, <2>2, <2>3, <2>4 DEF CacheInv
<1>24. CASE c + 1 > most
  <2>1. c = m /\ m = most /\ cache' = Tail(moved)
    BY <1>1, <1>5, <1>13, <1>14, <1>15, <1>21, <1>24
  <2>2. /\ cache' \in Seq(Entry) /\ Len(cache') = most /\ DOMAIN cache' = 1..most
        /\ \A k \in 1..most : cache'[k] = moved[k + 1] /\ k + 1 \in 1..(c + 1)
    <3>1. moved # <<>> /\ Len(moved) = most + 1
      BY <1>5, <1>15, <2>1
    <3>2. /\ Tail(moved) \in Seq(Entry) /\ Len(Tail(moved)) = Len(moved) - 1
          /\ \A k \in 1..Len(Tail(moved)) : Tail(moved)[k] = moved[k + 1]
      BY <1>15, <3>1, HeadTailProperties
    <3>3. Len(cache') = most
      <4>1. most \in Nat /\ Len(moved) = most + 1
        BY <1>5, <3>1
      <4>2. Len(Tail(moved)) = Len(moved) - 1
        BY <3>2
      <4>3. Len(Tail(moved)) = most
        BY <4>1, <4>2
      <4>4. QED
        BY <2>1, <4>3
    <3>4. DOMAIN cache' = 1..most
      BY <2>1, <3>2, <3>3, LenProperties
    <3>5. \A k \in 1..most : k + 1 \in 1..(c + 1)
      <4>1. most \in Nat /\ c = most
        BY <1>5, <2>1
      <4>2. QED
        BY <4>1
    <3>6. \A k \in 1..most : cache'[k] = moved[k + 1]
      BY <2>1, <3>2, <3>3
    <3>7. cache' \in Seq(Entry)
      BY <2>1, <3>2
    <3>8. QED
      BY <3>3, <3>4, <3>5, <3>6, <3>7
  <2>3. PICK rest : rest = [k \in 1..most |-> new[k + 1]]
    OBVIOUS
  <2>4. rest \in [DOMAIN cache' -> LastUses']
    BY <1>19, <2>2, <2>3
  <2>5. StandFor(rest)'
    <3>1. \A k \in DOMAIN cache' : uses'[rest[k]] = cache'[k].ip
      BY <1>19, <2>2, <2>3
    <3>2. Ascends(rest)
      <4> SUFFICES ASSUME NEW j \in 1..most, NEW k \in 1..most, j < k
                   PROVE  rest[j] < rest[k]
        BY <2>3 DEF Ascends
      <4>1. j + 1 < k + 1 /\ j + 1 \in 1..(c + 1) /\ k + 1 \in 1..(c + 1)
        <5>1. j \in Nat /\ k \in Nat
          BY <1>5
        <5>2. j + 1 < k + 1
          BY <5>1
        <5>3. QED
          BY <2>2, <5>2
      <4>2. QED
        BY <1>20, <2>3, <4>1
    <3>3. \A i \in LastUses' :
             \/ \E k \in DOMAIN cache' : rest[k] = i
             \/ Len(cache') = most /\ \A k \in DOMAIN cache' : i < rest[k]
      <4> SUFFICES ASSUME NEW i \in LastUses'
                   PROVE  \/ \E k \in 1..most : rest[k] = i
                          \/ \A k \in 1..most : i < rest[k]
        BY <2>2
      <4>1. \A k \in 1..most : rest[k] = new[k + 1] /\ k + 1 \in 1..(c + 1)
        BY <2>2, <2>3
      <4>2. CASE \E k \in 1..(c + 1) : new[k] = i
        <5>1. PICK k \in 1..(c + 1) : new[k] = i
          BY <4>2
        <5>2. CASE k = 1
          <6>1. \A j \in 1..most : 1 < j + 1
            BY <1>5
          <6>2. \A j \in 1..most : new[1] < new[j + 1]
            BY <1>13, <1>20, <4>1, <5>1, <5>2, <6>1
          <6>3. QED
            BY <4>1, <5>1, <5>2, <6>2
        <5>3. CASE k # 1
          <6>1. k - 1 \in 1..most /\ (k - 1) + 1 = k
            BY <1>5, <1>13, <2>1, <5>3
          <6>2. rest[k - 1] = i
            BY <4>1, <5>1, <6>1
          <6>3. QED
            BY <6>1, <6>2
        <5>4. QED
          BY <5>2, <5>3
      <4>3. CASE \A k \in 1..(c + 1) : i < new[k]
        BY <4>1, <4>3
      <4>4. QED
        BY <1>22, <4>2, <4>3
    <3>4. QED
      BY <1>1, <3>1, <3>2, <3>3 DEF StandFor
  <2>6. QED
    BY <1>1, <1>5, <1>8, <2>2, <2>4, <2>5 DEF CacheInv
<1>25. QED
  BY <1>5, <1>13, <1>23, <1>24

SensorInv == CacheInv /\ GeoInv /\ clock \in 0..MaxClock

LEMMA SensorInitially == SensorInit => SensorInv
<1> SUFFICES ASSUME SensorInit PROVE SensorInv
  OBVIOUS
<1>1. visits = [v \in Visits |-> [at |-> "away", got |-> 0, geo |-> NoGeo, news |-> NotPublished]]
      /\ cache = <<>> /\ clock = 0 /\ uses = <<>>
  BY DEF SensorInit
<1>2. /\ DOMAIN cache = {} /\ DOMAIN uses = {} /\ Len(cache) = 0
      /\ cache \in Seq(Entry) /\ uses \in Seq({Ip(v) : v \in Visits})
  BY <1>1, EmptySeq
<1>3. LastUses = {}
  BY <1>2 DEF LastUses
<1>4. <<>> \in [DOMAIN cache -> LastUses]
  BY <1>2
<1>5. StandFor(<<>>)
  BY <1>2, <1>3 DEF StandFor, Ascends
<1>6. CacheInv
  <2>1. Len(cache) <= _MAX_CACHE_ENTRIES
    BY <1>2, VisitAssumption
  <2>2. \E pos \in [DOMAIN cache -> LastUses] : StandFor(pos)
    BY <1>4, <1>5
  <2>3. QED
    BY <1>2, <2>1, <2>2 DEF CacheInv
<1>7. GeoInv
  BY <1>1 DEF GeoInv
<1>8. QED
  BY <1>1, <1>6, <1>7, VisitAssumption DEF SensorInv

\* A visit that learns what an entry says keeps what others know.
LEMMA LearningKeepsGeo ==
    ASSUME GeoInv, NEW v \in Visits, NEW geo, Learns(v, geo),
           geo # NoGeo => geo.ip = Ip(v) /\ geo.age < _CACHE_TTL_SECONDS
    PROVE  GeoInv'
<1>1. /\ DOMAIN visits' = DOMAIN visits
      /\ visits'[v].geo = geo \/ visits'[v].geo = visits[v].geo
      /\ \A w \in Visits : w # v => visits'[w] = visits[w]
  BY DEF Learns, GeoInv
<1>2. QED
  BY <1>1 DEF GeoInv, Ip

\* Other steps of a visit leave what is known alone.
LEMMA GeoStays ==
    ASSUME GeoInv, DOMAIN visits' = DOMAIN visits,
           \A v \in Visits : visits'[v].geo = visits[v].geo
    PROVE  GeoInv'
BY DEF GeoInv, Ip

\* And the cache, of most steps.
LEMMA CacheStays ==
    ASSUME CacheInv, cache' = cache, uses' = uses
    PROVE  CacheInv'
BY DEF CacheInv, StandFor, LastUses

LEMMA SensorInvStep == SensorInv /\ [SensorNext]_sensorVars => SensorInv'
<1> SUFFICES ASSUME SensorInv, [SensorNext]_sensorVars PROVE SensorInv'
  OBVIOUS
<1>1. CacheInv /\ GeoInv /\ clock \in 0..MaxClock /\ DOMAIN visits = Visits /\ clock \in Nat
  BY VisitAssumption DEF SensorInv, GeoInv
<1>2. ASSUME UNCHANGED <<cache, uses>>
      PROVE  CacheInv'
  BY <1>1, <1>2, CacheStays
<1>3. CASE SensorTick
  <2>1. clock' \in 0..MaxClock
    BY <1>1, <1>3, VisitAssumption DEF SensorTick
  <2>2. GeoInv'
    BY <1>1, <1>3, GeoStays DEF SensorTick
  <2>3. QED
    BY <1>2, <1>3, <2>1, <2>2 DEF SensorInv, SensorTick
<1>4. ASSUME NEW v \in Visits,
             Arrive(v) \/ Receive(v) \/ HangUp(v) \/ Limited(v) \/ Miss(v) \/ WakeUp(v) \/ Announce(v)
      PROVE  SensorInv'
  <2>1. UNCHANGED <<cache, clock, uses>>
    BY <1>4 DEF Arrive, Receive, HangUp, Limited, Miss, WakeUp, Announce
  <2>2. DOMAIN visits' = DOMAIN visits /\ \A w \in Visits : visits'[w].geo = visits[w].geo
    <3>1. CASE Arrive(v) \/ HangUp(v) \/ Limited(v) \/ Miss(v) \/ WakeUp(v)
      <4>1. PICK stage : visits' = [visits EXCEPT ![v].at = stage]
        BY <3>1 DEF Arrive, HangUp, Limited, Miss, WakeUp, Moves
      <4>2. QED
        BY <1>1, <4>1
    <3>2. CASE Receive(v)
      <4>1. PICK got, stage : visits' = [visits EXCEPT ![v].got = got, ![v].at = stage]
        BY <3>2 DEF Receive
      <4>2. QED
        BY <1>1, <4>1
    <3>3. CASE Announce(v)
      <4>1. PICK outcome \in emit(Sinks[visits[v].news.offered + 1]) :
              visits' = [visits EXCEPT ![v].news = publish(visits[v].news, outcome),
                            ![v].at = IF Published(publish(visits[v].news, outcome))
                                      THEN "answered" ELSE @]
        BY <3>3 DEF Announce
      <4>2. PICK news : news = publish(visits[v].news, outcome)
        OBVIOUS
      <4>3. visits' = [visits EXCEPT ![v].news = news,
                          ![v].at = IF Published(news) THEN "answered" ELSE @]
        BY <4>1, <4>2
      <4>4. QED
        BY <1>1, <4>3
    <3>4. QED
      BY <1>4, <3>1, <3>2, <3>3
  <2>3. QED
    BY <1>1, <1>2, <2>1, <2>2, GeoStays DEF SensorInv
<1>5. ASSUME NEW v \in Visits, GeoFails(v)
      PROVE  SensorInv'
  <2>1. UNCHANGED <<cache, clock, uses>> /\ Learns(v, NoGeo)
    BY <1>5 DEF GeoFails
  <2>2. QED
    BY <1>1, <1>2, <2>1, LearningKeepsGeo DEF SensorInv
<1>6. ASSUME NEW v \in Visits, Hit(v)
      PROVE  SensorInv'
  <2>1. PICK entry \in Known(Ip(v)) : cache' = MovedToEnd(entry) /\ Learns(v, Of(entry))
    BY <1>6 DEF Hit
  <2>2. uses' = Append(uses, Ip(v)) /\ clock' = clock
    BY <1>6 DEF Hit
  <2>3. /\ entry \in ToSet(cache) /\ entry.ip = Ip(v)
        /\ clock - entry.at < _CACHE_TTL_SECONDS
    BY DEF Known
  <2>4. PICK i \in DOMAIN cache : cache[i] = entry
    BY <2>3 DEF ToSet
  <2>5. cache \in Seq(Entry) /\ Len(cache) <= _MAX_CACHE_ENTRIES /\ Len(cache) \in Nat
        /\ DOMAIN cache = 1..Len(cache)
    BY <1>1, LenProperties DEF CacheInv
  <2>6. entry \in Entry
    BY <2>4, <2>5, ElementOfSeq
  <2>7. Len(MovedToEnd(entry)) \in Nat /\ Len(MovedToEnd(entry)) <= _MAX_CACHE_ENTRIES
    <3>1. PICK others : others = {j \in DOMAIN cache : cache[j].ip # entry.ip}
      OBVIOUS
    <3>2. others \in SUBSET (DOMAIN cache \ {i})
      BY <2>4, <3>1
    <3>3. IsFiniteSet(DOMAIN cache) /\ Cardinality(DOMAIN cache) = Len(cache)
      <4>1. PICK m : m = Len(cache)
        OBVIOUS
      <4>2. m \in Int /\ m >= 0
        BY <2>5, <4>1
      <4>3. IsFiniteSet(1..m) /\ Cardinality(1..m) = m
        BY <4>2, FS_Interval
      <4>4. QED
        BY <2>5, <4>1, <4>3
    <3>4. IsFiniteSet(DOMAIN cache \ {i}) /\ Cardinality(DOMAIN cache \ {i}) = Len(cache) - 1
      BY <3>3, FS_RemoveElement
    <3>5. Cardinality(others) <= Len(cache) - 1 /\ Cardinality(others) \in Nat
      BY <3>2, <3>4, FS_Subset, FS_CardinalityType
    <3>6. PICK picked : picked = Picked(cache, others)
      OBVIOUS
    <3>7. others \in SUBSET DOMAIN cache
      BY <3>1
    <3>8. picked \in Seq(Entry) /\ Len(picked) = Cardinality(others)
      BY <2>5, <3>6, <3>7, PickedInOrder
    <3>9. MovedToEnd(entry) = Append(picked, entry)
      BY <3>1, <3>6 DEF MovedToEnd, Kept
    <3>10. Len(MovedToEnd(entry)) = Cardinality(others) + 1
      BY <2>6, <3>8, <3>9, AppendProperties
    <3>11. QED
      BY <2>5, <3>5, <3>10, VisitAssumption
  <2>8. CacheInv'
    <3>1. ~(Len(MovedToEnd(entry)) > _MAX_CACHE_ENTRIES)
      <4>1. Len(MovedToEnd(entry)) \in Nat /\ _MAX_CACHE_ENTRIES \in Nat
        BY <2>7, VisitAssumption
      <4>2. QED
        BY <2>7, <4>1
    <3>2. QED
      BY <1>1, <2>1, <2>2, <2>3, <2>6, <3>1, UseKeepsOrder
  <2>9. Of(entry).ip = Ip(v) /\ Of(entry).age < _CACHE_TTL_SECONDS
    BY <2>3 DEF Of
  <2>10. GeoInv'
    BY <1>1, <2>1, <2>9, LearningKeepsGeo
  <2>11. QED
    BY <1>1, <2>2, <2>8, <2>10 DEF SensorInv
<1>7. ASSUME NEW v \in Visits, GeoAnswers(v)
      PROVE  SensorInv'
  <2>1. PICK entry : entry = [ip |-> Ip(v), at |-> clock]
    OBVIOUS
  <2>2. /\ cache' = IF Len(MovedToEnd(entry)) > _MAX_CACHE_ENTRIES THEN Tail(MovedToEnd(entry))
                    ELSE MovedToEnd(entry)
        /\ Learns(v, Of(entry))
        /\ uses' = Append(uses, Ip(v))
        /\ clock' = clock
    BY <1>7, <2>1 DEF GeoAnswers
  <2>3. entry \in Entry /\ entry.ip = Ip(v)
    BY <1>1, <2>1 DEF Entry
  <2>4. CacheInv'
    BY <1>1, <2>2, <2>3, UseKeepsOrder
  <2>5. Of(entry).ip = Ip(v) /\ Of(entry).age < _CACHE_TTL_SECONDS
    BY <1>1, <2>1, VisitAssumption DEF Of
  <2>6. GeoInv'
    BY <1>1, <2>2, <2>5, LearningKeepsGeo
  <2>7. QED
    BY <1>1, <2>2, <2>4, <2>6 DEF SensorInv
<1>8. CASE UNCHANGED sensorVars
  <2>1. UNCHANGED <<visits, cache, clock, uses>>
    BY <1>8 DEF sensorVars
  <2>2. GeoInv'
    BY <1>1, <2>1, GeoStays
  <2>3. QED
    BY <1>1, <1>2, <2>1, <2>2 DEF SensorInv
<1>9. QED
  BY <1>3, <1>4, <1>5, <1>6, <1>7, <1>8 DEF SensorNext, CatchAll

\* Whatever visitors come, however their lookups overlap and whenever the
\* provider answers, the cache is the addresses used last, as many as it may
\* hold, and no visit goes by stale or another's data (GeoIpLookup.lookup).
THEOREM CacheIsLeastRecentlyUsed == SensorSpec => []RecentVisitorsAreKnown
<1>1. SensorInv => RecentVisitorsAreKnown
  BY CacheIsLatest DEF SensorInv, GeoInv, RecentVisitorsAreKnown
<1>2. QED
  BY <1>1, SensorInitially, SensorInvStep, PTL DEF SensorSpec

-----------------------------------------------------------------------------
(* Scores *)

Techniques == {"homoglyph", "character-swap", "character-duplication", "character-omission",
               "brand-prefix", "security-lure", "support-lure", "tld-blend"}

Found == [certificates : BOOLEAN, privacy : BOOLEAN, ips : BOOLEAN, tags : Nat]

Base(technique) ==
    IF technique \in DOMAIN LURE_TECHNIQUES THEN LURE_TECHNIQUES[technique]
    ELSE HIGH_RISK_TECHNIQUES[technique]

\* What the weights of a variant and of what was found add up to.
Weighed(technique, found) ==
    Base(technique)
        + (IF found.certificates THEN 25 ELSE 0) + (IF found.privacy THEN 10 ELSE 0)
        + (IF found.ips THEN 10 ELSE 0)
        + (IF 5 * found.tags < 15 THEN 5 * found.tags ELSE 15)

LEMMA TechniquesWeigh ==
    ASSUME NEW technique \in Techniques
    PROVE  /\ technique \in DOMAIN HIGH_RISK_TECHNIQUES <=> technique \notin DOMAIN LURE_TECHNIQUES
           /\ technique \in DOMAIN HIGH_RISK_TECHNIQUES =>
                 HIGH_RISK_TECHNIQUES[technique] = Base(technique)
           /\ technique \in DOMAIN LURE_TECHNIQUES =>
                 LURE_TECHNIQUES[technique] = Base(technique)
           /\ Base(technique) \in Nat /\ Base(technique) \in 12..30
<1>1. DOMAIN HIGH_RISK_TECHNIQUES
        = {"homoglyph", "character-swap", "character-duplication", "character-omission"}
  BY DEF HIGH_RISK_TECHNIQUES
<1>2. DOMAIN LURE_TECHNIQUES = {"security-lure", "brand-prefix", "support-lure", "tld-blend"}
  BY DEF LURE_TECHNIQUES
<1>3. technique \in DOMAIN HIGH_RISK_TECHNIQUES <=> technique \notin DOMAIN LURE_TECHNIQUES
  BY <1>1, <1>2 DEF Techniques
<1>4. technique \in DOMAIN HIGH_RISK_TECHNIQUES => HIGH_RISK_TECHNIQUES[technique] \in {30, 28, 18}
  BY <1>1 DEF HIGH_RISK_TECHNIQUES
<1>5. technique \in DOMAIN LURE_TECHNIQUES => LURE_TECHNIQUES[technique] \in {22, 20, 16, 12}
  BY <1>2 DEF LURE_TECHNIQUES
<1>6. QED
  BY <1>3, <1>4, <1>5 DEF Base

\* The total of weights of which some count.
LEMMA TotalOfSome ==
    ASSUME NEW s \in Seq(Nat), NEW fires, NEW weight \in Nat,
           NEW one, one = IF fires THEN <<weight>> ELSE <<>>
    PROVE  /\ s \o one \in Seq(Nat)
           /\ Total(s \o one) = Total(s) + IF fires THEN weight ELSE 0
<1>1. one \in Seq(Nat)
  OBVIOUS
<1>2. Total(one) = IF fires THEN weight ELSE 0
  BY TotalOfNone, TotalOfOne
<1>3. Total(s \o one) = Total(s) + Total(one)
  BY <1>1, TotalOfBoth
<1>4. QED
  BY <1>1, <1>2, <1>3, ConcatProperties

\* The score of a variant is what its technique and the findings weigh, within
\* bounds, and the priority follows from it (score_asset, score_and_prioritize).
LEMMA ScoreIsWeight ==
    ASSUME NEW technique \in Techniques, NEW found \in Found
    PROVE  LET verdict == score_asset(technique, found)
           IN  /\ verdict.score = Weighed(technique, found)
               /\ verdict.score \in 12..90
               /\ verdict.priority = "high" <=> verdict.score >= 70
               /\ verdict.priority = "low" <=> verdict.score < 40
<1> DEFINE tagged == IF 5 * found.tags < 15 THEN 5 * found.tags ELSE 15
           s1 == IF technique \in DOMAIN HIGH_RISK_TECHNIQUES
                 THEN <<HIGH_RISK_TECHNIQUES[technique]>> ELSE <<>>
           s2 == IF technique \in DOMAIN LURE_TECHNIQUES
                 THEN <<LURE_TECHNIQUES[technique]>> ELSE <<>>
           s3 == IF found.certificates THEN <<25>> ELSE <<>>
           s4 == IF found.privacy THEN <<10>> ELSE <<>>
           s5 == IF found.ips THEN <<10>> ELSE <<>>
           s6 == IF found.tags > 0 THEN <<tagged>> ELSE <<>>
           all == s1 \o s2 \o s3 \o s4 \o s5 \o s6
           base == Base(technique)
<1>1. /\ found.certificates \in BOOLEAN /\ found.privacy \in BOOLEAN /\ found.ips \in BOOLEAN
      /\ found.tags \in Nat /\ tagged \in Nat /\ tagged <= 15
      /\ found.tags = 0 => tagged = 0
  BY DEF Found
<1>2. base \in Nat /\ base \in 12..30
  BY TechniquesWeigh
<1>3. s1 \o s2 \in Seq(Nat) /\ Total(s1 \o s2) = base
  <2>1. (s1 = <<base>> /\ s2 = <<>>) \/ (s1 = <<>> /\ s2 = <<base>>)
    BY TechniquesWeigh
  <2>2. <<base>> \in Seq(Nat) /\ <<>> \in Seq(Nat)
    BY <1>2
  <2>3. s1 \o s2 \in Seq(Nat) /\ Total(s1 \o s2) = Total(s1) + Total(s2)
    BY <2>1, <2>2, TotalOfBoth, ConcatProperties
  <2>4. Total(<<base>>) = base /\ Total(<<>>) = 0
    BY <1>2, TotalOfOne, TotalOfNone
  <2>5. QED
    BY <1>2, <2>1, <2>3, <2>4
<1> HIDE DEF s1, s2, s3, s4, s5, s6, tagged, base
<1>4. s1 \o s2 \o s3 \in Seq(Nat)
      /\ Total(s1 \o s2 \o s3) = base + IF found.certificates THEN 25 ELSE 0
  BY <1>3, TotalOfSome DEF s3
<1>5. s1 \o s2 \o s3 \o s4 \in Seq(Nat)
      /\ Total(s1 \o s2 \o s3 \o s4)
            = Total(s1 \o s2 \o s3) + IF found.privacy THEN 10 ELSE 0
  BY <1>4, TotalOfSome DEF s4
<1>6. s1 \o s2 \o s3 \o s4 \o s5 \in Seq(Nat)
      /\ Total(s1 \o s2 \o s3 \o s4 \o s5)
            = Total(s1 \o s2 \o s3 \o s4) + IF found.ips THEN 10 ELSE 0
  BY <1>5, TotalOfSome DEF s5
<1>7. Total(all) = Total(s1 \o s2 \o s3 \o s4 \o s5) + IF found.tags > 0 THEN tagged ELSE 0
  BY <1>1, <1>6, TotalOfSome DEF s6
<1>8. (IF found.tags > 0 THEN tagged ELSE 0) = tagged
  BY <1>1
<1>9. score_asset(technique, found) = score_and_prioritize(all)
  BY DEF score_asset, s1, s2, s3, s4, s5, s6, tagged
<1> HIDE DEF all
<1>10. Total(all) = base + (IF found.certificates THEN 25 ELSE 0)
                      + (IF found.privacy THEN 10 ELSE 0) + (IF found.ips THEN 10 ELSE 0) + tagged
  BY <1>4, <1>5, <1>6, <1>7, <1>8
<1>11. Total(all) = Weighed(technique, found)
  BY <1>10 DEF Weighed, tagged, base
<1>12. Total(all) \in 12..90
  BY <1>1, <1>2, <1>10
<1>13. QED
  <2>1. PICK raw : raw = Total(all)
    OBVIOUS
  <2>2. raw \in Nat /\ raw <= 90 /\ ~(raw > 100)
    BY <1>12, <2>1
  <2>3. score_and_prioritize(all)
          = [score |-> raw, priority |-> IF raw >= 70 THEN "high" ELSE IF raw >= 40 THEN "medium" ELSE "low"]
    BY <2>1, <2>2 DEF score_and_prioritize
  <2>4. raw >= 70 => ~(raw < 40)
    BY <2>2
  <2>5. raw >= 40 <=> ~(raw < 40)
    BY <2>2
  <2>6. QED
    BY <1>9, <1>11, <1>12, <2>1, <2>3, <2>4, <2>5

-----------------------------------------------------------------------------
(* Variants *)

\* What a form is put together from.
Parts == ToSet(COMMON_TLDS) \cup ToSet(LURE_TERMS) \cup ToSet(HOMOGLYPHS) \cup {"support", "secure", ""}

Forms == Techniques \X Parts \X Parts

LEMMA FormsAreMade ==
    ASSUME NEW technique \in Techniques, NEW tld \in Parts, NEW bit \in Parts
    PROVE  <<technique, tld, bit>> \in Forms
BY DEF Forms

LEMMA ThreeInARow ==
    ASSUME NEW S, NEW a \in S, NEW b \in S, NEW c \in S
    PROVE  <<a, b, c>> \in Seq(S)
OBVIOUS

LEMMA LuresAreForms ==
    ASSUME NEW tld \in Parts
    PROVE  Lures(tld) \in Seq(Forms)
<1> DEFINE first == [l \in DOMAIN LURE_TERMS |-> <<"brand-prefix", tld, LURE_TERMS[l]>>]
<1>1. /\ Len(LURE_TERMS) \in Nat /\ DOMAIN LURE_TERMS = 1..Len(LURE_TERMS)
      /\ \A l \in DOMAIN LURE_TERMS : LURE_TERMS[l] \in Parts
  BY RequestAssumption, LenProperties DEF Parts, ToSet
<1>2. \A l \in DOMAIN LURE_TERMS : <<"brand-prefix", tld, LURE_TERMS[l]>> \in Forms
  BY <1>1, FormsAreMade DEF Techniques
<1>3. first \in Seq(Forms)
  BY <1>1, <1>2, SeqDef
<1>4. << <<"support-lure", tld, "support">>, <<"security-lure", tld, "secure">>,
         <<"tld-blend", tld, "">> >> \in Seq(Forms)
  <2>1. /\ <<"support-lure", tld, "support">> \in Forms /\ <<"security-lure", tld, "secure">> \in Forms
        /\ <<"tld-blend", tld, "">> \in Forms
    <3>1. {"support", "secure", ""} \subseteq Parts
      BY DEF Parts
    <3>2. QED
      BY <3>1, FormsAreMade DEF Techniques
  <2>2. QED
    BY <2>1, ThreeInARow
<1>5. QED
  BY <1>3, <1>4, ConcatProperties DEF Lures

LEMMA CandidatesAreForms ==
    ASSUME NEW keyword
    PROVE  Candidates(keyword) \in Seq(Forms)
<1> DEFINE tld == COMMON_TLDS[1]
           lures == [t \in DOMAIN COMMON_TLDS |-> Lures(COMMON_TLDS[t])]
           long == IF keyword \notin LongKeywords THEN <<>>
                   ELSE << <<"character-omission", tld, "">>, <<"character-duplication", tld, "">>,
                           <<"character-swap", tld, "">> >>
           present == Kept(HOMOGLYPHS, LAMBDA c : c \in Letters[keyword])
           last == [h \in DOMAIN present |-> <<"homoglyph", tld, present[h]>>]
<1>1. /\ Len(COMMON_TLDS) \in Nat /\ DOMAIN COMMON_TLDS = 1..Len(COMMON_TLDS)
      /\ \A t \in DOMAIN COMMON_TLDS : COMMON_TLDS[t] \in Parts
      /\ tld \in Parts
  <2>1. COMMON_TLDS \in Seq(STRING) /\ COMMON_TLDS # <<>>
    BY RequestAssumption
  <2>2. Len(COMMON_TLDS) \in Nat /\ DOMAIN COMMON_TLDS = 1..Len(COMMON_TLDS) /\ Len(COMMON_TLDS) # 0
    BY <2>1, LenProperties, EmptySeq
  <2>3. \A t \in DOMAIN COMMON_TLDS : COMMON_TLDS[t] \in Parts
    BY DEF Parts, ToSet
  <2>4. 1 \in DOMAIN COMMON_TLDS
    BY <2>2
  <2>5. QED
    BY <2>2, <2>3, <2>4
<1> HIDE DEF tld
<1>2. lures \in Seq(Seq(Forms))
  <2>1. \A t \in DOMAIN COMMON_TLDS : Lures(COMMON_TLDS[t]) \in Seq(Forms)
    BY <1>1, LuresAreForms
  <2>2. QED
    BY <1>1, <2>1, SeqDef
<1>3. FlattenSeq(lures) \in Seq(Forms)
  BY <1>2, FlattenedElements
<1>4. long \in Seq(Forms)
  <2>1. /\ <<"character-omission", tld, "">> \in Forms /\ <<"character-duplication", tld, "">> \in Forms
        /\ <<"character-swap", tld, "">> \in Forms
    <3>1. "" \in Parts
      BY DEF Parts
    <3>2. QED
      BY <1>1, <3>1, FormsAreMade DEF Techniques
  <2>2. << <<"character-omission", tld, "">>, <<"character-duplication", tld, "">>,
           <<"character-swap", tld, "">> >> \in Seq(Forms)
    BY <2>1, ThreeInARow
  <2>3. <<>> \in Seq(Forms)
    OBVIOUS
  <2>4. QED
    BY <2>2, <2>3
<1>5. present \in Seq(ToSet(HOMOGLYPHS))
  <2>1. HOMOGLYPHS \in Seq(ToSet(HOMOGLYPHS))
    BY RequestAssumption, SeqOfItsElements
  <2>2. {c \in DOMAIN HOMOGLYPHS : HOMOGLYPHS[c] \in Letters[keyword]} \in SUBSET DOMAIN HOMOGLYPHS
    OBVIOUS
  <2>3. QED
    BY <2>1, <2>2, PickedInOrder DEF Kept
<1> HIDE DEF present
<1>6. last \in Seq(Forms)
  <2>1. /\ Len(present) \in Nat /\ DOMAIN present = 1..Len(present)
        /\ \A h \in DOMAIN present : present[h] \in Parts
    BY <1>5, LenProperties, ElementOfSeq DEF Parts
  <2>2. \A h \in DOMAIN present : <<"homoglyph", tld, present[h]>> \in Forms
    BY <1>1, <2>1, FormsAreMade DEF Techniques
  <2>3. QED
    BY <2>1, <2>2, SeqDef
<1>7. Candidates(keyword) = FlattenSeq(lures) \o long \o last
  BY DEF Candidates, present, tld
<1> HIDE DEF long, last, lures
<1>8. FlattenSeq(lures) \o long \in Seq(Forms)
  BY <1>3, <1>4, ConcatProperties
<1>9. QED
  BY <1>6, <1>7, <1>8, ConcatProperties

\* A variant by its domain: <<keyword, form>>.
Variant(keyword) == [domain : {keyword} \X Forms, technique : Techniques]

\* What each candidate spells: itself, or the candidate before it whose twin it is.
LEMMA SpelledByEarlier ==
    ASSUME NEW keyword, NEW i \in DOMAIN Candidates(keyword)
    PROVE  LET candidates == Candidates(keyword)
               form == Spelled(keyword, candidates[i])[2]
           IN  /\ Spelled(keyword, candidates[i]) = <<keyword, form>>
               /\ form \in Forms
               /\ \/ form = candidates[i]
                  \/ \E j \in 1..(i - 1) : candidates[j] = form /\ Spelled(keyword, form) = <<keyword, form>>
<1> DEFINE candidates == Candidates(keyword)
           c == candidates[i]
<1>1. candidates \in Seq(Forms) /\ DOMAIN candidates = 1..Len(candidates) /\ Len(candidates) \in Nat
  BY CandidatesAreForms, LenProperties
<1>2. \A j \in 1..Len(candidates) : candidates[j] \in Forms
  BY <1>1, ElementOfSeq
<1>3. CASE <<keyword, c>> \notin DOMAIN Twins
  <2>1. Spelled(keyword, c) = <<keyword, c>>
    BY <1>3 DEF Spelled
  <2>2. Spelled(keyword, c)[2] = c
    BY <2>1
  <2>3. QED
    BY <1>1, <1>2, <2>1, <2>2
<1>4. CASE <<keyword, c>> \in DOMAIN Twins
  <2> DEFINE form == Twins[<<keyword, c>>]
  <2>1. <<keyword, c>>[1] = keyword /\ <<keyword, c>>[2] = c
    OBVIOUS
  <2>2. /\ <<keyword, form>> \notin DOMAIN Twins
        /\ \A k \in DOMAIN candidates : candidates[k] = c => \E j \in 1..(k - 1) : candidates[j] = form
    BY <1>4, <2>1, TwinAssumption
  <2>3. PICK j \in 1..(i - 1) : candidates[j] = form
    BY <2>2
  <2>4. j \in 1..Len(candidates)
    BY <1>1
  <2>5. Spelled(keyword, c) = <<keyword, form>> /\ Spelled(keyword, form) = <<keyword, form>>
    BY <1>4, <2>2 DEF Spelled
  <2>6. form \in Forms
    BY <1>2, <2>3, <2>4
  <2>7. Spelled(keyword, c)[2] = form
    BY <2>5
  <2>8. QED
    BY <2>3, <2>5, <2>6, <2>7
<1>5. QED
  BY <1>3, <1>4

\* What is picked earlier comes from an earlier place.
LEMMA PicksKeepOrder ==
    ASSUME NEW T, NEW s \in Seq(T), NEW places \in SUBSET DOMAIN s
    PROVE  /\ \A m, n \in DOMAIN Picked(s, places) :
                 m < n <=> Ascending(places)[m] < Ascending(places)[n]
           /\ \A i \in places : \E n \in DOMAIN Picked(s, places) : Ascending(places)[n] = i
           /\ DOMAIN Picked(s, places) \subseteq Nat
<1> DEFINE at == Ascending(places)
<1>1. places \in SUBSET Nat /\ IsFiniteSet(places)
  BY PlacesAreFinite
<1>2. /\ at \in Seq(places) /\ DOMAIN at = 1..Cardinality(places) /\ Ascends(at)
      /\ \A p \in places : \E n \in DOMAIN at : at[n] = p
  BY <1>1, AscendingIsSorted
<1>3. DOMAIN Picked(s, places) = DOMAIN at
  BY PickedInOrder
<1> HIDE DEF at
<1>4. \A n \in DOMAIN at : at[n] \in Nat /\ n \in Nat
  <2>1. Len(at) \in Nat /\ DOMAIN at = 1..Len(at) /\ \A n \in 1..Len(at) : at[n] \in places
    BY <1>2, LenProperties, ElementOfSeq
  <2>2. QED
    BY <1>1, <2>1
<1>5. ASSUME NEW m \in DOMAIN at, NEW n \in DOMAIN at, at[m] < at[n]
      PROVE  m < n
  <2>1. m # n
    BY <1>4, <1>5
  <2>2. n < m => at[n] < at[m]
    BY <1>2 DEF Ascends
  <2>3. QED
    BY <1>4, <1>5, <2>1, <2>2
<1>6. \A m, n \in DOMAIN at : m < n => at[m] < at[n]
  BY <1>2 DEF Ascends
<1>7. QED
  BY <1>2, <1>3, <1>4, <1>5, <1>6 DEF at

\* The variants before those that are left out.
Spellings(keyword) ==
    [i \in DOMAIN Candidates(keyword) |->
        [domain |-> Spelled(keyword, Candidates(keyword)[i]), technique |-> Candidates(keyword)[i][1]]]

LEMMA SpellingsAreVariants ==
    ASSUME NEW keyword
    PROVE  /\ Spellings(keyword) \in Seq(Variant(keyword))
           /\ DOMAIN Spellings(keyword) = DOMAIN Candidates(keyword)
<1>1. /\ Candidates(keyword) \in Seq(Forms) /\ Len(Candidates(keyword)) \in Nat
      /\ DOMAIN Candidates(keyword) = 1..Len(Candidates(keyword))
  BY CandidatesAreForms, LenProperties
<1>2. ASSUME NEW i \in DOMAIN Candidates(keyword)
      PROVE  Spellings(keyword)[i] \in Variant(keyword)
  <2>1. PICK c : c = Candidates(keyword)[i]
    OBVIOUS
  <2>2. c \in Forms /\ c[1] \in Techniques
    BY <1>1, <2>1, ElementOfSeq DEF Forms
  <2>3. PICK form \in Forms : Spelled(keyword, c) = <<keyword, form>>
    BY <2>1, SpelledByEarlier
  <2>4. Spelled(keyword, c) \in {keyword} \X Forms
    BY <2>3
  <2>5. Spellings(keyword)[i] = [domain |-> Spelled(keyword, c), technique |-> c[1]]
    BY <2>1 DEF Spellings
  <2>6. QED
    BY <2>2, <2>4, <2>5 DEF Variant
<1>3. DOMAIN Spellings(keyword) = DOMAIN Candidates(keyword)
  BY DEF Spellings
<1>4. Spellings(keyword) \in [1..Len(Candidates(keyword)) -> Variant(keyword)]
  BY <1>1, <1>2 DEF Spellings
<1>5. QED
  BY <1>1, <1>3, <1>4, SeqDef

\* Those that are not the root, and the first of each domain among them.
NotRoot(keyword, root) == {i \in DOMAIN Spellings(keyword) : Spellings(keyword)[i].domain # root}

FirstDomains(kept) == {i \in DOMAIN kept : \A j \in 1..(i - 1) : kept[j].domain # kept[i].domain}

LEMMA VariantsArePicked ==
    ASSUME NEW keyword, NEW root, NEW limit_ \in Nat,
           NEW kept, kept = Picked(Spellings(keyword), NotRoot(keyword, root))
    PROVE  /\ kept \in Seq(Variant(keyword))
           /\ generate_domain_variants(keyword, root, limit_)
                 = FirstOf(Picked(kept, FirstDomains(kept)), limit_)
<1>1. Spellings(keyword) \in Seq(Variant(keyword)) /\ NotRoot(keyword, root) \in SUBSET DOMAIN Spellings(keyword)
  BY SpellingsAreVariants DEF NotRoot
<1>2. kept \in Seq(Variant(keyword))
  BY <1>1, PickedInOrder
<1>3. kept = Kept(Spellings(keyword), LAMBDA v : v.domain # root)
  BY DEF Kept, NotRoot
<1>4. SubSeq(kept, 1, Len(kept)) = kept /\ Len(kept) \in Nat
  BY <1>2, ElementOfSeq
<1>5. FirstOf(kept, Len(kept)) = kept
  BY <1>4 DEF FirstOf
<1>6. FirstsBy(kept, LAMBDA v : v.domain) = CHOOSE r \in {Picked(t, FirstDomains(t)) : t \in {kept}} : TRUE
  BY <1>5 DEF FirstsBy, Once, FirstDomains
<1>7. FirstsBy(kept, LAMBDA v : v.domain) = Picked(kept, FirstDomains(kept))
  BY <1>6
<1>8. generate_domain_variants(keyword, root, limit_)
        = FirstOf(FirstsBy(Kept(Spellings(keyword), LAMBDA v : v.domain # root), LAMBDA v : v.domain), limit_)
  BY DEF generate_domain_variants, Spellings
<1>9. QED
  BY <1>2, <1>3, <1>7, <1>8

\* However a form is spelled and whatever the limit, the variants have distinct
\* domains, none of them the root, each made by the technique of its form.
LEMMA VariantsAreDistinct ==
    ASSUME NEW keyword, NEW root, NEW limit_ \in Nat,
           NEW made, made = generate_domain_variants(keyword, root, limit_)
    PROVE  /\ made \in Seq(Variant(keyword)) /\ Len(made) <= limit_
           /\ \A i \in DOMAIN made :
                 made[i].domain # root /\ made[i].technique = made[i].domain[2][1]
           /\ \A i, j \in DOMAIN made : made[i].domain = made[j].domain => i = j
<1> DEFINE all == Spellings(keyword)
           early == Ascending(NotRoot(keyword, root))
<1>1. PICK kept : kept = Picked(all, NotRoot(keyword, root))
  OBVIOUS
<1>2. PICK firsts : firsts = Picked(kept, FirstDomains(kept))
  OBVIOUS
<1>3. PICK at : at = Ascending(FirstDomains(kept))
  OBVIOUS
<1>4. all \in Seq(Variant(keyword)) /\ DOMAIN all = DOMAIN Candidates(keyword)
      /\ NotRoot(keyword, root) \in SUBSET DOMAIN all
  BY SpellingsAreVariants DEF NotRoot
<1>5. /\ kept \in Seq(Variant(keyword))
      /\ \A p \in DOMAIN kept : early[p] \in NotRoot(keyword, root) /\ kept[p] = all[early[p]]
      /\ \A p, q \in DOMAIN kept : p < q <=> early[p] < early[q]
      /\ \A i \in NotRoot(keyword, root) : \E p \in DOMAIN kept : early[p] = i
      /\ DOMAIN kept \subseteq Nat
  BY <1>1, <1>4, PickedInOrder, PicksKeepOrder
<1>6. FirstDomains(kept) \in SUBSET DOMAIN kept
  BY DEF FirstDomains
<1>7. /\ firsts \in Seq(Variant(keyword))
      /\ \A n \in DOMAIN firsts : at[n] \in FirstDomains(kept) /\ firsts[n] = kept[at[n]]
      /\ \A m, n \in DOMAIN firsts : m < n <=> at[m] < at[n]
      /\ DOMAIN firsts \subseteq Nat
  BY <1>2, <1>3, <1>5, <1>6, PickedInOrder, PicksKeepOrder
<1>8. made = FirstOf(firsts, limit_)
  BY <1>1, <1>2, VariantsArePicked
<1>9. /\ made \in Seq(Variant(keyword)) /\ Len(made) <= limit_
      /\ DOMAIN made \subseteq DOMAIN firsts /\ \A i \in DOMAIN made : made[i] = firsts[i]
  <2>1. /\ FirstOf(firsts, limit_) \in Seq(Variant(keyword))
        /\ Len(FirstOf(firsts, limit_)) = IF limit_ < Len(firsts) THEN limit_ ELSE Len(firsts)
        /\ DOMAIN FirstOf(firsts, limit_) \subseteq DOMAIN firsts
        /\ \A i \in DOMAIN FirstOf(firsts, limit_) : FirstOf(firsts, limit_)[i] = firsts[i]
    BY <1>7, FirstOfProperties
  <2>2. Len(firsts) \in Nat
    BY <1>7, LenProperties
  <2>3. QED
    BY <1>8, <2>1, <2>2
<1>10. ASSUME NEW n \in DOMAIN firsts
       PROVE  firsts[n].domain # root /\ firsts[n].technique = firsts[n].domain[2][1]
  <2>1. PICK p \in DOMAIN kept : p = at[n] /\ p \in FirstDomains(kept)
    BY <1>6, <1>7
  <2>2. PICK q \in DOMAIN Candidates(keyword) : q = early[p] /\ q \in NotRoot(keyword, root)
    BY <1>4, <1>5
  <2>3. firsts[n] = all[q] /\ all[q].domain # root
    BY <1>5, <1>7, <2>1, <2>2 DEF NotRoot
  <2>4. PICK form \in Forms :
           /\ Spelled(keyword, Candidates(keyword)[q]) = <<keyword, form>>
           /\ \/ form = Candidates(keyword)[q]
              \/ \E j \in 1..(q - 1) : /\ Candidates(keyword)[j] = form
                                       /\ Spelled(keyword, form) = <<keyword, form>>
    BY SpelledByEarlier
  <2>5. \A i \in DOMAIN Candidates(keyword) :
           /\ all[i].domain = Spelled(keyword, Candidates(keyword)[i])
           /\ all[i].technique = Candidates(keyword)[i][1]
    BY DEF Spellings
  <2>6. form = Candidates(keyword)[q]
    <3> SUFFICES ASSUME NEW j \in 1..(q - 1), Candidates(keyword)[j] = form,
                        Spelled(keyword, form) = <<keyword, form>>
                 PROVE  FALSE
      BY <2>4
    <3>1. /\ DOMAIN Candidates(keyword) = 1..Len(Candidates(keyword))
          /\ Len(Candidates(keyword)) \in Nat
      BY CandidatesAreForms, LenProperties
    <3>2. j \in DOMAIN Candidates(keyword) /\ j < q /\ j \in Nat /\ q \in Nat
      BY <3>1
    <3>3. all[j].domain = all[q].domain
      BY <2>4, <2>5, <3>2
    <3>4. j \in NotRoot(keyword, root)
      BY <1>4, <2>3, <3>2, <3>3 DEF NotRoot
    <3>5. PICK r \in DOMAIN kept : early[r] = j
      BY <1>5, <3>4
    <3>6. r < p
      BY <1>5, <2>2, <3>2, <3>5
    <3>7. 1 <= r /\ r \in 1..(p - 1)
      <4>1. DOMAIN kept = 1..Len(kept) /\ Len(kept) \in Nat
        BY <1>5, LenProperties
      <4>2. QED
        BY <3>6, <4>1
    <3>8. kept[r].domain = kept[p].domain
      BY <1>5, <2>2, <3>3, <3>5
    <3>9. QED
      BY <2>1, <3>7, <3>8 DEF FirstDomains
  <2>7. all[q].domain = <<keyword, form>> /\ all[q].domain[2] = form
    BY <2>4, <2>5
  <2>8. QED
    BY <2>3, <2>5, <2>6, <2>7
<1>11. ASSUME NEW m \in DOMAIN firsts, NEW n \in DOMAIN firsts, m < n
       PROVE  firsts[m].domain # firsts[n].domain
  <2>1. DOMAIN kept = 1..Len(kept) /\ Len(kept) \in Nat
    BY <1>5, LenProperties
  <2>2. /\ at[m] \in DOMAIN kept /\ at[n] \in DOMAIN kept
        /\ at[m] < at[n] /\ at[n] \in FirstDomains(kept)
    BY <1>6, <1>7, <1>11
  <2>3. at[m] \in 1..(at[n] - 1)
    BY <2>1, <2>2
  <2>4. QED
    BY <1>7, <2>2, <2>3 DEF FirstDomains
<1>12. \A m, n \in DOMAIN firsts : firsts[m].domain = firsts[n].domain => m = n
  <2>1. \A m, n \in DOMAIN firsts : m < n \/ n < m \/ m = n
    BY <1>7
  <2>2. QED
    BY <1>11, <2>1
<1>13. QED
  BY <1>9, <1>10, <1>12

-----------------------------------------------------------------------------
(* What an analysis knows *)

Certified(w, f) == IF w[f[1]].crt = "fails" THEN Profile(f).certificates ELSE w[f[1]].crt = "some"

\* What is known of a form in world w at a stage of its enrichment.
KnownAt(at, w, f) ==
    [certificates |-> at \notin {"idle", "crt wait", "crt"} /\ Certified(w, f),
     privacy |-> at \in {"ip wait", "ip", "done"} /\ w[f[1]].rdap = "private",
     ips |-> at \notin {"idle", "crt wait", "crt"} /\ w[f[1]].ips = "some",
     tags |-> IF at = "done" /\ w[f[1]].ips = "some" /\ Patterned(f) THEN 1 ELSE 0]

\* An asset is as far as its calls: it knows what they said and nothing else.
LiveAssetOK(it, w, f) ==
    /\ it.at # "raised" => it.found = KnownAt(it.at, w, f)
    /\ it.at \in {"ip wait", "ip"} => w[f[1]].ips = "some"

MockAssetOK(it, f) == it.at = "idle" \/ (it.at = "done" /\ it.found = Profile(f))

\* The variants of an analysis are those of a request for it.
AsRequested(a) ==
    IF analysis[a].at = "new" THEN analysis[a].variations = <<>> /\ analysis[a].max_variants \in Nat
    ELSE \E request \in Requests[a] :
            /\ analysis[a].offline = request.offline_mode
            /\ analysis[a].root = request.root
            /\ analysis[a].max_variants = request.max_variants
            /\ analysis[a].variations =
                  generate_domain_variants(request.keyword, request.root, request.max_variants)

AssetType == [at : Stages, slot : Nat, found : Found]

ShapeOK(a) ==
    /\ DOMAIN analysis[a] = {"at", "offline", "root", "max_variants", "variations"}
    /\ analysis[a].at \in {"new", "running", "saved", "failed", "locked"}
    /\ AsRequested(a)
    /\ asset[a] \in [DOMAIN analysis[a].variations -> AssetType]

FindingsOK(a) ==
    \A i \in DOMAIN asset[a] :
        IF analysis[a].offline THEN MockAssetOK(asset[a][i], Form(a, i))
        ELSE LiveAssetOK(asset[a][i], world, Form(a, i))

\* What a form of an analysis weighs in the end.
Learned(a, f) == IF analysis[a].offline THEN Profile(f) ELSE KnownAt("done", world, f)

Accounted(row) ==
    LET domains == {v.domain : v \in ToSet(analysis[row.of].variations)}
    IN  /\ Len(row.assets) = Cardinality(domains) /\ analysis[row.of].root \notin domains
        /\ {s.domain : s \in ToSet(row.assets)} = domains
        /\ \A m, n \in DOMAIN row.assets : m < n => row.assets[m].score >= row.assets[n].score
        /\ \A s \in ToSet(row.assets) :
              /\ s.score = Weighed(s.domain[2][1], Learned(row.of, s.domain[2]))
              /\ s.score \in 1..100
              /\ s.priority = "high" <=> s.score >= 70
              /\ s.priority = "low" <=> s.score < 40
        /\ row.model_source \in row.grounds

RowsOK ==
    /\ analyses \in Seq(ToSet(analyses))
    /\ \A row \in ToSet(analyses) :
          row.of \in Analyses /\ analysis[row.of].at = "saved" /\ Accounted(row)

AccountInv ==
    /\ DOMAIN analysis = Analyses /\ DOMAIN asset = Analyses
    /\ \A a \in Analyses : ShapeOK(a) /\ FindingsOK(a)
    /\ RowsOK

LEMMA Fixed ==
    ASSUME NEW f
    PROVE  Profile(f) \in Found
BY ProviderAssumption DEF Profile, Found

LEMMA KnownIsFound ==
    ASSUME NEW at, NEW w, NEW f
    PROVE  KnownAt(at, w, f) \in Found
<1>1. Profile(f).certificates \in BOOLEAN
  BY Fixed DEF Found
<1>2. Certified(w, f) \in BOOLEAN
  BY <1>1 DEF Certified
<1>3. QED
  BY <1>2 DEF KnownAt, Found

\* What is known of the assets, in their order, before they are sorted.
Assessed(a) ==
    [i \in DOMAIN asset[a] |->
        LET verdict == score_asset(analysis[a].variations[i].technique, asset[a][i].found)
        IN  [domain |-> analysis[a].variations[i].domain, score |-> verdict.score,
             priority |-> verdict.priority]]

\* The scores of an analysis whose assets are done, whatever their order.
LEMMA AssetsAreAssessed ==
    ASSUME NEW a \in Analyses, NEW keyword, NEW root, NEW limit_ \in Nat,
           analysis[a].variations = generate_domain_variants(keyword, root, limit_),
           asset[a] \in [DOMAIN analysis[a].variations -> AssetType],
           \A i \in DOMAIN asset[a] : asset[a][i].found = Learned(a, Form(a, i))
    PROVE  /\ Assessed(a) \in Seq(ToSet(Assessed(a)))
           /\ DOMAIN Assessed(a) = DOMAIN analysis[a].variations
           /\ \A i \in DOMAIN Assessed(a) :
                 LET s == Assessed(a)[i]
                 IN  /\ s.domain = analysis[a].variations[i].domain
                     /\ s.score = Weighed(s.domain[2][1], Learned(a, s.domain[2]))
                     /\ s.score \in 12..90
                     /\ s.priority = "high" <=> s.score >= 70
                     /\ s.priority = "low" <=> s.score < 40
<1>1. PICK made : made = analysis[a].variations
  OBVIOUS
<1>2. /\ made \in Seq(Variant(keyword)) /\ Len(made) \in Nat /\ DOMAIN made = 1..Len(made)
      /\ \A i \in DOMAIN made : made[i].technique = made[i].domain[2][1]
  BY <1>1, VariantsAreDistinct, LenProperties
<1>3. DOMAIN Assessed(a) = DOMAIN made
  BY <1>1 DEF Assessed
<1>4. ASSUME NEW i \in DOMAIN made
      PROVE  LET s == Assessed(a)[i]
             IN  /\ s.domain = made[i].domain
                 /\ s.score = Weighed(s.domain[2][1], Learned(a, s.domain[2]))
                 /\ s.score \in 12..90
                 /\ s.priority = "high" <=> s.score >= 70
                 /\ s.priority = "low" <=> s.score < 40
  <2>1. PICK technique : technique = made[i].technique
    OBVIOUS
  <2>2. PICK found : found = asset[a][i].found
    OBVIOUS
  <2>3. technique \in Techniques /\ technique = made[i].domain[2][1]
    <3>1. made[i] \in Variant(keyword)
      BY <1>2, ElementOfSeq
    <3>2. QED
      BY <1>2, <2>1, <3>1 DEF Variant
  <2>4. found = Learned(a, made[i].domain[2]) /\ found \in Found
    <3>1. i \in DOMAIN asset[a]
      BY <1>1
    <3>2. QED
      BY <1>1, <2>2, <3>1 DEF Form, AssetType
  <2>5. PICK verdict : verdict = score_asset(technique, found)
    OBVIOUS
  <2>6. /\ verdict.score = Weighed(technique, found) /\ verdict.score \in 12..90
        /\ verdict.priority = "high" <=> verdict.score >= 70
        /\ verdict.priority = "low" <=> verdict.score < 40
    BY <2>3, <2>4, <2>5, ScoreIsWeight
  <2>7. Assessed(a)[i] = [domain |-> made[i].domain, score |-> verdict.score,
                          priority |-> verdict.priority]
    BY <1>1, <2>1, <2>2, <2>5 DEF Assessed
  <2>8. QED
    BY <2>3, <2>4, <2>6, <2>7
<1>5. Assessed(a) \in [1..Len(made) -> ToSet(Assessed(a))]
  BY <1>2, <1>3 DEF Assessed, ToSet
<1>6. QED
  BY <1>1, <1>2, <1>3, <1>4, <1>5, SeqDef

\* The number of the domains is that of the variants.
LEMMA DomainsAreCounted ==
    ASSUME NEW keyword, NEW made \in Seq(Variant(keyword)),
           \A i, j \in DOMAIN made : made[i].domain = made[j].domain => i = j
    PROVE  Cardinality({v.domain : v \in ToSet(made)}) = Len(made)
<1> DEFINE S == {v.domain : v \in ToSet(made)}
           f == [i \in 1..Len(made) |-> made[i].domain]
<1>1. Len(made) \in Nat /\ DOMAIN made = 1..Len(made)
  BY LenProperties
<1>2. \A i \in 1..Len(made) : f[i] \in S
  BY <1>1 DEF ToSet
<1>3. \A d \in S : \E i \in 1..Len(made) : f[i] = d
  BY <1>1 DEF ToSet
<1>4. \A i, j \in 1..Len(made) : f[i] = f[j] => i = j
  BY <1>1
<1>5. f \in [1..Len(made) -> S]
  BY <1>2
<1> HIDE DEF f, S
<1>6. f \in Bijection(1..Len(made), S)
  BY <1>3, <1>4, <1>5 DEF Bijection, Injection, Surjection, IsInjective
<1>7. ExistsBijection(1..Len(made), S)
  BY <1>6 DEF ExistsBijection
<1>8. QED
  BY <1>1, <1>7, FS_CountingElements DEF S

\* The assets of a saved analysis: every variant once, the highest score first.
LEMMA ScoredIsAccounted ==
    ASSUME NEW a \in Analyses, ShapeOK(a), FindingsOK(a), analysis[a].at # "new",
           \A i \in DOMAIN asset[a] : asset[a][i].at = "done",
           NEW row, row.of = a, row.assets = Scored(a), row.model_source \in row.grounds
    PROVE  Accounted(row)
<1>1. PICK made : made = analysis[a].variations
  OBVIOUS
<1>2. PICK request \in Requests[a] :
         /\ analysis[a].root = request.root
         /\ made = generate_domain_variants(request.keyword, request.root, request.max_variants)
  BY <1>1 DEF ShapeOK, AsRequested
<1>3. request.max_variants \in Nat
  <2>1. request.max_variants \in 1..50
    BY RequestAssumption
  <2>2. QED
    BY <2>1
<1>4. /\ made \in Seq(Variant(request.keyword))
      /\ \A i \in DOMAIN made : made[i].domain # analysis[a].root
      /\ \A i, j \in DOMAIN made : made[i].domain = made[j].domain => i = j
  <2>1. /\ made \in Seq(Variant(request.keyword))
        /\ \A i \in DOMAIN made : made[i].domain # request.root
        /\ \A i, j \in DOMAIN made : made[i].domain = made[j].domain => i = j
    BY <1>2, <1>3, VariantsAreDistinct
  <2>2. QED
    BY <1>2, <2>1
<1>5. asset[a] \in [DOMAIN made -> AssetType]
  BY <1>1 DEF ShapeOK
<1>6. \A i \in DOMAIN asset[a] : asset[a][i].found = Learned(a, Form(a, i))
  BY DEF FindingsOK, MockAssetOK, LiveAssetOK, Learned
<1>7. PICK all : all = Assessed(a)
  OBVIOUS
<1>8. /\ all \in Seq(ToSet(all)) /\ DOMAIN all = DOMAIN made
      /\ \A i \in DOMAIN all :
            /\ all[i].domain = made[i].domain
            /\ all[i].score = Weighed(all[i].domain[2][1], Learned(a, all[i].domain[2]))
            /\ all[i].score \in 12..90
            /\ all[i].priority = "high" <=> all[i].score >= 70
            /\ all[i].priority = "low" <=> all[i].score < 40
  <2>1. /\ analysis[a].variations
              = generate_domain_variants(request.keyword, request.root, request.max_variants)
        /\ asset[a] \in [DOMAIN analysis[a].variations -> AssetType]
    BY <1>1, <1>2, <1>5
  <2>2. /\ Assessed(a) \in Seq(ToSet(Assessed(a)))
        /\ DOMAIN Assessed(a) = DOMAIN analysis[a].variations
        /\ \A i \in DOMAIN Assessed(a) :
              LET s == Assessed(a)[i]
              IN  /\ s.domain = analysis[a].variations[i].domain
                  /\ s.score = Weighed(s.domain[2][1], Learned(a, s.domain[2]))
                  /\ s.score \in 12..90
                  /\ s.priority = "high" <=> s.score >= 70
                  /\ s.priority = "low" <=> s.score < 40
    BY <1>3, <1>6, <2>1, AssetsAreAssessed
  <2>3. QED
    BY <1>1, <1>7, <2>2
<1>81. \A i \in DOMAIN all : all[i].score \in 12..90
  BY <1>8
<1>9. PICK kept : kept = Picked(all, DOMAIN all)
  OBVIOUS
<1>10. kept = Kept(all, LAMBDA s : s.score # 0)
  <2>1. \A i \in DOMAIN all : all[i].score # 0
    BY <1>81
  <2>2. {i \in DOMAIN all : all[i].score # 0} = DOMAIN all
    BY <2>1
  <2>3. QED
    BY <1>9, <2>2 DEF Kept
<1>11. /\ kept \in Seq(ToSet(all)) /\ Len(kept) = Len(made) /\ ToSet(kept) = ToSet(all)
  <2>1. /\ kept \in Seq(ToSet(all)) /\ Len(kept) = Cardinality(DOMAIN all)
        /\ ToSet(kept) = {all[i] : i \in DOMAIN all}
    BY <1>8, <1>9, PickedInOrder
  <2>2. Len(made) \in Nat /\ DOMAIN made = 1..Len(made)
    BY <1>4, LenProperties
  <2>3. Cardinality(1..Len(made)) = Len(made)
    <3>1. 1 \in Int /\ Len(made) \in Int
      BY <2>2
    <3>2. Cardinality(1..Len(made)) = IF 1 > Len(made) THEN 0 ELSE Len(made) - 1 + 1
      BY <3>1, FS_Interval
    <3>3. QED
      BY <2>2, <3>2
  <2>4. QED
    BY <1>8, <2>1, <2>2, <2>3 DEF ToSet
<1>12. PICK keys : keys = [i \in DOMAIN kept |-> kept[i].score]
  OBVIOUS
<1>13. /\ keys \in Seq(Nat) /\ Len(keys) = Len(kept) /\ DOMAIN keys = DOMAIN kept
       /\ DOMAIN kept = 1..Len(kept)
  <2>1. Len(kept) \in Nat /\ DOMAIN kept = 1..Len(kept)
    BY <1>11, LenProperties
  <2>2. ASSUME NEW i \in DOMAIN kept PROVE kept[i].score \in Nat
    <3>1. kept[i] \in ToSet(all)
      BY <1>11, <2>1, ElementOfSeq
    <3>2. PICK j \in DOMAIN all : kept[i] = all[j]
      BY <3>1 DEF ToSet
    <3>3. QED
      BY <1>81, <3>2
  <2>3. keys \in [1..Len(kept) -> Nat]
    BY <1>12, <2>1, <2>2
  <2>4. QED
    BY <1>12, <2>1, <2>3, SeqDef, LenProperties
<1>14. PICK rows : rows = InOrder(kept, keys)
  OBVIOUS
<1>15. rows = row.assets
  BY <1>1, <1>7, <1>10, <1>12, <1>14 DEF Scored, SortedDown, Assessed, InOrder
<1>16. /\ Len(rows) = Len(made) /\ ToSet(rows) = ToSet(all) /\ DOMAIN rows = DOMAIN kept
  <2>1. /\ rows \in Seq(ToSet(all)) /\ Len(rows) = Len(kept) /\ DOMAIN rows = DOMAIN kept
        /\ ToSet(rows) = ToSet(kept)
    <3>1. kept \in Seq(ToSet(all)) /\ keys \in Seq(Nat) /\ Len(keys) = Len(kept)
      BY <1>11, <1>13
    <3>2. QED
      BY <1>14, <3>1, SortedByKeys
  <2>2. QED
    BY <1>11, <2>1
<1>17. \A m, n \in DOMAIN rows : m < n => rows[m].score >= rows[n].score
  <2>1. /\ \A n \in DOMAIN keys : Descending(keys)[n] \in DOMAIN keys
        /\ \A m, n \in DOMAIN keys :
              m < n => keys[Descending(keys)[m]] >= keys[Descending(keys)[n]]
    BY <1>13, DescendingPlaces
  <2>2. \A n \in DOMAIN rows : rows[n].score = keys[Descending(keys)[n]]
    BY <1>12, <1>13, <1>14, <2>1 DEF InOrder
  <2>3. QED
    BY <1>13, <1>16, <2>1, <2>2
<1>18. {s.domain : s \in ToSet(rows)} = {v.domain : v \in ToSet(made)}
  <2>1. {s.domain : s \in ToSet(all)} = {all[i].domain : i \in DOMAIN all}
    BY DEF ToSet
  <2>2. {v.domain : v \in ToSet(made)} = {made[i].domain : i \in DOMAIN made}
    BY DEF ToSet
  <2>3. DOMAIN all = DOMAIN made /\ \A i \in DOMAIN made : all[i].domain = made[i].domain
    BY <1>8
  <2>4. {all[i].domain : i \in DOMAIN all} = {made[i].domain : i \in DOMAIN made}
    BY <2>3
  <2>5. ToSet(rows) = ToSet(all)
    BY <1>16
  <2>6. QED
    BY <2>1, <2>2, <2>4, <2>5
<1>19. Len(rows) = Cardinality({v.domain : v \in ToSet(made)})
  BY <1>4, <1>16, DomainsAreCounted
<1>20. analysis[a].root \notin {v.domain : v \in ToSet(made)}
  BY <1>4 DEF ToSet
<1>21. ASSUME NEW s \in ToSet(rows)
       PROVE  /\ s.score = Weighed(s.domain[2][1], Learned(a, s.domain[2]))
              /\ s.score \in 1..100
              /\ s.priority = "high" <=> s.score >= 70
              /\ s.priority = "low" <=> s.score < 40
  <2>1. PICK j \in DOMAIN all : s = all[j]
    BY <1>16 DEF ToSet
  <2>2. QED
    BY <1>8, <2>1
<1>22. QED
  BY <1>1, <1>15, <1>17, <1>18, <1>19, <1>20, <1>21 DEF Accounted

\* The rows stay what they are while the analyses that are saved do.
LEMMA RowsStay ==
    ASSUME AccountInv, analyses' = analyses, world' = world,
           \A b \in Analyses : analysis[b].at = "saved" => analysis'[b] = analysis[b]
    PROVE  RowsOK'
<1>1. ASSUME NEW row \in ToSet(analyses)
      PROVE  row.of \in Analyses /\ analysis'[row.of].at = "saved" /\ Accounted(row)'
  <2>1. /\ row.of \in Analyses /\ analysis[row.of].at = "saved" /\ Accounted(row)
        /\ analysis'[row.of] = analysis[row.of]
    BY DEF AccountInv, RowsOK
  <2>2. \A f : Learned(row.of, f)' = Learned(row.of, f)
    BY <2>1 DEF Learned
  <2>3. Accounted(row)'
    <3>1. \A s \in ToSet(row.assets) :
             /\ s.score = Weighed(s.domain[2][1], Learned(row.of, s.domain[2])')
             /\ s.score \in 1..100
             /\ s.priority = "high" <=> s.score >= 70
             /\ s.priority = "low" <=> s.score < 40
      BY <2>1, <2>2 DEF Accounted
    <3>2. analysis'[row.of].variations = analysis[row.of].variations
          /\ analysis'[row.of].root = analysis[row.of].root
      BY <2>1
    <3>3. /\ Len(row.assets) = Cardinality({v.domain : v \in ToSet(analysis'[row.of].variations)})
          /\ analysis'[row.of].root \notin {v.domain : v \in ToSet(analysis'[row.of].variations)}
          /\ {s.domain : s \in ToSet(row.assets)}
                = {v.domain : v \in ToSet(analysis'[row.of].variations)}
          /\ \A m, n \in DOMAIN row.assets : m < n => row.assets[m].score >= row.assets[n].score
          /\ row.model_source \in row.grounds
      BY <2>1, <3>2 DEF Accounted
    <3>4. QED
      BY <3>1, <3>3 DEF Accounted
  <2>4. QED
    BY <2>1, <2>3
<1>2. QED
  BY <1>1 DEF RowsOK, AccountInv

\* One analysis moves, and the others do not notice.
LEMMA OneAnalysisMoves ==
    ASSUME AccountInv, NEW a \in Analyses, world' = world,
           DOMAIN analysis' = Analyses, DOMAIN asset' = Analyses,
           \A b \in Analyses : b # a => analysis'[b] = analysis[b] /\ asset'[b] = asset[b],
           ShapeOK(a)', FindingsOK(a)', RowsOK'
    PROVE  AccountInv'
<1>1. ASSUME NEW b \in Analyses, b # a
      PROVE  ShapeOK(b)' /\ FindingsOK(b)'
  <2>1. analysis'[b] = analysis[b] /\ asset'[b] = asset[b]
    BY <1>1
  <2>2. ShapeOK(b) /\ FindingsOK(b)
    BY DEF AccountInv
  <2>3. ShapeOK(b)'
    BY <2>1, <2>2 DEF ShapeOK, AsRequested
  <2>4. FindingsOK(b)'
    BY <2>1, <2>2 DEF FindingsOK, Form
  <2>5. QED
    BY <2>3, <2>4
<1>2. QED
  BY <1>1 DEF AccountInv

\* An asset moves to a stage where it knows what that stage knows.
LEMMA AssetLearns ==
    ASSUME AccountInv, NEW a \in Analyses, NEW i \in DOMAIN asset[a], NEW new \in AssetType,
           Update(a, i, new), UNCHANGED <<analysis, world, analyses>>,
           ~analysis[a].offline, LiveAssetOK(new, world, Form(a, i))
    PROVE  AccountInv'
<1>1. /\ DOMAIN asset' = Analyses /\ DOMAIN asset'[a] = DOMAIN asset[a]
      /\ asset'[a] = [asset[a] EXCEPT ![i] = new]
      /\ \A b \in Analyses : b # a => asset'[b] = asset[b]
  BY DEF Update, AccountInv
<1>2. ShapeOK(a) /\ FindingsOK(a) /\ analysis' = analysis /\ world' = world
  BY DEF AccountInv
<1>3. ShapeOK(a)'
  <2>1. asset'[a] \in [DOMAIN analysis[a].variations -> AssetType]
    BY <1>1, <1>2 DEF ShapeOK
  <2>2. QED
    BY <1>2, <2>1 DEF ShapeOK, AsRequested
<1>4. FindingsOK(a)'
  <2> SUFFICES ASSUME NEW j \in DOMAIN asset'[a]
               PROVE  LiveAssetOK(asset'[a][j], world', Form(a, j)')
    BY <1>2 DEF FindingsOK
  <2>1. Form(a, j)' = Form(a, j) /\ j \in DOMAIN asset[a]
    BY <1>1, <1>2 DEF Form
  <2>2. CASE j = i
    BY <1>1, <1>2, <2>1, <2>2
  <2>3. CASE j # i
    BY <1>1, <1>2, <2>1, <2>3 DEF FindingsOK
  <2>4. QED
    BY <2>2, <2>3
<1>5. RowsOK'
  BY RowsStay
<1>6. QED
  BY <1>1, <1>2, <1>3, <1>4, <1>5, OneAnalysisMoves DEF AccountInv

\* What is known before anything was asked.
LEMMA FreshKnowsNothing ==
    ASSUME NEW w, NEW f, NEW at \in {"idle", "crt wait", "crt"}
    PROVE  /\ Fresh.found = KnownAt(at, w, f) /\ Fresh \in AssetType
           /\ MockAssetOK(Fresh, f) /\ LiveAssetOK(Fresh, w, f)
<1>1. \A stage \in {"idle", "crt wait", "crt"} : Fresh.found = KnownAt(stage, w, f)
  BY DEF Fresh, KnownAt
<1>2. Fresh \in AssetType
  BY DEF Fresh, AssetType, Found, Stages
<1>3. Fresh.at = "idle"
  BY DEF Fresh
<1>4. QED
  BY <1>1, <1>2, <1>3 DEF MockAssetOK, LiveAssetOK

\* What is known changes with the answers only.
LEMMA KnownStages ==
    ASSUME NEW w, NEW f
    PROVE  /\ KnownAt("crt wait", w, f) = KnownAt("idle", w, f)
           /\ KnownAt("crt", w, f) = KnownAt("crt wait", w, f)
           /\ KnownAt("rdap", w, f) = KnownAt("rdap wait", w, f)
           /\ KnownAt("ip", w, f) = KnownAt("ip wait", w, f)
<1>1. /\ KnownAt("crt wait", w, f) = KnownAt("idle", w, f)
      /\ KnownAt("crt", w, f) = KnownAt("crt wait", w, f)
  BY DEF KnownAt
<1>2. KnownAt("rdap", w, f) = KnownAt("rdap wait", w, f)
  BY DEF KnownAt
<1>3. KnownAt("ip", w, f) = KnownAt("ip wait", w, f)
  BY DEF KnownAt
<1>4. QED
  BY <1>1, <1>2, <1>3

Finds(certificates, privacy, ips, tags) ==
    [certificates |-> certificates, privacy |-> privacy, ips |-> ips, tags |-> tags]

LEMMA KnownValues ==
    ASSUME NEW w, NEW f
    PROVE  /\ KnownAt("crt", w, f) = Finds(FALSE, FALSE, FALSE, 0)
           /\ KnownAt("rdap wait", w, f) = Finds(Certified(w, f), FALSE, w[f[1]].ips = "some", 0)
           /\ KnownAt("ip wait", w, f)
                 = Finds(Certified(w, f), w[f[1]].rdap = "private", w[f[1]].ips = "some", 0)
           /\ KnownAt("done", w, f)
                 = Finds(Certified(w, f), w[f[1]].rdap = "private", w[f[1]].ips = "some",
                         IF w[f[1]].ips = "some" /\ Patterned(f) THEN 1 ELSE 0)
<1>1. Certified(w, f) \in BOOLEAN
  BY Fixed DEF Certified, Found
<1>2. KnownAt("crt", w, f) = Finds(FALSE, FALSE, FALSE, 0)
  BY DEF KnownAt, Finds
<1>3. KnownAt("rdap wait", w, f) = Finds(Certified(w, f), FALSE, w[f[1]].ips = "some", 0)
  BY <1>1 DEF KnownAt, Finds
<1>4. KnownAt("ip wait", w, f)
         = Finds(Certified(w, f), w[f[1]].rdap = "private", w[f[1]].ips = "some", 0)
  BY <1>1 DEF KnownAt, Finds
<1>5. KnownAt("done", w, f)
         = Finds(Certified(w, f), w[f[1]].rdap = "private", w[f[1]].ips = "some",
                 IF w[f[1]].ips = "some" /\ Patterned(f) THEN 1 ELSE 0)
  BY <1>1 DEF KnownAt, Finds
<1>6. QED
  BY <1>2, <1>3, <1>4, <1>5

LEMMA AssetStepAccounts ==
    ASSUME PhantomInv, AccountInv, NEW a \in Analyses, NEW i \in DOMAIN asset[a], AssetStep(a, i)
    PROVE  AccountInv'
<1>1. PICK it \in AssetType : it = asset[a][i]
  BY DEF AccountInv, ShapeOK
<1>2. PICK f : f = Form(a, i)
  OBVIOUS
<1>3. IF analysis[a].offline THEN MockAssetOK(it, f) ELSE LiveAssetOK(it, world, f)
  BY <1>1, <1>2 DEF AccountInv, FindingsOK
<1>4. ~analysis[a].offline
  <2> SUFFICES ASSUME analysis[a].offline PROVE FALSE
    OBVIOUS
  <2>1. it.at = "idle" \/ it.at = "done"
    BY <1>3 DEF MockAssetOK
  <2>2. ~Fetch(a, i) /\ ~Send(a, i) /\ ~CrtAnswers(a, i) /\ ~RdapAnswers(a, i) /\ ~IpAnswers(a, i)
    BY <1>1, <2>1 DEF Fetch, Send, CrtAnswers, RdapAnswers, IpAnswers
  <2>3. ~AssetRaises(a, i)
    BY <1>1, <2>1 DEF AssetRaises, Raises
  <2>4. QED
    BY <2>2, <2>3 DEF AssetStep
<1>5. /\ it.at # "raised" => it.found = KnownAt(it.at, world, f)
      /\ it.at \in {"ip wait", "ip"} => world[f[1]].ips = "some"
  BY <1>3, <1>4 DEF LiveAssetOK
<1>6. UNCHANGED <<analysis, world, analyses>>
  BY DEF AssetStep, Fetch, Send, CrtAnswers, AssetRaises, RdapAnswers, IpAnswers
<1>7. /\ it.found \in Found /\ it.slot \in Nat /\ it.at \in Stages
      /\ DOMAIN it = {"at", "slot", "found"}
  BY DEF AssetType
<1>8. \A host \in Hosts : Slot(host) \in Nat
  BY DEF Slot, PhantomInv, ClockOK
<1>9. Says(a, i) = world[f[1]]
  BY <1>2 DEF Says
<1>91. PICK c : c = Certified(world, f)
  OBVIOUS
<1>92. PICK p : p = (world[f[1]].rdap = "private")
  OBVIOUS
<1>93. PICK q : q = (world[f[1]].ips = "some")
  OBVIOUS
<1>90. c \in BOOLEAN /\ p \in BOOLEAN /\ q \in BOOLEAN
  <2>1. Certified(world, f) \in BOOLEAN
    BY Fixed DEF Certified, Found
  <2>2. QED
    BY <1>91, <1>92, <1>93, <2>1
<1>94. /\ KnownAt("crt", world, f) = Finds(FALSE, FALSE, FALSE, 0)
       /\ KnownAt("rdap wait", world, f) = Finds(c, FALSE, q, 0)
       /\ KnownAt("rdap", world, f) = Finds(c, FALSE, q, 0)
       /\ KnownAt("ip wait", world, f) = Finds(c, p, q, 0)
       /\ KnownAt("ip", world, f) = Finds(c, p, q, 0)
       /\ KnownAt("done", world, f) = Finds(c, p, q, IF q /\ Patterned(f) THEN 1 ELSE 0)
  <2>1. /\ KnownAt("crt", world, f) = Finds(FALSE, FALSE, FALSE, 0)
        /\ KnownAt("rdap wait", world, f) = Finds(c, FALSE, q, 0)
        /\ KnownAt("ip wait", world, f) = Finds(c, p, q, 0)
        /\ KnownAt("done", world, f) = Finds(c, p, q, IF q /\ Patterned(f) THEN 1 ELSE 0)
    <3>1. /\ KnownAt("crt", world, f) = Finds(FALSE, FALSE, FALSE, 0)
          /\ KnownAt("rdap wait", world, f)
                = Finds(Certified(world, f), FALSE, world[f[1]].ips = "some", 0)
          /\ KnownAt("ip wait", world, f)
                = Finds(Certified(world, f), world[f[1]].rdap = "private", world[f[1]].ips = "some", 0)
          /\ KnownAt("done", world, f)
                = Finds(Certified(world, f), world[f[1]].rdap = "private", world[f[1]].ips = "some",
                        IF world[f[1]].ips = "some" /\ Patterned(f) THEN 1 ELSE 0)
      BY KnownValues
    <3>2. QED
      BY <1>91, <1>92, <1>93, <3>1
  <2>2. /\ KnownAt("rdap", world, f) = KnownAt("rdap wait", world, f)
        /\ KnownAt("ip", world, f) = KnownAt("ip wait", world, f)
    BY KnownStages
  <2>3. QED
    BY <2>1, <2>2
<1>10. ASSUME NEW new \in AssetType, Update(a, i, new), LiveAssetOK(new, world, f)
       PROVE  AccountInv'
  BY <1>2, <1>4, <1>6, <1>10, AssetLearns
<1>11. CASE Fetch(a, i)
  <2> DEFINE new == [it EXCEPT !.at = "crt wait", !.slot = Slot("crt")]
  <2>1. Update(a, i, new) /\ it.at = "idle"
    BY <1>1, <1>11 DEF Fetch
  <2>2. new.at = "crt wait" /\ new.found = it.found /\ new \in AssetType
    BY <1>7, <1>8 DEF AssetType, Stages, Hosts
  <2> HIDE DEF new
  <2>3. LiveAssetOK(new, world, f)
    <3>1. it.found = KnownAt("crt wait", world, f)
      BY <1>5, <2>1, KnownStages
    <3>2. QED
      BY <2>2, <3>1 DEF LiveAssetOK
  <2>4. QED
    BY <1>10, <2>1, <2>2, <2>3
<1>12. CASE Send(a, i)
  <2> DEFINE new == [it EXCEPT !.at = CASE it.at = "crt wait" -> "crt" [] it.at = "rdap wait" -> "rdap"
                                        [] OTHER -> "ip"]
  <2>1. Update(a, i, new) /\ it.at \in {"crt wait", "rdap wait", "ip wait"}
    BY <1>1, <1>12 DEF Send
  <2>2. /\ new.at \in {"crt", "rdap", "ip"} /\ new.found = it.found /\ new.slot = it.slot
        /\ it.at = "crt wait" <=> new.at = "crt"
        /\ it.at = "rdap wait" <=> new.at = "rdap"
        /\ it.at = "ip wait" <=> new.at = "ip"
    BY <1>7, <2>1
  <2>3. new \in AssetType
    BY <1>7, <2>2 DEF AssetType, Stages
  <2> HIDE DEF new
  <2>4. LiveAssetOK(new, world, f)
    BY <1>5, <2>1, <2>2, KnownStages DEF LiveAssetOK
  <2>5. QED
    BY <1>10, <2>1, <2>3, <2>4
<1>13. CASE CrtAnswers(a, i)
  <2> DEFINE certs == \/ Says(a, i).crt = "some"
                      \/ Says(a, i).crt = "fails" /\ Profile(Form(a, i)).certificates
             found == [it.found EXCEPT !.certificates = certs, !.ips = Says(a, i).ips = "some"]
             new == [at |-> "rdap wait", slot |-> Slot("rdap"), found |-> found]
  <2>1. Update(a, i, new) /\ it.at = "crt"
    BY <1>1, <1>13 DEF CrtAnswers
  <2>2. certs = c /\ (Says(a, i).ips = "some") = q
    <3>1. Profile(f).certificates \in BOOLEAN
      BY Fixed DEF Found
    <3>2. certs <=> Certified(world, f)
      BY <1>2, <1>9, <3>1 DEF Certified
    <3>3. QED
      BY <1>9, <1>90, <1>91, <1>93, <3>2
  <2> HIDE DEF certs
  <2>3. found = KnownAt("rdap wait", world, f)
    <3>1. it.found = KnownAt("crt", world, f)
      BY <1>5, <2>1
    <3>2. found = [it.found EXCEPT !.certificates = c, !.ips = q]
      BY <2>2
    <3>3. PICK none : none = FALSE
      OBVIOUS
    <3>4. PICK old : old = it.found
      OBVIOUS
    <3>5. old = Finds(none, none, none, 0)
      BY <1>94, <3>1, <3>3, <3>4
    <3>6. [old EXCEPT !.certificates = c, !.ips = q] = Finds(c, none, q, 0)
      <4>1. PICK half : half = [old EXCEPT !.certificates = c]
        OBVIOUS
      <4>2. half = Finds(c, none, none, 0)
        BY <3>5, <4>1 DEF Finds
      <4>3. [old EXCEPT !.certificates = c, !.ips = q] = [[old EXCEPT !.certificates = c] EXCEPT !.ips = q]
        BY <3>5
      <4>4. [old EXCEPT !.certificates = c, !.ips = q] = [half EXCEPT !.ips = q]
        BY <4>1, <4>3
      <4>5. [half EXCEPT !.ips = q] = Finds(c, none, q, 0)
        BY <4>2 DEF Finds
      <4>6. QED
        BY <4>4, <4>5
    <3>7. QED
      BY <1>94, <3>2, <3>3, <3>4, <3>6
  <2> HIDE DEF found
  <2>4. new \in AssetType /\ new.at = "rdap wait" /\ new.found = KnownAt("rdap wait", world, f)
    BY <1>8, <2>3, KnownIsFound DEF AssetType, Stages, Hosts
  <2> HIDE DEF new
  <2>5. LiveAssetOK(new, world, f)
    BY <2>4 DEF LiveAssetOK
  <2>6. QED
    BY <1>10, <2>1, <2>4, <2>5
<1>14. CASE AssetRaises(a, i)
  <2> DEFINE new == [it EXCEPT !.at = "raised"]
  <2>1. Update(a, i, new)
    BY <1>1, <1>14 DEF AssetRaises
  <2>2. new \in AssetType /\ new.at = "raised"
    BY <1>7 DEF AssetType, Stages
  <2> HIDE DEF new
  <2>3. LiveAssetOK(new, world, f)
    BY <2>2 DEF LiveAssetOK
  <2>4. QED
    BY <1>10, <2>1, <2>2, <2>3
<1>15. CASE RdapAnswers(a, i)
  <2> DEFINE found == [it.found EXCEPT !.privacy = Says(a, i).rdap = "private"]
             asks == [at |-> "ip wait", slot |-> Slot("rdap"), found |-> found]
             ends == [at |-> "done", slot |-> 0, found |-> found]
  <2>1. /\ it.at = "rdap"
        /\ (found.ips /\ Update(a, i, asks)) \/ (~found.ips /\ Update(a, i, ends))
    BY <1>1, <1>15 DEF RdapAnswers
  <2>2. it.found = KnownAt("rdap", world, f)
    BY <1>5, <2>1
  <2>21. found = Finds(c, p, q, 0)
    <3>1. (Says(a, i).rdap = "private") = p
      BY <1>9, <1>92
    <3>2. found = [it.found EXCEPT !.privacy = p]
      BY <3>1
    <3>3. it.found = Finds(c, FALSE, q, 0)
      BY <1>94, <2>2
    <3>4. PICK old : old = it.found
      OBVIOUS
    <3>5. [old EXCEPT !.privacy = p] = Finds(c, p, q, 0)
      BY <3>3, <3>4 DEF Finds
    <3>6. QED
      BY <3>2, <3>4, <3>5
  <2>3. found.ips <=> world[f[1]].ips = "some"
    BY <1>93, <2>21 DEF Finds
  <2>4. /\ world[f[1]].ips = "some" => found = KnownAt("ip wait", world, f)
        /\ world[f[1]].ips # "some" => found = KnownAt("done", world, f)
    BY <1>93, <1>94, <2>21
  <2>5. found \in Found
    <3>1. KnownAt("ip wait", world, f) \in Found /\ KnownAt("done", world, f) \in Found
      BY KnownIsFound
    <3>2. QED
      BY <2>4, <3>1
  <2> HIDE DEF found
  <2>6. CASE found.ips /\ Update(a, i, asks)
    <3>1. asks \in AssetType /\ asks.at = "ip wait" /\ asks.found = found
      BY <1>8, <2>5 DEF AssetType, Stages, Hosts
    <3>2. LiveAssetOK(asks, world, f)
      BY <2>3, <2>4, <2>6, <3>1 DEF LiveAssetOK
    <3>3. QED
      BY <1>10, <2>6, <3>1, <3>2
  <2>7. CASE ~found.ips /\ Update(a, i, ends)
    <3>1. ends \in AssetType /\ ends.at = "done" /\ ends.found = found
      BY <2>5 DEF AssetType, Stages
    <3>2. LiveAssetOK(ends, world, f)
      BY <2>3, <2>4, <2>7, <3>1 DEF LiveAssetOK
    <3>3. QED
      BY <1>10, <2>7, <3>1, <3>2
  <2>8. QED
    BY <2>1, <2>6, <2>7
<1>16. CASE IpAnswers(a, i)
  <2> DEFINE found == [it.found EXCEPT !.tags = IF Patterned(Form(a, i)) THEN 1 ELSE 0]
             new == [at |-> "done", slot |-> 0, found |-> found]
  <2>1. Update(a, i, new) /\ it.at = "ip"
    BY <1>1, <1>16 DEF IpAnswers
  <2>2. it.found = KnownAt("ip", world, f) /\ world[f[1]].ips = "some"
    BY <1>5, <2>1
  <2>3. found = KnownAt("done", world, f)
    <3>1. q
      BY <1>93, <2>2
    <3>2. found = [it.found EXCEPT !.tags = IF q /\ Patterned(f) THEN 1 ELSE 0]
      BY <1>2, <3>1
    <3>3. it.found = Finds(c, p, q, 0)
      BY <1>94, <2>2
    <3>4. PICK old : old = it.found
      OBVIOUS
    <3>5. PICK tags : tags = IF q /\ Patterned(f) THEN 1 ELSE 0
      OBVIOUS
    <3>6. [old EXCEPT !.tags = tags] = Finds(c, p, q, tags)
      BY <3>3, <3>4 DEF Finds
    <3>7. QED
      BY <1>94, <3>2, <3>4, <3>5, <3>6
  <2> HIDE DEF found
  <2>4. new \in AssetType /\ new.at = "done" /\ new.found = KnownAt("done", world, f)
    BY <2>3, KnownIsFound DEF AssetType, Stages
  <2> HIDE DEF new
  <2>5. LiveAssetOK(new, world, f)
    BY <2>4 DEF LiveAssetOK
  <2>6. QED
    BY <1>10, <2>1, <2>4, <2>5
<1>17. QED
  BY <1>11, <1>12, <1>13, <1>14, <1>15, <1>16 DEF AssetStep

LEMMA AccountsInitially == PhantomInit => AccountInv
<1> SUFFICES ASSUME PhantomInit PROVE AccountInv
  OBVIOUS
<1>1. /\ DOMAIN analysis = Analyses /\ DOMAIN asset = Analyses /\ analyses = <<>>
      /\ \A a \in Analyses :
            /\ analysis[a] = [at |-> "new", offline |-> TRUE, root |-> NoRoot,
                              max_variants |-> 1, variations |-> <<>>]
            /\ asset[a] = <<>>
  BY DEF PhantomInit
<1>2. ASSUME NEW a \in Analyses
      PROVE  ShapeOK(a) /\ FindingsOK(a)
  <2>1. /\ DOMAIN analysis[a] = {"at", "offline", "root", "max_variants", "variations"}
        /\ analysis[a].at = "new" /\ analysis[a].variations = <<>> /\ analysis[a].max_variants = 1
    BY <1>1
  <2>2. asset[a] = <<>> /\ DOMAIN asset[a] = {}
    BY <1>1
  <2>3. asset[a] \in [DOMAIN analysis[a].variations -> AssetType]
    <3>1. DOMAIN analysis[a].variations = {}
      BY <2>1, <2>2
    <3>2. asset[a] = [i \in {} |-> asset[a][i]]
      BY <2>2
    <3>3. QED
      BY <3>1, <3>2
  <2>4. QED
    BY <2>1, <2>2, <2>3 DEF ShapeOK, FindingsOK, AsRequested
<1>3. RowsOK
  BY <1>1 DEF RowsOK, ToSet
<1>4. QED
  BY <1>1, <1>2, <1>3 DEF AccountInv

LEMMA AnalyzeAccounts ==
    ASSUME AccountInv, NEW a \in Analyses, NEW request \in Requests[a], Analyze(a, request)
    PROVE  AccountInv'
<1>1. PICK made :
         made = generate_domain_variants(request.keyword, request.root, request.max_variants)
  OBVIOUS
<1>2. PICK new : new = [at |-> "running", offline |-> request.offline_mode, root |-> request.root,
                        max_variants |-> request.max_variants, variations |-> made]
  OBVIOUS
<1>3. PICK fresh : fresh = [i \in DOMAIN made |-> Fresh]
  OBVIOUS
<1>4. /\ analysis[a].at = "new"
      /\ analysis' = [analysis EXCEPT ![a] = new] /\ asset' = [asset EXCEPT ![a] = fresh]
      /\ world' = world /\ analyses' = analyses
  BY <1>1, <1>2, <1>3 DEF Analyze
<1>5. /\ DOMAIN analysis' = Analyses /\ DOMAIN asset' = Analyses
      /\ analysis'[a] = new /\ asset'[a] = fresh
      /\ \A b \in Analyses : b # a => analysis'[b] = analysis[b] /\ asset'[b] = asset[b]
  BY <1>4 DEF AccountInv
<1>6. ShapeOK(a)'
  <2>1. /\ DOMAIN new = {"at", "offline", "root", "max_variants", "variations"}
        /\ new.at = "running" /\ new.offline = request.offline_mode /\ new.root = request.root
        /\ new.max_variants = request.max_variants /\ new.variations = made
    BY <1>2
  <2>2. fresh \in [DOMAIN made -> AssetType]
    <3>1. Fresh \in AssetType
      BY FreshKnowsNothing
    <3>2. QED
      BY <1>3, <3>1
  <2>3. AsRequested(a)'
    BY <1>1, <1>5, <2>1 DEF AsRequested
  <2>4. QED
    BY <1>5, <2>1, <2>2, <2>3 DEF ShapeOK
<1>7. FindingsOK(a)'
  <2>1. \A i \in DOMAIN fresh : fresh[i] = Fresh
    BY <1>3
  <2>2. \A f : MockAssetOK(Fresh, f) /\ LiveAssetOK(Fresh, world, f)
    BY FreshKnowsNothing
  <2>3. QED
    BY <1>4, <1>5, <2>1, <2>2 DEF FindingsOK
<1>8. RowsOK'
  BY <1>4, <1>5, RowsStay
<1>9. QED
  BY <1>4, <1>5, <1>6, <1>7, <1>8, OneAnalysisMoves

LEMMA MockAccounts ==
    ASSUME AccountInv, NEW a \in Analyses, Mock(a)
    PROVE  AccountInv'
<1>1. PICK done : done = [i \in DOMAIN asset[a] |->
                             [at |-> "done", slot |-> 0, found |-> Profile(Form(a, i))]]
  OBVIOUS
<1>2. /\ analysis[a].offline /\ analysis' = analysis /\ asset' = [asset EXCEPT ![a] = done]
      /\ world' = world /\ analyses' = analyses
  BY <1>1 DEF Mock
<1>3. /\ DOMAIN analysis' = Analyses /\ DOMAIN asset' = Analyses
      /\ asset'[a] = done
      /\ \A b \in Analyses : b # a => analysis'[b] = analysis[b] /\ asset'[b] = asset[b]
  BY <1>2 DEF AccountInv
<1>4. \A i \in DOMAIN asset[a] :
         done[i] \in AssetType /\ done[i].at = "done" /\ done[i].found = Profile(Form(a, i))
  <2>1. \A i \in DOMAIN asset[a] :
           done[i] = [at |-> "done", slot |-> 0, found |-> Profile(Form(a, i))]
    BY <1>1
  <2>2. \A f : [at |-> "done", slot |-> 0, found |-> Profile(f)] \in AssetType
    BY Fixed DEF AssetType, Stages
  <2>3. ASSUME NEW i \in DOMAIN asset[a]
        PROVE  done[i] \in AssetType /\ done[i].at = "done" /\ done[i].found = Profile(Form(a, i))
    <3>1. PICK f : f = Form(a, i)
      OBVIOUS
    <3>2. done[i] = [at |-> "done", slot |-> 0, found |-> Profile(f)]
      BY <2>1, <3>1
    <3>3. QED
      BY <2>2, <3>1, <3>2
  <2>4. QED
    BY <2>3
<1>5. DOMAIN done = DOMAIN asset[a] /\ done = [i \in DOMAIN asset[a] |-> done[i]]
  BY <1>1
<1>6. ShapeOK(a) /\ analysis'[a] = analysis[a]
  BY <1>2 DEF AccountInv
<1>7. ShapeOK(a)'
  <2>1. done \in [DOMAIN analysis[a].variations -> AssetType]
    BY <1>4, <1>5, <1>6 DEF ShapeOK
  <2>2. QED
    BY <1>3, <1>6, <2>1 DEF ShapeOK, AsRequested
<1>8. FindingsOK(a)'
  <2>1. \A i : Form(a, i)' = Form(a, i)
    BY <1>6 DEF Form
  <2>2. \A i \in DOMAIN done : MockAssetOK(done[i], Form(a, i))
    BY <1>4, <1>5 DEF MockAssetOK
  <2>3. analysis'[a].offline
    BY <1>2, <1>6
  <2>4. QED
    BY <1>3, <2>1, <2>2, <2>3 DEF FindingsOK
<1>9. RowsOK'
  BY <1>2, RowsStay
<1>10. QED
  BY <1>2, <1>3, <1>7, <1>8, <1>9, OneAnalysisMoves

\* An analysis that ends keeps its variants and its assets.
LEMMA EndingKeeps ==
    ASSUME AccountInv, NEW a \in Analyses, analysis[a].at = "running",
           NEW ending \in {"saved", "failed", "locked"},
           analysis' = [analysis EXCEPT ![a].at = ending],
           asset' = asset, world' = world, RowsOK'
    PROVE  AccountInv'
<1>1. /\ DOMAIN analysis' = Analyses /\ DOMAIN asset' = Analyses
      /\ \A b \in Analyses : b # a => analysis'[b] = analysis[b] /\ asset'[b] = asset[b]
  BY DEF AccountInv
<1>2. ShapeOK(a) /\ FindingsOK(a) /\ DOMAIN analysis = Analyses
  BY DEF AccountInv
<1>3. /\ DOMAIN analysis'[a] = DOMAIN analysis[a] /\ analysis'[a].at = ending
      /\ analysis'[a].offline = analysis[a].offline /\ analysis'[a].root = analysis[a].root
      /\ analysis'[a].max_variants = analysis[a].max_variants
      /\ analysis'[a].variations = analysis[a].variations
  BY <1>2 DEF ShapeOK
<1>4. ShapeOK(a)'
  BY <1>2, <1>3 DEF ShapeOK, AsRequested
<1>5. FindingsOK(a)'
  <2>1. \A i : Form(a, i)' = Form(a, i)
    BY <1>3 DEF Form
  <2>2. QED
    BY <1>2, <1>3, <2>1 DEF FindingsOK
<1>6. QED
  BY <1>1, <1>4, <1>5, OneAnalysisMoves

LEMMA ConcludeAccounts ==
    ASSUME AccountInv, NEW a \in Analyses, NEW keys \in SummaryKeys, NEW answer \in SummaryAnswers,
           Conclude(a, keys, answer)
    PROVE  AccountInv'
<1>1. PICK source : source = build_summary(analysis[a].offline, keys, answer)
  OBVIOUS
<1>2. PICK row : row = [of |-> a, assets |-> Scored(a), model_source |-> source,
                        grounds |-> Grounds(analysis[a].offline, keys, answer)]
  OBVIOUS
<1>3. /\ analysis[a].at = "running" /\ \A i \in DOMAIN asset[a] : asset[a][i].at = "done"
      /\ asset' = asset /\ world' = world
  BY DEF Conclude
<1>4. \/ /\ source # "raises" /\ analyses' = Append(analyses, row)
         /\ analysis' = [analysis EXCEPT ![a].at = "saved"]
      \/ /\ analysis' = [analysis EXCEPT ![a].at = IF source = "raises" THEN "failed" ELSE "locked"]
         /\ analyses' = analyses
  BY <1>1, <1>2 DEF Conclude
<1>5. \A b \in Analyses : analysis[b].at = "saved" => analysis'[b] = analysis[b]
  BY <1>3, <1>4 DEF AccountInv
<1>6. CASE /\ source # "raises" /\ analyses' = Append(analyses, row)
           /\ analysis' = [analysis EXCEPT ![a].at = "saved"]
  <2>1. Accounted(row)
    <3>1. source \in Grounds(analysis[a].offline, keys, answer)
      BY <1>1, <1>6, SummaryHasGrounds, ProviderAssumption
    <3>2. /\ row.of = a /\ row.assets = Scored(a) /\ row.model_source = source
          /\ row.grounds = Grounds(analysis[a].offline, keys, answer)
      BY <1>2
    <3>3. ShapeOK(a) /\ FindingsOK(a) /\ analysis[a].at # "new"
      BY <1>3 DEF AccountInv
    <3>4. row.model_source \in row.grounds
      BY <3>1, <3>2
    <3>5. QED
      BY <1>3, <3>2, <3>3, <3>4, ScoredIsAccounted
  <2>2. row.of = a /\ DOMAIN analysis[a] = {"at", "offline", "root", "max_variants", "variations"}
    BY <1>2 DEF AccountInv, ShapeOK
  <2>3. /\ analysis'[a].at = "saved" /\ analysis'[a].offline = analysis[a].offline
        /\ analysis'[a].root = analysis[a].root /\ analysis'[a].variations = analysis[a].variations
    BY <1>6, <2>2 DEF AccountInv
  <2>4. Accounted(row)'
    <3>1. \A f : Learned(a, f)' = Learned(a, f)
      BY <1>3, <2>3 DEF Learned
    <3>2. QED
      BY <2>1, <2>2, <2>3, <3>1 DEF Accounted
  <2>5. ASSUME NEW old \in ToSet(analyses)
        PROVE  old.of \in Analyses /\ analysis'[old.of].at = "saved" /\ Accounted(old)'
    <3>1. PICK of \in Analyses : of = old.of
      BY DEF AccountInv, RowsOK
    <3>2. Accounted(old) /\ analysis[of].at = "saved" /\ analysis'[of] = analysis[of]
      BY <1>5, <3>1 DEF AccountInv, RowsOK
    <3>3. \A f : Learned(of, f)' = Learned(of, f)
      BY <1>3, <3>2 DEF Learned
    <3>4. Accounted(old)'
      BY <3>1, <3>2, <3>3 DEF Accounted
    <3>5. QED
      BY <3>1, <3>2, <3>4
  <2>6. /\ analyses' \in Seq(ToSet(analyses')) /\ ToSet(analyses') = ToSet(analyses) \cup {row}
    BY <1>6, ListGrows DEF AccountInv, RowsOK
  <2>7. RowsOK'
    <3>1. \A r \in ToSet(analyses') :
             r.of \in Analyses /\ analysis'[r.of].at = "saved" /\ Accounted(r)'
      BY <2>2, <2>3, <2>4, <2>5, <2>6
    <3>2. ToSet(analyses') = ToSet(analyses)'
      BY DEF ToSet
    <3>3. QED
      BY <2>6, <3>1, <3>2 DEF RowsOK
  <2>8. QED
    BY <1>3, <1>6, <2>7, EndingKeeps
<1>7. CASE /\ analysis' = [analysis EXCEPT ![a].at = IF source = "raises" THEN "failed" ELSE "locked"]
           /\ analyses' = analyses
  <2>1. PICK ending \in {"saved", "failed", "locked"} : analysis' = [analysis EXCEPT ![a].at = ending]
    BY <1>7
  <2>2. RowsOK'
    BY <1>3, <1>5, <1>7, RowsStay
  <2>3. QED
    BY <1>3, <2>1, <2>2, EndingKeeps
<1>8. QED
  BY <1>4, <1>6, <1>7

LEMMA AccountStep == PhantomInv /\ AccountInv /\ [PhantomNext]_phantomVars => AccountInv'
<1> SUFFICES ASSUME PhantomInv, AccountInv, [PhantomNext]_phantomVars
             PROVE  AccountInv'
  OBVIOUS
<1>1. ASSUME UNCHANGED <<analysis, asset, world, analyses>>
      PROVE  AccountInv'
  <2>1. analysis' = analysis /\ asset' = asset /\ world' = world /\ analyses' = analyses
    BY <1>1
  <2>2. RowsOK'
    BY <2>1, RowsStay
  <2>3. ASSUME NEW a \in Analyses
        PROVE  ShapeOK(a)' /\ FindingsOK(a)'
    <3>1. ShapeOK(a) /\ FindingsOK(a)
      BY DEF AccountInv
    <3>2. QED
      BY <2>1, <3>1 DEF ShapeOK, AsRequested, FindingsOK, Form
  <2>4. QED
    BY <2>1, <2>2, <2>3 DEF AccountInv
<1>2. CASE Tick
  BY <1>1, <1>2 DEF Tick
<1>3. ASSUME NEW a \in Analyses, NEW request \in Requests[a], Analyze(a, request)
      PROVE  AccountInv'
  BY <1>3, AnalyzeAccounts
<1>4. ASSUME NEW a \in Analyses, Mock(a)
      PROVE  AccountInv'
  BY <1>4, MockAccounts
<1>5. ASSUME NEW a \in Analyses, GatherRaises(a)
      PROVE  AccountInv'
  <2>1. /\ analysis[a].at = "running" /\ analysis' = [analysis EXCEPT ![a].at = "failed"]
        /\ asset' = asset /\ world' = world /\ analyses' = analyses
    BY <1>5 DEF GatherRaises
  <2>2. \A b \in Analyses : analysis[b].at = "saved" => analysis'[b] = analysis[b]
    BY <2>1 DEF AccountInv
  <2>3. RowsOK'
    BY <2>1, <2>2, RowsStay
  <2>4. QED
    BY <2>1, <2>3, EndingKeeps
<1>6. ASSUME NEW a \in Analyses, NEW keys \in SummaryKeys, NEW answer \in SummaryAnswers,
             Conclude(a, keys, answer)
      PROVE  AccountInv'
  BY <1>6, ConcludeAccounts
<1>7. ASSUME NEW a \in Analyses, NEW i \in DOMAIN asset[a], AssetStep(a, i)
      PROVE  AccountInv'
  BY <1>7, AssetStepAccounts
<1>8. CASE UNCHANGED phantomVars
  BY <1>1, <1>8 DEF phantomVars
<1>9. QED
  BY <1>2, <1>3, <1>4, <1>5, <1>6, <1>7, <1>8 DEF PhantomNext, AnalysisStep

\* Through any answers in any order, an asset knows what was said to it so far,
\* and a saved analysis what was said to all of its assets (enrich_domains,
\* score_asset, analyze).
THEOREM AccountsAreKept == PhantomSpec => []AccountInv
<1>1. PhantomInit => AccountInv
  BY AccountsInitially
<1>2. PhantomInv /\ AccountInv /\ [PhantomNext]_phantomVars => AccountInv'
  BY AccountStep
<1>3. QED
  BY <1>1, <1>2, SlotsAreKept, PTL DEF PhantomSpec

\* The variables of the analyses keep their types, no analysis has more variants
\* than were asked for, and every asset of one has a score from 1 to 100.
THEOREM PhantomTypes == PhantomSpec => []PhantomTypeOK
<1>1. PhantomInv /\ AccountInv => PhantomTypeOK
  <2> SUFFICES ASSUME PhantomInv, AccountInv PROVE PhantomTypeOK
    OBVIOUS
  <2>1. ASSUME NEW a \in Analyses
        PROVE  /\ analysis[a].at \in {"new", "running", "saved", "failed", "locked"}
               /\ Len(analysis[a].variations) <= analysis[a].max_variants
               /\ Len(asset[a]) = Len(analysis[a].variations)
               /\ \A i \in DOMAIN asset[a] : asset[a][i].at \in Stages /\ asset[a][i].slot \in Nat
    <3>1. PICK made : made = analysis[a].variations
      OBVIOUS
    <3>2. ShapeOK(a) /\ asset[a] \in [DOMAIN made -> AssetType]
      BY <3>1 DEF AccountInv, ShapeOK
    <3>3. Len(made) \in Nat /\ DOMAIN made = 1..Len(made) /\ Len(made) <= analysis[a].max_variants
      <4>1. CASE analysis[a].at = "new"
        <5>1. made = <<>> /\ analysis[a].max_variants \in Nat
          BY <3>1, <3>2, <4>1 DEF ShapeOK, AsRequested
        <5>2. QED
          BY <5>1
      <4>2. CASE analysis[a].at # "new"
        <5>1. PICK request \in Requests[a] :
                 /\ analysis[a].max_variants = request.max_variants
                 /\ made = generate_domain_variants(request.keyword, request.root,
                                                    request.max_variants)
          BY <3>1, <3>2, <4>2 DEF ShapeOK, AsRequested
        <5>2. request.max_variants \in 1..50
          BY RequestAssumption
        <5>3. request.max_variants \in Nat
          BY <5>2
        <5>4. made \in Seq(Variant(request.keyword)) /\ Len(made) <= request.max_variants
          BY <5>1, <5>3, VariantsAreDistinct
        <5>5. QED
          BY <5>1, <5>4, LenProperties
      <4>3. QED
        BY <4>1, <4>2
    <3>4. asset[a] \in Seq(AssetType) /\ Len(asset[a]) = Len(made)
      <4>1. asset[a] \in [1..Len(made) -> AssetType]
        BY <3>2, <3>3
      <4>2. QED
        BY <3>3, <4>1, SeqDef, LenProperties
    <3>5. \A i \in DOMAIN asset[a] : asset[a][i] \in AssetType
      BY <3>2
    <3>6. QED
      BY <3>1, <3>2, <3>3, <3>4, <3>5 DEF ShapeOK, AssetType
  <2>2. ASSUME NEW row \in ToSet(analyses), NEW s \in ToSet(row.assets)
        PROVE  s.score \in 1..100
    BY DEF AccountInv, RowsOK, Accounted
  <2>3. QED
    BY <2>1, <2>2 DEF PhantomTypeOK
<1>2. QED
  BY <1>1, SlotsAreKept, AccountsAreKept, PTL

\* Whatever the providers answer and whenever, a saved analysis accounts for
\* every variant, by what was said of it (generate_domain_variants,
\* enrich_domains, score_asset, build_summary).
THEOREM AnalysesAccount == PhantomSpec => []AnalysesAreAccounted
<1>1. AccountInv => AnalysesAreAccounted
  <2> SUFFICES ASSUME AccountInv PROVE AnalysesAreAccounted
    OBVIOUS
  <2>1. ASSUME NEW row \in ToSet(analyses)
        PROVE  Accounted(row)
    BY DEF AccountInv, RowsOK
  <2>2. ASSUME NEW a, NEW f
        PROVE  Weighed(f[1], Learned(a, f)) = Weighs(a, f)
    <3>1. CASE analysis[a].offline
      BY <3>1 DEF Weighed, Learned, Base, Weighs, HasCertificates, Resolves, IsPrivate, TagsOf
    <3>2. CASE ~analysis[a].offline
      BY <3>2 DEF Weighed, Learned, Base, KnownAt, Certified, Weighs, HasCertificates, Resolves,
                  IsPrivate, TagsOf
    <3>3. QED
      BY <3>1, <3>2
  <2>3. QED
    BY <2>1, <2>2 DEF AnalysesAreAccounted, Accounted, IsSortedDown
<1>2. QED
  BY <1>1, AccountsAreKept, PTL

\* Where a visit is, how much of its body came and how far its event got.
VisitOK(v) ==
    /\ DOMAIN visits[v] = {"at", "got", "geo", "news"}
    /\ visits[v].at \in {"away", "reading", "rejected", "limited", "answered"} \cup Handled
    /\ visits[v].got \in 0..Len(Body(v))
    /\ visits[v].at = "away" => visits[v].got = 0
    /\ visits[v].at = "reading" => visits[v].got < Len(Body(v))
    /\ visits[v].news \in Publication
    /\ visits[v].at # "answered" => visits[v].news.offered < Len(Sinks)
    /\ visits[v].at = "rejected" <=> Buffered(v) > max_bytes

VisitInv == DOMAIN visits = Visits /\ (\A v \in Visits : VisitOK(v)) /\ clock \in 0..MaxClock

LEMMA SomeSink == Sinks \in Seq(Sink) /\ Len(Sinks) \in Nat /\ Len(Sinks) >= 1
<1>1. CASE Given = <<>>
  BY <1>1, SinkAssumption DEF Sinks
<1>2. CASE Given # <<>>
  <2>1. Given \in Seq(Sink) /\ Len(Given) \in Nat /\ Len(Given) # 0
    BY <1>2, SinkAssumption, LenProperties, EmptySeq
  <2>2. QED
    BY <1>2, <2>1 DEF Sinks
<1>3. QED
  BY <1>1, <1>2

LEMMA VisitsInitially == SensorInit => VisitInv
<1> SUFFICES ASSUME SensorInit PROVE VisitInv
  OBVIOUS
<1>1. visits = [v \in Visits |-> [at |-> "away", got |-> 0, geo |-> NoGeo, news |-> NotPublished]]
      /\ clock = 0
  BY DEF SensorInit
<1>2. ASSUME NEW v \in Visits
      PROVE  VisitOK(v)
  <2>1. visits[v] = [at |-> "away", got |-> 0, geo |-> NoGeo, news |-> NotPublished]
    BY <1>1
  <2>2. Body(v) \in Seq(Nat) /\ Len(Body(v)) \in Nat
    BY VisitAssumption, LenProperties DEF Body
  <2>3. Buffered(v) = 0
    <3>1. SubSeq(Body(v), 1, 0) = <<>>
      BY <2>2
    <3>2. visits[v].got = 0
      BY <2>1
    <3>3. Total(SubSeq(Body(v), 1, 0)) = 0
      BY <3>1, TotalOfNone, Zenon
    <3>4. QED
      BY <3>2, <3>3, Zenon DEF Buffered
  <2>4. NotPublished \in Publication /\ NotPublished.offered = 0
    BY SomeSink DEF NotPublished, Publication
  <2>5. /\ DOMAIN visits[v] = {"at", "got", "geo", "news"}
        /\ visits[v].at = "away" /\ visits[v].got = 0 /\ visits[v].news = NotPublished
    BY <2>1
  <2>6. ~(Buffered(v) > max_bytes) /\ 0 \in 0..Len(Body(v)) /\ 0 < Len(Sinks)
    BY <2>2, <2>3, SomeSink, VisitAssumption
  <2>7. QED
    BY <2>4, <2>5, <2>6 DEF VisitOK
<1>3. QED
  BY <1>1, <1>2, VisitAssumption DEF VisitInv

\* Other visits are where they were.
LEMMA OneVisitMoves ==
    ASSUME VisitInv, NEW v \in Visits, DOMAIN visits' = Visits, VisitOK(v)',
           \A w \in Visits : w # v => visits'[w] = visits[w], clock' = clock
    PROVE  VisitInv'
<1>1. ASSUME NEW w \in Visits, w # v
      PROVE  VisitOK(w)'
  <2>1. visits'[w] = visits[w] /\ VisitOK(w)
    BY <1>1 DEF VisitInv
  <2>2. Body(w)' = Body(w) /\ Buffered(w)' = Buffered(w)
    BY <2>1 DEF Body, Buffered
  <2>3. QED
    BY <2>1, <2>2 DEF VisitOK
<1>2. QED
  BY <1>1 DEF VisitInv

\* A visit whose body does not grow keeps its limit.
LEMMA StageMoves ==
    ASSUME VisitInv, NEW v \in Visits, NEW stage, NEW geo,
           stage \in {"reading", "limited"} \cup Handled,
           stage = "reading" => visits[v].got < Len(Body(v)),
           visits[v].at \in {"away", "reading"} \cup Handled,
           \/ visits' = [visits EXCEPT ![v].at = stage]
           \/ visits' = [visits EXCEPT ![v].at = stage, ![v].geo = geo],
           clock' = clock
    PROVE  VisitInv'
<1>1. VisitOK(v) /\ DOMAIN visits = Visits
  BY DEF VisitInv
<1>2. /\ DOMAIN visits' = Visits
      /\ \A w \in Visits : w # v => visits'[w] = visits[w]
      /\ visits'[v].at = stage /\ visits'[v].got = visits[v].got /\ visits'[v].news = visits[v].news
      /\ DOMAIN visits'[v] = DOMAIN visits[v]
  BY <1>1 DEF VisitOK
<1>3. Body(v)' = Body(v) /\ Buffered(v)' = Buffered(v)
  BY <1>2 DEF Body, Buffered
<1>4. VisitOK(v)'
  BY <1>1, <1>2, <1>3 DEF VisitOK, Handled
<1>5. QED
  BY <1>2, <1>4, OneVisitMoves

LEMMA ReceiveKeeps ==
    ASSUME VisitInv, NEW v \in Visits, Receive(v)
    PROVE  VisitInv'
<1>1. VisitOK(v) /\ DOMAIN visits = Visits
  BY DEF VisitInv
<1>2. PICK got : got = visits[v].got + 1
  OBVIOUS
<1>3. PICK stage : stage = IF Buffered(v) + Body(v)[got] > max_bytes THEN "rejected"
                           ELSE IF got = Len(Body(v)) THEN "arrived"
                           ELSE "reading"
  OBVIOUS
<1>4. visits[v].at = "reading" /\ visits' = [visits EXCEPT ![v].got = got, ![v].at = stage]
      /\ clock' = clock
  BY <1>2, <1>3 DEF Receive
<1>5. /\ DOMAIN visits' = Visits
      /\ \A w \in Visits : w # v => visits'[w] = visits[w]
      /\ visits'[v].at = stage /\ visits'[v].got = got /\ visits'[v].news = visits[v].news
      /\ DOMAIN visits'[v] = DOMAIN visits[v]
  BY <1>1, <1>4 DEF VisitOK
<1>6. /\ Body(v) \in Seq(Nat) /\ Len(Body(v)) \in Nat /\ Body(v)' = Body(v)
      /\ visits[v].got \in Nat /\ visits[v].got < Len(Body(v))
  BY <1>1, <1>4, VisitAssumption, LenProperties DEF Body, VisitOK
<1>7. Buffered(v)' = Buffered(v) + Body(v)[got]
  <2>1. Buffered(v)' = Total(SubSeq(Body(v), 1, got))
    BY <1>5, <1>6 DEF Buffered, Body
  <2>2. QED
    BY <1>2, <1>6, <2>1, TotalOfNext DEF Buffered
<1>8. Buffered(v)' \in Nat /\ max_bytes \in Nat /\ got \in 1..Len(Body(v))
  <2>1. SubSeq(Body(v), 1, visits[v].got) \in Seq(Nat)
    BY <1>6, SubSeqProperties
  <2>2. Buffered(v) \in Nat
    BY <2>1, TotalIsNat DEF Buffered
  <2>3. got \in 1..Len(Body(v)) /\ Body(v)[got] \in Nat
    BY <1>2, <1>6, ElementOfSeq
  <2>4. QED
    BY <1>7, <2>2, <2>3, VisitAssumption
<1>9. VisitOK(v)'
  BY <1>1, <1>3, <1>4, <1>5, <1>6, <1>7, <1>8 DEF VisitOK, Handled
<1>10. QED
  BY <1>4, <1>5, <1>9, OneVisitMoves

LEMMA AnnounceKeeps ==
    ASSUME VisitInv, NEW v \in Visits, Announce(v)
    PROVE  VisitInv'
<1>1. VisitOK(v) /\ DOMAIN visits = Visits
  BY DEF VisitInv
<1>2. PICK outcome \in emit(Sinks[visits[v].news.offered + 1]) :
        visits' = [visits EXCEPT ![v].news = publish(visits[v].news, outcome),
                      ![v].at = IF Published(publish(visits[v].news, outcome))
                                THEN "answered" ELSE @]
  BY DEF Announce
<1>3. PICK news : news = publish(visits[v].news, outcome)
  OBVIOUS
<1>4. PICK stage : stage = IF Published(news) THEN "answered" ELSE "publishing"
  OBVIOUS
<1>5. visits[v].at = "publishing" /\ clock' = clock
  BY DEF Announce
<1>6. /\ DOMAIN visits' = Visits
      /\ \A w \in Visits : w # v => visits'[w] = visits[w]
      /\ visits'[v].at = stage /\ visits'[v].got = visits[v].got /\ visits'[v].news = news
      /\ DOMAIN visits'[v] = DOMAIN visits[v]
  BY <1>1, <1>2, <1>3, <1>4, <1>5 DEF VisitOK
<1>7. Body(v)' = Body(v) /\ Buffered(v)' = Buffered(v)
  BY <1>6 DEF Body, Buffered
<1>8. /\ visits[v].news \in Publication /\ visits[v].news.offered < Len(Sinks)
      /\ Len(Sinks) \in Nat
  BY <1>1, <1>5, SomeSink DEF VisitOK
<1>9. news \in Publication /\ (Published(news) \/ news.offered < Len(Sinks))
  BY <1>3, <1>8 DEF publish, Publication, Published
<1>10. VisitOK(v)'
  BY <1>1, <1>4, <1>5, <1>6, <1>7, <1>9 DEF VisitOK, Handled
<1>11. QED
  BY <1>5, <1>6, <1>10, OneVisitMoves

LEMMA VisitStep == VisitInv /\ [SensorNext]_sensorVars => VisitInv'
<1> SUFFICES ASSUME VisitInv, [SensorNext]_sensorVars PROVE VisitInv'
  OBVIOUS
<1>1. \A v \in Visits : VisitOK(v) /\ Body(v) \in Seq(Nat) /\ Len(Body(v)) \in Nat
  BY VisitAssumption, LenProperties DEF VisitInv, Body
<1>2. ASSUME visits' = visits, clock' \in 0..MaxClock
      PROVE  VisitInv'
  <2>1. ASSUME NEW v \in Visits
        PROVE  VisitOK(v)'
    BY <1>1, <1>2 DEF VisitOK, Body, Buffered
  <2>2. QED
    BY <1>2, <2>1 DEF VisitInv
<1>3. CASE SensorTick
  BY <1>2, <1>3, VisitAssumption DEF SensorTick, VisitInv
<1>4. ASSUME NEW v \in Visits, Arrive(v) \/ HangUp(v) \/ Limited(v) \/ Miss(v) \/ WakeUp(v)
      PROVE  VisitInv'
  <2>1. VisitOK(v) /\ Len(Body(v)) \in Nat /\ (Body(v) # <<>> => Len(Body(v)) # 0)
    BY <1>1, EmptySeq
  <2>2. PICK stage : /\ visits' = [visits EXCEPT ![v].at = stage] /\ clock' = clock
                     /\ stage \in {"reading", "limited"} \cup Handled
                     /\ stage = "reading" => visits[v].at = "away" /\ Body(v) # <<>>
                     /\ visits[v].at \in {"away", "reading"} \cup Handled
    BY <1>4 DEF Arrive, HangUp, Limited, Miss, WakeUp, Moves, Handled
  <2>3. stage = "reading" => visits[v].got < Len(Body(v))
    BY <2>1, <2>2 DEF VisitOK
  <2>4. QED
    BY <2>2, <2>3, StageMoves
<1>5. ASSUME NEW v \in Visits, GeoFails(v) \/ Hit(v) \/ GeoAnswers(v)
      PROVE  VisitInv'
  <2>1. PICK geo : Learns(v, geo) /\ clock' = clock /\ visits[v].at \in Handled
    BY <1>5 DEF GeoFails, Hit, GeoAnswers, Handled
  <2>2. PICK stage : stage = IF VisitOf[v].suspicious THEN "tarpit" ELSE "publishing"
    OBVIOUS
  <2>3. visits' = [visits EXCEPT ![v].at = stage, ![v].geo = geo]
    BY <2>1, <2>2 DEF Learns
  <2>4. stage \in Handled /\ stage # "reading"
    BY <2>2 DEF Handled
  <2>5. QED
    BY <2>1, <2>3, <2>4, StageMoves
<1>6. CASE UNCHANGED sensorVars
  BY <1>2, <1>6 DEF sensorVars, VisitInv
<1>7. QED
  BY <1>3, <1>4, <1>5, <1>6, ReceiveKeeps, AnnounceKeeps DEF SensorNext, CatchAll

\* No visitor's body gets past the limit, whatever chunks it comes in and
\* wherever it is cut, and no visit's event is offered beyond the last sink
\* (RequestSizeLimitMiddleware, catch_all).
THEOREM SensorTypes == SensorSpec => []SensorTypeOK
<1>1. VisitInv => SensorTypeOK
  BY DEF VisitInv, VisitOK, SensorTypeOK
<1>2. QED
  BY <1>1, VisitsInitially, VisitStep, PTL DEF SensorSpec

-----------------------------------------------------------------------------
(* The digests and the feed, the analyses and the sensor together *)

\* A behaviour of the three side by side is a behaviour of each.
THEOREM PartsRunAlone == FairIntelSpec => FusionSpec /\ PhantomSpec /\ SensorSpec
<1>1. IntelInit => FusionInit /\ PhantomInit /\ SensorInit
  BY DEF IntelInit
<1>2. [IntelNext]_intelVars => [FusionNext]_fusionVars /\ [PhantomNext]_phantomVars /\ [SensorNext]_sensorVars
  BY DEF IntelNext, intelVars
<1>3. QED
  BY <1>1, <1>2, PTL DEF FairIntelSpec, FusionSpec, PhantomSpec, SensorSpec

\* Digests, analyses and visits keep their types and their limits however they
\* interleave (get_feed, generate_domain_variants, RequestSizeLimitMiddleware).
THEOREM IntelTypes == FairIntelSpec => []IntelTypeOK
<1>1. FusionTypeOK /\ PhantomTypeOK /\ SensorTypeOK => IntelTypeOK
  BY DEF IntelTypeOK
<1>2. QED
  BY <1>1, PartsRunAlone, FusionTypes, PhantomTypes, SensorTypes, PTL
=============================================================================
