-------------------------- MODULE Ieee80211Proofs --------------------------
(***************************************************************************)
(* Proofs about Ieee80211, for any interfaces, drivers, records and any    *)
(* length of the wait: a channel is never promoted to another frequency, a *)
(* text never leaves its buffer, and the invariant IInv with what follows  *)
(* from it.                                                                *)
(***************************************************************************)
EXTENDS Ieee80211, WellFoundedInduction, TLAPS

-----------------------------------------------------------------------------
(* Channels                                                                *)

\* The first of some indices is one of them.
LEMMA FirstRight ==
    ASSUME NEW S, NEW other
    PROVE  First(S, other) = other \/ First(S, other) \in S
  BY DEF First

\* And there is a first one of numbers, unless there are none.
LEMMA FirstFound ==
    ASSUME NEW S \in SUBSET Nat, S # {}, NEW other
    PROVE  First(S, other) \in S
  <1> DEFINE R == OpToRel(<, Nat)
  <1>1. IsWellFoundedOn(R, Nat)
    BY NatLessThanWellFounded
  <1>2. \A x, y \in Nat : x < y => <<x, y>> \in R
    BY DEF OpToRel
  <1> HIDE DEF R
  <1>3. PICK x \in S : \A y \in S : ~(<<y, x>> \in R)
    <2>1. S \subseteq Nat /\ S # {}
      OBVIOUS
    <2> QED
      BY <1>1, <2>1, WFMin, Zenon
  <1>4. \A y \in S : x <= y
    <2>1. ASSUME NEW y \in S
          PROVE  x <= y
      <3>1. x \in Nat /\ y \in Nat
        OBVIOUS
      <3>2. ~(<<y, x>> \in R)
        BY <1>3
      <3>3. ~(y < x)
        BY <1>2, <3>1, <3>2, Zenon
      <3> QED
        BY <3>1, <3>3
    <2> QED
      BY <2>1
  <1> QED
    BY <1>4 DEF First

\* A function that goes from channel to channel of one frequency.
SameFreq(chans, f) ==
    /\ DOMAIN f = DOMAIN chans
    /\ \A n \in DOMAIN chans : f[n] \in DOMAIN chans /\ chans[f[n]].freq = chans[n].freq

\* canPromote is such a function.
LEMMA CanPromoteFreq ==
    ASSUME NEW chans, NEW from, NEW to
    PROVE  SameFreq(chans, canPromote(chans, from, to))
  <1> DEFINE f == canPromote(chans, from, to)
  <1>1. DOMAIN f = DOMAIN chans
    BY DEF canPromote
  <1>2. ASSUME NEW n \in DOMAIN chans
        PROVE  f[n] \in DOMAIN chans /\ chans[f[n]].freq = chans[n].freq
    <2> DEFINE Better(j) == chans[j].freq = chans[n].freq /\ to \subseteq chans[j].flags
               others == {j \in DOMAIN chans \ {n} : Better(j)}
    <2>1. f[n] = IF ~(from \subseteq chans[n].flags) THEN n
                 ELSE IF n + 1 \in DOMAIN chans /\ Better(n + 1) THEN n + 1
                 ELSE First(others, n)
      BY DEF canPromote
    <2>2. First(others, n) = n \/ First(others, n) \in others
      BY FirstRight
    <2> QED
      BY <2>1, <2>2
  <1> QED
    BY <1>1, <1>2 DEF SameFreq

\* So is one of them after the other.
LEMMA SameFreqTwice ==
    ASSUME NEW chans, NEW f, NEW g, SameFreq(chans, f), SameFreq(chans, g)
    PROVE  SameFreq(chans, [n \in DOMAIN chans |-> g[f[n]]])
  BY DEF SameFreq

\* The promotion to HT channels stays on the frequency.
LEMMA PromoteHtFreq ==
    ASSUME NEW chans, NEW base, NEW ht
    PROVE  SameFreq(chans, promoteHt(chans, base, ht))
  <1> DEFINE f20  == canPromote(chans, base, base \cup {"HT20"})
             f40d == canPromote(chans, base, base \cup {"HT40D"})
             f40u == canPromote(chans, base, base \cup {"HT40U"})
             f    == promoteHt(chans, base, ht)
  <1>1. SameFreq(chans, f20) /\ SameFreq(chans, f40d) /\ SameFreq(chans, f40u)
    BY CanPromoteFreq
  <1>2. f = [n \in DOMAIN chans |->
                IF 1 \notin ht THEN n
                ELSE IF 2 \notin ht THEN f20[n]
                ELSE f40u[f40d[f20[n]]]]
    BY DEF promoteHt
  <1> DEFINE d == [n \in DOMAIN chans |-> f40d[f20[n]]]
             u == [n \in DOMAIN chans |-> f40u[d[n]]]
  <1> HIDE DEF f20, f40d, f40u, f
  <1>3. SameFreq(chans, d)
    BY <1>1, SameFreqTwice
  <1>4. SameFreq(chans, u)
    <2> HIDE DEF d
    <2> QED
      BY <1>1, <1>3, SameFreqTwice
  <1>5. f = [n \in DOMAIN chans |->
                IF 1 \notin ht THEN n
                ELSE IF 2 \notin ht THEN f20[n]
                ELSE u[n]]
    BY <1>2
  <1> HIDE DEF d, u
  <1>6. SameFreq(chans, f)
    BY <1>1, <1>4, <1>5 DEF SameFreq
  <1> QED
    BY <1>6 DEF f

\* promoteChan goes to a channel of the same frequency, for every channel table,
\* mode and HT setting: a "best" channel is never one of another frequency.
THEOREM PromoteKeepsFreq ==
    ASSUME NEW chans, NEW mode, NEW ht
    PROVE  SameFreq(chans, promoteChan(chans, mode, ht))
  <1> DEFINE Id == [j \in DOMAIN chans |-> j]
             b == IF mode # "11b" THEN canPromote(chans, CHAN_B, CHAN_G) ELSE Id
             g == promoteHt(chans, CHAN_G, IF mode # "11g" THEN ht ELSE {})
             a == promoteHt(chans, CHAN_A, IF mode # "11a" THEN ht ELSE {})
  <1>1. SameFreq(chans, Id)
    BY DEF SameFreq
  <1>2. SameFreq(chans, b)
    <2>1. SameFreq(chans, canPromote(chans, CHAN_B, CHAN_G))
      BY CanPromoteFreq
    <2> QED
      BY <1>1, <2>1
  <1>3. SameFreq(chans, g)
    BY PromoteHtFreq
  <1>4. SameFreq(chans, a)
    BY PromoteHtFreq
  <1>5. promoteChan(chans, mode, ht) = [n \in DOMAIN chans |-> a[g[b[n]]]]
    BY DEF promoteChan
  <1> HIDE DEF a, b, g
  <1> QED
    BY <1>2, <1>3, <1>4, <1>5 DEF SameFreq

\* What mapFreq finds has the frequency asked for, and it finds something when
\* there is a channel with that frequency and those flags.
LEMMA MapFreqRight ==
    ASSUME NEW chans \in Seq(Chans), NEW freq, NEW flags, NEW mode, NEW ht
    PROVE  LET c == mapFreq(chans, freq, flags, mode, ht) IN
           /\ c # 0 => c \in DOMAIN chans /\ chans[c].freq = freq
           /\ (\E j \in DOMAIN chans : chans[j].freq = freq /\ flags \subseteq chans[j].flags)
              => c # 0
  <1> DEFINE S == {j \in DOMAIN chans : chans[j].freq = freq /\ flags \subseteq chans[j].flags}
             n == First(S, 0)
             c == mapFreq(chans, freq, flags, mode, ht)
  <1>1. c = IF n # 0 /\ flags = {} THEN promoteChan(chans, mode, ht)[n] ELSE n
    BY DEF mapFreq
  <1>2. n = 0 \/ n \in S
    BY FirstRight
  <1>3. SameFreq(chans, promoteChan(chans, mode, ht))
    BY PromoteKeepsFreq
  <1>4. DOMAIN chans \subseteq Nat \ {0}
    OBVIOUS
  <1>5. S # {} => n \in S
    BY <1>4, FirstFound
  <1> HIDE DEF n, c
  <1>6. c # 0 => c \in DOMAIN chans /\ chans[c].freq = freq
    BY <1>1, <1>2, <1>3 DEF SameFreq
  <1>7. S # {} => c # 0
    BY <1>1, <1>3, <1>4, <1>5 DEF SameFreq
  <1> QED
    BY <1>6, <1>7 DEF c

-----------------------------------------------------------------------------
(* Texts                                                                   *)

\* copyEssid writes nothing outside the buffer of bufsize + 1 places, for every
\* buffer of at least four and every SSID.
THEOREM EssidFits ==
    ASSUME NEW bufsize \in Nat, bufsize >= 4, NEW essid \in Essids
    PROVE  copyEssid(bufsize, essid) \subseteq 0 .. bufsize
  <1> DEFINE maxlen == IF essid.len > bufsize THEN bufsize ELSE essid.len
             room   == (bufsize - 2) \div 2
             bytes  == IF maxlen <= room THEN maxlen ELSE room
             dots(at, n) == IF n # essid.len THEN (at - 3) .. (at - 1) ELSE {}
  <1>1. essid.len \in Nat
    BY DEF Essids
  <1>2. maxlen \in Nat /\ maxlen <= bufsize /\ (maxlen # essid.len => maxlen = bufsize)
    BY <1>1
  <1>3. room \in Nat /\ room >= 1 /\ 2 * room <= bufsize - 2
    OBVIOUS
  <1>4. bytes \in Nat /\ 2 * bytes <= bufsize - 2 /\ (maxlen # 0 => bytes >= 1)
    <2> HIDE DEF maxlen, room
    <2> QED
      BY <1>2, <1>3
  <1>5. copyEssid(bufsize, essid) =
            IF essid.printable \/ maxlen = 0
            THEN 0 .. (maxlen - 1) \cup dots(maxlen, maxlen)
            ELSE IF bufsize < 3 THEN {}
            ELSE 0 .. (2 + 2 * bytes) \cup dots(2 + 2 * bytes, bytes)
    BY DEF copyEssid
  <1> HIDE DEF maxlen, bytes
  <1>6. 0 .. (maxlen - 1) \cup dots(maxlen, maxlen) \subseteq 0 .. bufsize
    BY <1>2
  <1>7. maxlen # 0 => 0 .. (2 + 2 * bytes) \cup dots(2 + 2 * bytes, bytes) \subseteq 0 .. bufsize
    BY <1>4
  <1> HIDE DEF dots
  <1> QED
    BY <1>5, <1>6, <1>7

-----------------------------------------------------------------------------
(* The invariant                                                           *)

\* Empty records have their types.
LEMMA Empties ==
    /\ <<>> \in Seq(Msgs) /\ <<>> \in Seq(Records) /\ <<>> \in Seq(Net) /\ <<>> \in Seq(Chans)
    /\ <<>> \in Seq(Ssids)
    /\ NoNet \in Net /\ NoMedia \in Media
  BY DEF NoNet, NoEssid, Net, Essids, NoMedia, Media, Modes

\* What a driver says of itself, and the records of its cache.
LEMMA DriverTypes ==
    ASSUME NEW f \in Ifs
    PROVE  /\ Driver[f].table \in Seq(Chans) /\ Driver[f].media \in Media
           /\ Driver[f].ht \in SUBSET {1, 2}
  BY RecordsAssumption

\* The invariant holds at first.
LEMMA InitIInv == Init => IInv
  <1> SUFFICES ASSUME Init PROVE IInv
    OBVIOUS
  <1>1. TypeOK
    <2>1. i \in 0 .. IMAX + 2 /\ retry \in 0 .. SCAN_RESULTS_MAX_RETRIES
      BY BoundsAssumption DEF Init, SCAN_RESULTS_MAX_RETRIES
    <2>2. cache \in [Ifs -> Seq(Records)]
      BY Empties DEF Init
    <2>3. scanning \in [Ifs -> BOOLEAN] /\ posted \in [Ifs -> BOOLEAN]
      BY DEF Init
    <2>4. HtConf \in SUBSET {1, 2} /\ had \subseteq Bsses \cup {NoName}
      BY DEF Init
    <2>5. /\ buf = <<>> /\ net = NoNet /\ nets = <<>> /\ ChanInfo = <<>> /\ IfMr = NoMedia
          /\ ssids = <<>> /\ queue = <<>>
      BY DEF Init
    <2>6. /\ pc = "idle" /\ name = "none" /\ result = "none" /\ ifname = NoName
          /\ data = Zeroes /\ len = 0 /\ n_ssid = 0 /\ bssid = NoName /\ assoc = NoName
      BY DEF Init
    <2>7. /\ sock \in BOOLEAN /\ quiet \in BOOLEAN /\ waited \in BOOLEAN /\ heard \in BOOLEAN
      BY DEF Init
    <2> QED
      BY <2>1, <2>2, <2>3, <2>4, <2>5, <2>6, <2>7, Empties DEF TypeOK
  <1>2. PcInv /\ FreshInv
    BY DEF Init, PcInv, FreshInv, FreshScan, Waiting, Reporting, Asking
  <1>3. ReportInv /\ ChannelOwnFreq
    BY DEF Init, ReportInv, ReportsBuffer, ChannelOwnFreq
  <1>4. StatusInv
    BY DEF Init, StatusInv, StatusTruthful, Asking
  <1> QED
    BY <1>1, <1>2, <1>3, <1>4 DEF IInv

\* The network of a record.
LEMMA NetOfRight ==
    ASSUME TypeOK, NEW sr \in Records
    PROVE  /\ NetOf(sr) \in Net
           /\ NetOf(sr).bssid = sr.bssid /\ NetOf(sr).essid = sr.essid
           /\ HasChannel(sr) => \E c \in 1 .. Len(ChanInfo) :
                                  /\ ChanInfo[c].freq = sr.freq
                                  /\ ChanInfo[c].ieee = NetOf(sr).chan
  <1> DEFINE c == mapFreq(ChanInfo, sr.freq, sr.flags, IfMr.mode, HtConf)
  <1>1. ChanInfo \in Seq(Chans) /\ net.chan \in Nat
    BY DEF TypeOK, Net
  <1>2. sr.essid \in Essids /\ sr.bssid \in Nat
    BY RecordsAssumption
  <1>3. /\ c # 0 => c \in DOMAIN ChanInfo /\ ChanInfo[c].freq = sr.freq
        /\ (\E j \in DOMAIN ChanInfo : /\ ChanInfo[j].freq = sr.freq
                                       /\ sr.flags \subseteq ChanInfo[j].flags) => c # 0
    BY <1>1, MapFreqRight
  <1>4. NetOf(sr) = [essid |-> sr.essid, bssid |-> sr.bssid,
                     chan |-> IF c # 0 THEN ChanInfo[c].ieee ELSE net.chan]
    BY DEF NetOf
  <1> HIDE DEF c
  <1>5. c # 0 => ChanInfo[c].ieee \in Nat
    <2>1. c # 0 => ChanInfo[c] \in Chans
      BY <1>1, <1>3
    <2> QED
      BY <2>1 DEF Chans
  <1>6. DOMAIN ChanInfo = 1 .. Len(ChanInfo)
    BY <1>1
  <1>7. NetOf(sr) \in Net
    BY <1>1, <1>2, <1>4, <1>5 DEF Net
  <1>8. NetOf(sr).bssid = sr.bssid /\ NetOf(sr).essid = sr.essid
    BY <1>4
  <1>9. c # 0 => NetOf(sr).chan = ChanInfo[c].ieee
    BY <1>4
  <1> QED
    BY <1>3, <1>6, <1>7, <1>8, <1>9 DEF HasChannel

\* TypeOK is kept.
LEMMA TypeStep ==
    ASSUME TypeOK, PcInv, ReportInv, [Next]_vars
    PROVE  TypeOK'
  <1>1. CASE UNCHANGED vars
    BY <1>1 DEF TypeOK, vars, local, member, kernel, past
  <1>2. ASSUME NEW n \in Commands, NEW f \in Ifs, Begin(n, f)
        PROVE  TypeOK'
    <2>1. pc' \in {"open", "results", "ssid"} /\ n_ssid' = 0 /\ i' = 0 /\ retry' = 0
      BY <1>2 DEF Begin, Commands
    <2>2. assoc' \in Bsses \cup {NoName} /\ had' \subseteq Bsses \cup {NoName}
      BY <1>2 DEF Begin
    <2>3. i' \in 0 .. IMAX + 2 /\ retry' \in 0 .. SCAN_RESULTS_MAX_RETRIES
      BY <2>1, BoundsAssumption DEF SCAN_RESULTS_MAX_RETRIES
    <2>4. HtConf' \in SUBSET {1, 2} /\ HtConf' = HtConf
      BY <1>2 DEF Begin, TypeOK
    <2>5. /\ name' \in Commands /\ ifname' \in Ifs /\ result' = "none" /\ n_ssid' \in 0 .. 2
          /\ buf' = <<>> /\ net' = NoNet /\ nets' = <<>> /\ ChanInfo' = <<>>
          /\ IfMr' = NoMedia /\ data' = Zeroes /\ len' = 0 /\ ssids' = <<>> /\ bssid' = NoName
      BY <1>2 DEF Begin
    <2>6. /\ waited' = FALSE /\ heard' = FALSE
          /\ UNCHANGED <<sock, queue, scanning, posted, cache, quiet>>
      BY <1>2 DEF Begin
    <2> QED
      BY <2>1, <2>2, <2>3, <2>4, <2>5, <2>6, Empties DEF TypeOK
  <1>3. CASE OpenRoute
    BY <1>3 DEF TypeOK, OpenRoute, local, member, kernel, past
  <1>4. CASE ScanRequest
    <2>1. ifname \in Ifs
      BY <1>4 DEF ScanRequest, PcInv
    <2>2. scanning' \in [Ifs -> BOOLEAN]
      BY <1>4, <2>1 DEF ScanRequest, TypeOK
    <2>3. queue' \in Seq(Msgs)
      BY <1>4, Empties DEF ScanRequest, TypeOK
    <2>4. waited' \in BOOLEAN
      BY <1>4 DEF ScanRequest, TypeOK
    <2>5. sock' \in BOOLEAN
      BY <1>4 DEF ScanRequest, TypeOK
    <2> QED
      BY <1>4, <2>2, <2>3, <2>4, <2>5 DEF TypeOK, ScanRequest, local, member
  <1>5. CASE ReadMsg
    <2>1. Tail(queue) \in Seq(Msgs)
      BY <1>5 DEF TypeOK, ReadMsg
    <2>2. queue' \in Seq(Msgs)
      BY <1>5, <2>1, Empties DEF ReadMsg, Return
    <2>3. sock' \in BOOLEAN
      BY <1>5 DEF ReadMsg, TypeOK, Return
    <2>4. i' \in 0 .. IMAX + 2
      BY <1>5, BoundsAssumption DEF ReadMsg, TypeOK
    <2>5. pc' \in {"read", "idle", "results"} /\ result' \in {"none", "ERR", "SUCC"}
      BY <1>5 DEF ReadMsg, TypeOK, Return
    <2> QED
      BY <1>5, <2>2, <2>3, <2>4, <2>5 DEF TypeOK, ReadMsg, member, kernel, past
  <1>6. CASE ReadTimeout
    BY <1>6 DEF TypeOK, ReadTimeout, Return, local, member, kernel, past
  <1>7. CASE GetResults
    <2>1. buf' \in Seq(Records)
      BY <1>7 DEF GetResults, TypeOK, PcInv
    <2>2. retry' \in 0 .. SCAN_RESULTS_MAX_RETRIES
      BY <1>7 DEF GetResults, TypeOK, MayRetry, SCAN_RESULTS_MAX_RETRIES
    <2>3. queue' \in Seq(Msgs)
      BY <1>7, Empties DEF GetResults, TypeOK, Return
    <2>4. sock' \in BOOLEAN
      BY <1>7 DEF GetResults, TypeOK, Return
    <2>5. pc' \in {"results", "idle", "driver"} /\ result' \in {"none", "ERR", "SUCC"}
      BY <1>7 DEF GetResults, TypeOK, Return
    <2> QED
      BY <1>7, <2>1, <2>2, <2>3, <2>4, <2>5
         DEF TypeOK, GetResults, member, kernel, past
  <1>8. CASE ReadDriver
    <2>1. ifname \in Ifs
      BY <1>8 DEF ReadDriver, PcInv
    <2>2. ChanInfo' \in Seq(Chans)
      BY <1>8, <2>1, DriverTypes, Empties DEF ReadDriver, getChanInfo
    <2>3. IfMr' \in Media
      BY <1>8, <2>1, DriverTypes, Empties DEF ReadDriver, getMediaState
    <2>4. HtConf' \in SUBSET {1, 2}
      BY <1>8, <2>1, DriverTypes DEF ReadDriver, TypeOK
    <2> QED
      BY <1>8, <2>2, <2>3, <2>4 DEF TypeOK, ReadDriver, local, kernel
  <1>9. CASE Record
    <2> DEFINE sr == buf[Len(nets) + 1]
    <2>1. sr \in Records
      BY <1>9 DEF Record, ReportInv, TypeOK
    <2>2. net' \in Net
      BY <1>9, <2>1, NetOfRight DEF Record
    <2>3. nets' \in Seq(Net)
      BY <1>9, <2>2 DEF Record, TypeOK
    <2>4. queue' \in Seq(Msgs)
      BY <1>9, Empties DEF Record, TypeOK, Return
    <2>5. sock' \in BOOLEAN
      BY <1>9 DEF Record, TypeOK, Return
    <2>6. pc' \in {"record", "idle"} /\ result' \in {"none", "ERR", "SUCC"}
      BY <1>9 DEF Record, TypeOK, Return
    <2> QED
      BY <1>9, <2>2, <2>3, <2>4, <2>5, <2>6 DEF TypeOK, Record, member, kernel, past
  <1>10. CASE StatusSsid
    <2>1. data' \in Bsses \cup {Zeroes} /\ len' \in {0, 1}
      BY <1>10 DEF StatusSsid, Read, Filled, TypeOK
    <2>2. queue' \in Seq(Msgs)
      BY <1>10, Empties DEF StatusSsid, TypeOK, Return
    <2>3. sock' \in BOOLEAN
      BY <1>10 DEF StatusSsid, TypeOK, Return
    <2>4. pc' \in {"media", "idle"} /\ result' \in {"none", "ERR", "SUCC"}
      BY <1>10 DEF StatusSsid, TypeOK, Return
    <2> QED
      BY <1>10, <2>1, <2>2, <2>3, <2>4 DEF TypeOK, StatusSsid, member, kernel, past
  <1>11. CASE StatusMedia
    <2>1. ifname \in Ifs
      BY <1>11 DEF StatusMedia, PcInv
    <2>2. IfMr' \in Media
      BY <1>11, <2>1, DriverTypes, Empties DEF StatusMedia, getMediaState
    <2>3. pc' \in {"mesh", "many", "one"} /\ n_ssid' \in 0 .. 2
      BY <1>11 DEF StatusMedia, TypeOK
    <2> QED
      BY <1>11, <2>2, <2>3 DEF TypeOK, StatusMedia, kernel, past
  <1>12. CASE StatusMesh
    <2>1. data' \in Bsses \cup {Zeroes} /\ len' \in {0, 1}
      BY <1>12 DEF StatusMesh, Read, Filled, TypeOK
    <2>2. queue' \in Seq(Msgs)
      BY <1>12, Empties DEF StatusMesh, TypeOK, Return
    <2>3. sock' \in BOOLEAN
      BY <1>12 DEF StatusMesh, TypeOK, Return
    <2>4. pc' \in {"one", "idle"} /\ result' \in {"none", "ERR", "SUCC"}
      BY <1>12 DEF StatusMesh, TypeOK, Return
    <2> QED
      BY <1>12, <2>1, <2>2, <2>3, <2>4 DEF TypeOK, StatusMesh, member, kernel, past
  <1>13. CASE StatusMany
    <2>1. i' \in 0 .. IMAX + 2
      BY <1>13, BoundsAssumption DEF StatusMany, TypeOK, PcInv
    <2>2. data' \in Bsses \cup {Zeroes}
      BY <1>13 DEF StatusMany, TypeOK
    <2>3. ssids' \in Seq(Ssids)
      <3>1. data' \in Ssids
        BY <2>2 DEF Ssids
      <3>2. ssids' \in {ssids, Append(ssids, data')}
        BY <1>13 DEF StatusMany
      <3>3. ssids \in Seq(Ssids)
        BY DEF TypeOK
      <3>4. Append(ssids, data') \in Seq(Ssids)
        BY <3>1, <3>3
      <3> QED
        BY <3>2, <3>3, <3>4
    <2>4. pc' \in {"one", "many"}
      BY <1>13 DEF StatusMany
    <2> QED
      BY <1>13, <2>1, <2>2, <2>3, <2>4 DEF TypeOK, StatusMany, member, kernel, past
  <1>14. CASE StatusOne
    <2>1. ssids' \in Seq(Ssids)
      <3>1. data \in Ssids /\ NoName \in Ssids
        BY DEF TypeOK, Ssids
      <3>2. ssids' \in {ssids, <<NoName>>, <<data>>}
        BY <1>14 DEF StatusOne
      <3>3. ssids \in Seq(Ssids)
        BY DEF TypeOK
      <3>4. <<NoName>> \in Seq(Ssids) /\ <<data>> \in Seq(Ssids)
        BY <3>1
      <3> QED
        BY <3>2, <3>3, <3>4
    <2> QED
      BY <1>14, <2>1 DEF TypeOK, StatusOne, member, kernel, past
  <1>15. CASE StatusBssid
    BY <1>15, Empties DEF TypeOK, StatusBssid, Return, member, kernel, past
  <1>16. CASE Noise
    <2>1. queue' \in Seq(Msgs)
      BY <1>16 DEF Noise, Post, TypeOK, Msgs
    <2> QED
      BY <1>16, <2>1 DEF TypeOK, Noise, local, member, kernel, past
  <1>17. CASE Roam
    BY <1>17 DEF TypeOK, Roam, local, member
  <1>18. CASE Quiet
    BY <1>18 DEF TypeOK, Quiet, local, member, past
  <1>19. ASSUME NEW f \in Ifs, StartScan(f)
         PROVE  TypeOK'
    BY <1>19 DEF TypeOK, StartScan, local, member, past
  <1>20. ASSUME NEW f \in Ifs, ScanDone(f)
         PROVE  TypeOK'
    <2>1. queue' \in Seq(Msgs)
      BY <1>20 DEF ScanDone, Post, TypeOK, Msgs
    <2>2. scanning' \in [Ifs -> BOOLEAN] /\ posted' \in [Ifs -> BOOLEAN]
      BY <1>20 DEF ScanDone, TypeOK
    <2>3. heard' \in BOOLEAN
      BY <1>20 DEF ScanDone
    <2> QED
      BY <1>20, <2>1, <2>2, <2>3 DEF TypeOK, ScanDone, local, member
  <1>21. ASSUME NEW f \in Ifs, Commit(f)
         PROVE  TypeOK'
    <2>1. cache' \in [Ifs -> Seq(Records)]
      BY <1>21, RecordsAssumption DEF Commit, TypeOK
    <2>2. posted' \in [Ifs -> BOOLEAN]
      BY <1>21 DEF Commit, TypeOK
    <2> QED
      BY <1>21, <2>1, <2>2 DEF TypeOK, Commit, local, member, past
  <1> QED
    BY <1>1, <1>2, <1>3, <1>4, <1>5, <1>6, <1>7, <1>8, <1>9, <1>10, <1>11, <1>12,
       <1>13, <1>14, <1>15, <1>16, <1>17, <1>18, <1>19, <1>20, <1>21
       DEF Next, Step, Kernel

\* PcInv is kept.
LEMMA PcStep ==
    ASSUME TypeOK, PcInv, StatusInv, [Next]_vars
    PROVE  PcInv'
  <1>1. CASE UNCHANGED vars
    BY <1>1
       DEF PcInv, StatusInv, TypeOK, Waiting, Reporting, Asking, vars, local, member,
           kernel, past
  <1>2. ASSUME NEW n \in Commands, NEW f \in Ifs, Begin(n, f)
        PROVE  PcInv'
    BY <1>2 DEF PcInv, StatusInv, TypeOK, Waiting, Reporting, Asking, Begin, Commands
  <1>3. CASE OpenRoute
    BY <1>3
       DEF PcInv, StatusInv, TypeOK, Waiting, Reporting, Asking, OpenRoute, local,
           past
  <1>4. CASE ScanRequest
    BY <1>4
       DEF PcInv, StatusInv, TypeOK, Waiting, Reporting, Asking, ScanRequest, local
  <1>5. CASE ReadMsg
    BY <1>5
       DEF PcInv, StatusInv, TypeOK, Waiting, Reporting, Asking, ReadMsg, Return, past
  <1>6. CASE ReadTimeout
    BY <1>6
       DEF PcInv, StatusInv, TypeOK, Waiting, Reporting, Asking, ReadTimeout, Return,
           local, past
  <1>7. CASE GetResults
    BY <1>7
       DEF PcInv, StatusInv, TypeOK, Waiting, Reporting, Asking, GetResults, Return,
           past
  <1>8. CASE ReadDriver
    BY <1>8
       DEF PcInv, StatusInv, TypeOK, Waiting, Reporting, Asking, ReadDriver, local
  <1>9. CASE Record
    BY <1>9
       DEF PcInv, StatusInv, TypeOK, Waiting, Reporting, Asking, Record, Return, past,
           member
  <1>10. CASE StatusSsid
    BY <1>10
       DEF PcInv, StatusInv, TypeOK, Waiting, Reporting, Asking, StatusSsid, Return,
           past, kernel
  <1>11. CASE StatusMedia
    BY <1>11
       DEF PcInv, StatusInv, TypeOK, Waiting, Reporting, Asking, StatusMedia, past,
           kernel
  <1>12. CASE StatusMesh
    BY <1>12
       DEF PcInv, StatusInv, TypeOK, Waiting, Reporting, Asking, StatusMesh, Return,
           past, kernel
  <1>13. CASE StatusMany
    BY <1>13
       DEF PcInv, StatusInv, TypeOK, Waiting, Reporting, Asking, StatusMany, past,
           kernel
  <1>14. CASE StatusOne
    BY <1>14
       DEF PcInv, StatusInv, TypeOK, Waiting, Reporting, Asking, StatusOne, past,
           kernel
  <1>15. CASE StatusBssid
    BY <1>15
       DEF PcInv, StatusInv, TypeOK, Waiting, Reporting, Asking, StatusBssid, Return,
           past, kernel
  <1>16. CASE Noise
    BY <1>16
       DEF PcInv, StatusInv, TypeOK, Waiting, Reporting, Asking, Noise, Post, local,
           past, kernel, member
  <1>17. CASE Roam
    BY <1>17
       DEF PcInv, StatusInv, TypeOK, Waiting, Reporting, Asking, Roam, local, member
  <1>18. CASE Quiet
    BY <1>18
       DEF PcInv, StatusInv, TypeOK, Waiting, Reporting, Asking, Quiet, local, past,
           member
  <1>19. ASSUME NEW f \in Ifs, StartScan(f)
         PROVE  PcInv'
    BY <1>19
       DEF PcInv, StatusInv, TypeOK, Waiting, Reporting, Asking, StartScan, local,
           past, member
  <1>20. ASSUME NEW f \in Ifs, ScanDone(f)
         PROVE  PcInv'
    BY <1>20
       DEF PcInv, StatusInv, TypeOK, Waiting, Reporting, Asking, ScanDone, Post,
           local, member
  <1>21. ASSUME NEW f \in Ifs, Commit(f)
         PROVE  PcInv'
    BY <1>21
       DEF PcInv, StatusInv, TypeOK, Waiting, Reporting, Asking, Commit, local, past,
           member
  <1> QED
    BY <1>1, <1>2, <1>3, <1>4, <1>5, <1>6, <1>7, <1>8, <1>9, <1>10, <1>11, <1>12,
       <1>13, <1>14, <1>15, <1>16, <1>17, <1>18, <1>19, <1>20, <1>21
       DEF Next, Step, Kernel

\* FreshInv is kept: only the scan of its own interface takes execCmdScan out of
\* the wait to the results.
LEMMA FreshStep ==
    ASSUME TypeOK, PcInv, FreshInv, [Next]_vars
    PROVE  FreshInv'
  <1>1. CASE UNCHANGED vars
    BY <1>1
       DEF TypeOK, PcInv, FreshInv, FreshScan, Waiting, Reporting, Asking, vars,
           local, member, kernel, past
  <1>2. ASSUME NEW n \in Commands, NEW f \in Ifs, Begin(n, f)
        PROVE  FreshInv'
    BY <1>2
       DEF TypeOK, PcInv, FreshInv, FreshScan, Waiting, Reporting, Asking, Begin,
           Commands
  <1>3. CASE OpenRoute
    BY <1>3
       DEF TypeOK, PcInv, FreshInv, FreshScan, Waiting, Reporting, Asking, OpenRoute,
           local, past
  <1>4. CASE ScanRequest
    <2>1. ~waited /\ name' = name /\ name = "scan" /\ ifname' = ifname /\ heard' = heard
      BY <1>4 DEF ScanRequest, FreshInv, PcInv, Waiting
    <2>2. \/ queue' = queue /\ pc' = "read"
          \/ queue' = <<>> /\ pc' = "results" /\ waited' = waited
      BY <1>4 DEF ScanRequest
    <2>3. \A k \in 1 .. Len(queue') : queue'[k] = ifname => heard
      <3>1. CASE queue' = <<>>
        BY <3>1
      <3>2. CASE queue' = queue
        BY <3>2 DEF FreshInv
      <3> QED
        BY <2>2, <3>1, <3>2
    <2>4. result' = "none"
      BY <1>4 DEF ScanRequest, PcInv
    <2> QED
      BY <2>1, <2>2, <2>3, <2>4 DEF FreshInv, FreshScan, Reporting
  <1>5. CASE ReadMsg
    <2>2. Head(queue) = ifname => heard
      BY <1>5 DEF ReadMsg, FreshInv, TypeOK
    <2>3. \A k \in 1 .. Len(Tail(queue)) : Tail(queue)[k] = ifname => heard
      <3>1. \A k \in 1 .. Len(Tail(queue)) : k + 1 \in 1 .. Len(queue) /\ Tail(queue)[k] = queue[k + 1]
        BY <1>5 DEF ReadMsg, TypeOK
      <3> QED
        BY <3>1 DEF FreshInv
    <2>4. queue' \in {<<>>, Tail(queue)}
      BY <1>5 DEF ReadMsg, Return
    <2>5. \A k \in 1 .. Len(queue') : queue'[k] = ifname => heard
      <3>1. CASE queue' = <<>>
        BY <3>1
      <3>2. CASE queue' = Tail(queue)
        BY <2>3, <3>2
      <3> QED
        BY <2>4, <3>1, <3>2
    <2> QED
      BY <1>5, <2>2, <2>5
         DEF ReadMsg, Return, OwnScan, TypeOK, PcInv, FreshInv, FreshScan,
         Waiting, Reporting, past
  <1>6. CASE ReadTimeout
    BY <1>6
       DEF TypeOK, PcInv, FreshInv, FreshScan, Waiting, Reporting, Asking,
           ReadTimeout, Return, local, past
  <1>7. CASE GetResults
    BY <1>7
       DEF TypeOK, PcInv, FreshInv, FreshScan, Waiting, Reporting, Asking, GetResults,
           Return, past
  <1>8. CASE ReadDriver
    BY <1>8
       DEF TypeOK, PcInv, FreshInv, FreshScan, Waiting, Reporting, Asking, ReadDriver,
           local
  <1>9. CASE Record
    BY <1>9
       DEF TypeOK, PcInv, FreshInv, FreshScan, Waiting, Reporting, Asking, Record,
           Return, past, member
  <1>10. CASE StatusSsid
    BY <1>10
       DEF TypeOK, PcInv, FreshInv, FreshScan, Waiting, Reporting, Asking, StatusSsid,
           Return, past, kernel
  <1>11. CASE StatusMedia
    BY <1>11
       DEF TypeOK, PcInv, FreshInv, FreshScan, Waiting, Reporting, Asking,
           StatusMedia, past, kernel
  <1>12. CASE StatusMesh
    BY <1>12
       DEF TypeOK, PcInv, FreshInv, FreshScan, Waiting, Reporting, Asking, StatusMesh,
           Return, past, kernel
  <1>13. CASE StatusMany
    BY <1>13
       DEF TypeOK, PcInv, FreshInv, FreshScan, Waiting, Reporting, Asking, StatusMany,
           past, kernel
  <1>14. CASE StatusOne
    BY <1>14
       DEF TypeOK, PcInv, FreshInv, FreshScan, Waiting, Reporting, Asking, StatusOne,
           past, kernel
  <1>15. CASE StatusBssid
    BY <1>15
       DEF TypeOK, PcInv, FreshInv, FreshScan, Waiting, Reporting, Asking,
           StatusBssid, Return, past, kernel
  <1>16. CASE Noise
    <2>1. ifname \in Ifs
      BY <1>16 DEF Noise, PcInv, Waiting
    <2>2. PICK m \in {"other", "foreign"} : queue' = Append(queue, m)
      BY <1>16 DEF Noise, Post
    <2>3. m # ifname
      BY <2>1, NamesAssumption
    <2>4. \A k \in 1 .. Len(queue') : queue'[k] = ifname => heard
      BY <2>2, <2>3 DEF FreshInv, TypeOK
    <2> QED
      BY <1>16, <2>4 DEF Noise, FreshInv, FreshScan, past
  <1>17. CASE Roam
    BY <1>17
       DEF TypeOK, PcInv, FreshInv, FreshScan, Waiting, Reporting, Asking, Roam,
           local, member
  <1>18. CASE Quiet
    BY <1>18
       DEF TypeOK, PcInv, FreshInv, FreshScan, Waiting, Reporting, Asking, Quiet,
           local, past, member
  <1>19. ASSUME NEW f \in Ifs, StartScan(f)
         PROVE  FreshInv'
    BY <1>19
       DEF TypeOK, PcInv, FreshInv, FreshScan, Waiting, Reporting, Asking, StartScan,
           local, past, member
  <1>20. ASSUME NEW f \in Ifs, ScanDone(f)
         PROVE  FreshInv'
    BY <1>20
       DEF TypeOK, PcInv, FreshInv, FreshScan, Waiting, Reporting, Asking, ScanDone,
           Post, local, member
  <1>21. ASSUME NEW f \in Ifs, Commit(f)
         PROVE  FreshInv'
    BY <1>21
       DEF TypeOK, PcInv, FreshInv, FreshScan, Waiting, Reporting, Asking, Commit,
           local, past, member
  <1> QED
    BY <1>1, <1>2, <1>3, <1>4, <1>5, <1>6, <1>7, <1>8, <1>9, <1>10, <1>11, <1>12,
       <1>13, <1>14, <1>15, <1>16, <1>17, <1>18, <1>19, <1>20, <1>21
       DEF Next, Step, Kernel

\* ReportInv is kept.
LEMMA ReportStep ==
    ASSUME TypeOK, PcInv, ReportInv, [Next]_vars
    PROVE  ReportInv'
  <1>1. CASE UNCHANGED vars
    BY <1>1
       DEF TypeOK, PcInv, ReportInv, ReportsBuffer, Waiting, Reporting, Asking, vars,
           local, member, kernel, past
  <1>2. ASSUME NEW n \in Commands, NEW f \in Ifs, Begin(n, f)
        PROVE  ReportInv'
    BY <1>2
       DEF TypeOK, PcInv, ReportInv, ReportsBuffer, Waiting, Reporting, Asking, Begin,
           Commands
  <1>3. CASE OpenRoute
    BY <1>3
       DEF TypeOK, PcInv, ReportInv, ReportsBuffer, Waiting, Reporting, Asking,
           OpenRoute, local, past
  <1>4. CASE ScanRequest
    BY <1>4
       DEF TypeOK, PcInv, ReportInv, ReportsBuffer, Waiting, Reporting, Asking,
           ScanRequest, local
  <1>5. CASE ReadMsg
    BY <1>5
       DEF TypeOK, PcInv, ReportInv, ReportsBuffer, Waiting, Reporting, Asking,
           ReadMsg, Return, past
  <1>6. CASE ReadTimeout
    BY <1>6
       DEF TypeOK, PcInv, ReportInv, ReportsBuffer, Waiting, Reporting, Asking,
           ReadTimeout, Return, local, past
  <1>7. CASE GetResults
    BY <1>7
       DEF TypeOK, PcInv, ReportInv, ReportsBuffer, Waiting, Reporting, Asking,
           GetResults, Return, past
  <1>8. CASE ReadDriver
    BY <1>8
       DEF TypeOK, PcInv, ReportInv, ReportsBuffer, Waiting, Reporting, Asking,
           ReadDriver, local
  <1>9. CASE Record
    <2> DEFINE sr == buf[Len(nets) + 1]
    <2>1. sr \in Records /\ Len(nets) < Len(buf) /\ Len(nets) \in Nat /\ Len(buf) \in Nat
      BY <1>9 DEF Record, ReportInv, TypeOK
    <2>2. net'.bssid = sr.bssid /\ net'.essid = sr.essid
      BY <1>9, <2>1, NetOfRight DEF Record
    <2>3. /\ Len(nets') = Len(nets) + 1 /\ nets'[Len(nets) + 1] = net'
          /\ \A k \in 1 .. Len(nets) : nets'[k] = nets[k]
      BY <1>9 DEF Record, TypeOK
    <2>4. \A k \in 1 .. Len(nets') : k <= Len(buf) /\ nets'[k].bssid = buf[k].bssid
                                       /\ nets'[k].essid = buf[k].essid
      BY <2>1, <2>2, <2>3 DEF ReportInv, ReportsBuffer
    <2>5. buf' = buf /\ name' = name /\ name # "status"
      BY <1>9 DEF Record, PcInv, Reporting
    <2>6. pc' = "record" => Len(nets') < Len(buf)
      BY <1>9, <2>1, <2>3 DEF Record, Return
    <2>7. result' = "SUCC" => Len(nets') = Len(buf)
      BY <1>9 DEF Record, Return, PcInv
    <2>8. pc' \in {"record", "idle"}
      BY <1>9 DEF Record, Return
    <2> QED
      BY <2>4, <2>5, <2>6, <2>7, <2>8 DEF ReportInv, ReportsBuffer
  <1>10. CASE StatusSsid
    BY <1>10
       DEF TypeOK, PcInv, ReportInv, ReportsBuffer, Waiting, Reporting, Asking,
           StatusSsid, Return, past, kernel
  <1>11. CASE StatusMedia
    BY <1>11
       DEF TypeOK, PcInv, ReportInv, ReportsBuffer, Waiting, Reporting, Asking,
           StatusMedia, past, kernel
  <1>12. CASE StatusMesh
    BY <1>12
       DEF TypeOK, PcInv, ReportInv, ReportsBuffer, Waiting, Reporting, Asking,
           StatusMesh, Return, past, kernel
  <1>13. CASE StatusMany
    BY <1>13
       DEF TypeOK, PcInv, ReportInv, ReportsBuffer, Waiting, Reporting, Asking,
           StatusMany, past, kernel
  <1>14. CASE StatusOne
    BY <1>14
       DEF TypeOK, PcInv, ReportInv, ReportsBuffer, Waiting, Reporting, Asking,
           StatusOne, past, kernel
  <1>15. CASE StatusBssid
    BY <1>15
       DEF TypeOK, PcInv, ReportInv, ReportsBuffer, Waiting, Reporting, Asking,
           StatusBssid, Return, past, kernel
  <1>16. CASE Noise
    BY <1>16
       DEF TypeOK, PcInv, ReportInv, ReportsBuffer, Waiting, Reporting, Asking, Noise,
           local, past, kernel, member
  <1>17. CASE Roam
    BY <1>17
       DEF TypeOK, PcInv, ReportInv, ReportsBuffer, Waiting, Reporting, Asking, Roam,
           local, member
  <1>18. CASE Quiet
    BY <1>18
       DEF TypeOK, PcInv, ReportInv, ReportsBuffer, Waiting, Reporting, Asking, Quiet,
           local, past, member
  <1>19. ASSUME NEW f \in Ifs, StartScan(f)
         PROVE  ReportInv'
    BY <1>19
       DEF TypeOK, PcInv, ReportInv, ReportsBuffer, Waiting, Reporting, Asking,
           StartScan, local, past, member
  <1>20. ASSUME NEW f \in Ifs, ScanDone(f)
         PROVE  ReportInv'
    BY <1>20
       DEF TypeOK, PcInv, ReportInv, ReportsBuffer, Waiting, Reporting, Asking,
           ScanDone, local, member
  <1>21. ASSUME NEW f \in Ifs, Commit(f)
         PROVE  ReportInv'
    BY <1>21
       DEF TypeOK, PcInv, ReportInv, ReportsBuffer, Waiting, Reporting, Asking,
           Commit, local, past, member
  <1> QED
    BY <1>1, <1>2, <1>3, <1>4, <1>5, <1>6, <1>7, <1>8, <1>9, <1>10, <1>11, <1>12,
       <1>13, <1>14, <1>15, <1>16, <1>17, <1>18, <1>19, <1>20, <1>21
       DEF Next, Step, Kernel

\* ChannelOwnFreq is kept.
LEMMA ChannelStep ==
    ASSUME TypeOK, PcInv, ReportInv, ChannelOwnFreq, [Next]_vars
    PROVE  ChannelOwnFreq'
  <1>1. CASE UNCHANGED vars
    BY <1>1
       DEF TypeOK, PcInv, ReportInv, ChannelOwnFreq, HasChannel, Waiting, Reporting,
           Asking, vars, local, member, kernel, past
  <1>2. ASSUME NEW n \in Commands, NEW f \in Ifs, Begin(n, f)
        PROVE  ChannelOwnFreq'
    BY <1>2
       DEF TypeOK, PcInv, ReportInv, ChannelOwnFreq, HasChannel, Waiting, Reporting,
           Asking, Begin, Commands
  <1>3. CASE OpenRoute
    BY <1>3
       DEF TypeOK, PcInv, ReportInv, ChannelOwnFreq, HasChannel, Waiting, Reporting,
           Asking, OpenRoute, local, past
  <1>4. CASE ScanRequest
    BY <1>4
       DEF TypeOK, PcInv, ReportInv, ChannelOwnFreq, HasChannel, Waiting, Reporting,
           Asking, ScanRequest, local
  <1>5. CASE ReadMsg
    BY <1>5
       DEF TypeOK, PcInv, ReportInv, ChannelOwnFreq, HasChannel, Waiting, Reporting,
           Asking, ReadMsg, Return, past
  <1>6. CASE ReadTimeout
    BY <1>6
       DEF TypeOK, PcInv, ReportInv, ChannelOwnFreq, HasChannel, Waiting, Reporting,
           Asking, ReadTimeout, Return, local, past
  <1>7. CASE GetResults
    BY <1>7
       DEF TypeOK, PcInv, ReportInv, ChannelOwnFreq, HasChannel, Waiting, Reporting,
           Asking, GetResults, Return, past
  <1>8. CASE ReadDriver
    BY <1>8
       DEF TypeOK, PcInv, ReportInv, ChannelOwnFreq, HasChannel, Waiting, Reporting,
           Asking, ReadDriver, local
  <1>9. CASE Record
    <2> DEFINE sr == buf[Len(nets) + 1]
               Own(k, ch) == HasChannel(buf[k]) =>
                   \E c \in 1 .. Len(ChanInfo) : /\ ChanInfo[c].freq = buf[k].freq
                                                 /\ ChanInfo[c].ieee = ch
    <2>1. sr \in Records /\ Len(nets) \in Nat
      BY <1>9 DEF Record, ReportInv, TypeOK
    <2>2. Own(Len(nets) + 1, net'.chan)
      BY <1>9, <2>1, NetOfRight DEF Record
    <2>3. /\ Len(nets') = Len(nets) + 1 /\ nets'[Len(nets) + 1] = net'
          /\ \A k \in 1 .. Len(nets) : nets'[k] = nets[k]
      BY <1>9 DEF Record, TypeOK
    <2>4. \A k \in 1 .. Len(nets) : Own(k, nets[k].chan)
      BY <1>9 DEF Record, ChannelOwnFreq
    <2>5. \A k \in 1 .. Len(nets') : Own(k, nets'[k].chan)
      <3> HIDE DEF Own
      <3> QED
        BY <2>1, <2>2, <2>3, <2>4
    <2>6. buf' = buf /\ ChanInfo' = ChanInfo
      BY <1>9 DEF Record, member
    <2> QED
      BY <2>5, <2>6 DEF ChannelOwnFreq, HasChannel
  <1>10. CASE StatusSsid
    BY <1>10
       DEF TypeOK, PcInv, ReportInv, ChannelOwnFreq, HasChannel, Waiting, Reporting,
           Asking, StatusSsid, Return, past, kernel
  <1>11. CASE StatusMedia
    BY <1>11
       DEF TypeOK, PcInv, ReportInv, ChannelOwnFreq, HasChannel, Waiting, Reporting,
           Asking, StatusMedia, past, kernel
  <1>12. CASE StatusMesh
    BY <1>12
       DEF TypeOK, PcInv, ReportInv, ChannelOwnFreq, HasChannel, Waiting, Reporting,
           Asking, StatusMesh, Return, past, kernel
  <1>13. CASE StatusMany
    BY <1>13
       DEF TypeOK, PcInv, ReportInv, ChannelOwnFreq, HasChannel, Waiting, Reporting,
           Asking, StatusMany, past, kernel
  <1>14. CASE StatusOne
    BY <1>14
       DEF TypeOK, PcInv, ReportInv, ChannelOwnFreq, HasChannel, Waiting, Reporting,
           Asking, StatusOne, past, kernel
  <1>15. CASE StatusBssid
    BY <1>15
       DEF TypeOK, PcInv, ReportInv, ChannelOwnFreq, HasChannel, Waiting, Reporting,
           Asking, StatusBssid, Return, past, kernel
  <1>16. CASE Noise
    BY <1>16
       DEF TypeOK, PcInv, ReportInv, ChannelOwnFreq, HasChannel, Waiting, Reporting,
           Asking, Noise, local, past, kernel, member
  <1>17. CASE Roam
    BY <1>17
       DEF TypeOK, PcInv, ReportInv, ChannelOwnFreq, HasChannel, Waiting, Reporting,
           Asking, Roam, local, member
  <1>18. CASE Quiet
    BY <1>18
       DEF TypeOK, PcInv, ReportInv, ChannelOwnFreq, HasChannel, Waiting, Reporting,
           Asking, Quiet, local, past, member
  <1>19. ASSUME NEW f \in Ifs, StartScan(f)
         PROVE  ChannelOwnFreq'
    BY <1>19
       DEF TypeOK, PcInv, ReportInv, ChannelOwnFreq, HasChannel, Waiting, Reporting,
           Asking, StartScan, local, past, member
  <1>20. ASSUME NEW f \in Ifs, ScanDone(f)
         PROVE  ChannelOwnFreq'
    BY <1>20
       DEF TypeOK, PcInv, ReportInv, ChannelOwnFreq, HasChannel, Waiting, Reporting,
           Asking, ScanDone, local, member
  <1>21. ASSUME NEW f \in Ifs, Commit(f)
         PROVE  ChannelOwnFreq'
    BY <1>21 DEF ChannelOwnFreq, HasChannel, Commit, local, past, member
  <1> QED
    BY <1>1, <1>2, <1>3, <1>4, <1>5, <1>6, <1>7, <1>8, <1>9, <1>10, <1>11, <1>12,
       <1>13, <1>14, <1>15, <1>16, <1>17, <1>18, <1>19, <1>20, <1>21
       DEF Next, Step, Kernel

\* StatusInv is kept.
LEMMA StatusStep ==
    ASSUME TypeOK, PcInv, StatusInv, [Next]_vars
    PROVE  StatusInv'
  <1>1. CASE UNCHANGED vars
    BY <1>1
       DEF TypeOK, PcInv, StatusInv, StatusTruthful, Waiting, Reporting, Asking, vars,
           local, member, kernel, past
  <1>2. ASSUME NEW n \in Commands, NEW f \in Ifs, Begin(n, f)
        PROVE  StatusInv'
    BY <1>2
       DEF TypeOK, PcInv, StatusInv, StatusTruthful, Waiting, Reporting, Asking,
           Begin, Commands
  <1>3. CASE OpenRoute
    BY <1>3
       DEF TypeOK, PcInv, StatusInv, StatusTruthful, Waiting, Reporting, Asking,
           OpenRoute, local, past
  <1>4. CASE ScanRequest
    BY <1>4
       DEF TypeOK, PcInv, StatusInv, StatusTruthful, Waiting, Reporting, Asking,
           ScanRequest, local
  <1>5. CASE ReadMsg
    BY <1>5
       DEF TypeOK, PcInv, StatusInv, StatusTruthful, Waiting, Reporting, Asking,
           ReadMsg, Return, past
  <1>6. CASE ReadTimeout
    BY <1>6
       DEF TypeOK, PcInv, StatusInv, StatusTruthful, Waiting, Reporting, Asking,
           ReadTimeout, Return, local, past
  <1>7. CASE GetResults
    BY <1>7
       DEF TypeOK, PcInv, StatusInv, StatusTruthful, Waiting, Reporting, Asking,
           GetResults, Return, past
  <1>8. CASE ReadDriver
    BY <1>8
       DEF TypeOK, PcInv, StatusInv, StatusTruthful, Waiting, Reporting, Asking,
           ReadDriver, local
  <1>9. CASE Record
    BY <1>9
       DEF TypeOK, PcInv, StatusInv, StatusTruthful, Waiting, Reporting, Asking,
           Record, Return, past, member
  <1>10. CASE StatusSsid
    BY <1>10
       DEF StatusSsid, Return, Read, Filled, TypeOK, PcInv, StatusInv, StatusTruthful,
           Asking, past, kernel
  <1>11. CASE StatusMedia
    BY <1>11
       DEF TypeOK, PcInv, StatusInv, StatusTruthful, Waiting, Reporting, Asking,
           StatusMedia, past, kernel
  <1>12. CASE StatusMesh
    BY <1>12
       DEF StatusMesh, Return, Read, Filled, TypeOK, PcInv, StatusInv, StatusTruthful,
           Asking, past, kernel
  <1>13. CASE StatusMany
    <2>1. /\ pc = "many" /\ i \in Nat /\ i' = i + 1 /\ i < n_ssid /\ n_ssid \in 0 .. 2 /\ n_ssid > 1
          /\ pc' \in {"many", "one"} /\ name' = "status" /\ result' = "none"
      BY <1>13 DEF StatusMany, TypeOK, PcInv, Asking
    <2>2. UNCHANGED <<len, n_ssid, assoc, had>>
      BY <1>13 DEF StatusMany, past, kernel
    <2>3. \/ data' = Zeroes /\ ssids' = ssids
          \/ data' = assoc /\ ssids' = Append(ssids, data')
      BY <1>13 DEF StatusMany
    <2>4. assoc \in had /\ ssids \in Seq(Ssids) /\ \A k \in 1 .. Len(ssids) : ssids[k] \in had
      BY <2>1 DEF StatusInv, Asking, TypeOK
    <2>5. \A k \in 1 .. Len(ssids') : ssids'[k] \in had
      <3>1. CASE ssids' = ssids
        BY <2>4, <3>1
      <3>2. CASE ssids' = Append(ssids, assoc)
        BY <2>4, <3>2
      <3> QED
        BY <2>3, <3>1, <3>2
    <2>6. ssids' = <<>> => data' = Zeroes
      <3>1. Append(ssids, data') # <<>>
        BY <2>4
      <3> QED
        BY <2>3, <3>1
    <2>7. n_ssid > 1 /\ i' > 0
      BY <2>1
    <2>8. len = 0 => NoName \in had
      BY <2>1 DEF StatusInv
    <2> QED
      BY <2>1, <2>2, <2>4, <2>5, <2>6, <2>7, <2>8
         DEF StatusInv, StatusTruthful, Asking
  <1>14. CASE StatusOne
    BY <1>14
       DEF TypeOK, PcInv, StatusInv, StatusTruthful, Waiting, Reporting, Asking,
           StatusOne, past, kernel
  <1>15. CASE StatusBssid
    BY <1>15
       DEF TypeOK, PcInv, StatusInv, StatusTruthful, Waiting, Reporting, Asking,
           StatusBssid, Return, past, kernel
  <1>16. CASE Noise
    BY <1>16
       DEF TypeOK, PcInv, StatusInv, StatusTruthful, Waiting, Reporting, Asking,
           Noise, local, past, kernel, member
  <1>17. CASE Roam
    BY <1>17
       DEF TypeOK, PcInv, StatusInv, StatusTruthful, Waiting, Reporting, Asking, Roam,
           local, member
  <1>18. CASE Quiet
    BY <1>18
       DEF TypeOK, PcInv, StatusInv, StatusTruthful, Waiting, Reporting, Asking,
           Quiet, local, past, member
  <1>19. ASSUME NEW f \in Ifs, StartScan(f)
         PROVE  StatusInv'
    BY <1>19
       DEF TypeOK, PcInv, StatusInv, StatusTruthful, Waiting, Reporting, Asking,
           StartScan, local, past, member
  <1>20. ASSUME NEW f \in Ifs, ScanDone(f)
         PROVE  StatusInv'
    BY <1>20
       DEF TypeOK, PcInv, StatusInv, StatusTruthful, Waiting, Reporting, Asking,
           ScanDone, local, member
  <1>21. ASSUME NEW f \in Ifs, Commit(f)
         PROVE  StatusInv'
    BY <1>21
       DEF TypeOK, PcInv, StatusInv, StatusTruthful, Waiting, Reporting, Asking,
           Commit, local, past, member
  <1> QED
    BY <1>1, <1>2, <1>3, <1>4, <1>5, <1>6, <1>7, <1>8, <1>9, <1>10, <1>11, <1>12,
       <1>13, <1>14, <1>15, <1>16, <1>17, <1>18, <1>19, <1>20, <1>21
       DEF Next, Step, Kernel

-----------------------------------------------------------------------------
(* The theorems                                                            *)

\* IInv holds in every reachable state.
THEOREM Invariance == Spec => []IInv
  <1>1. Init => IInv
    BY InitIInv
  <1>2. IInv /\ [Next]_vars => IInv'
    BY TypeStep, PcStep, FreshStep, ReportStep, ChannelStep, StatusStep DEF IInv
  <1> QED
    BY <1>1, <1>2, PTL DEF Spec, FairSpec

\* Every variable keeps its type, the retries of execCmdScanResults stay within
\* SCAN_RESULTS_MAX_RETRIES.
THEOREM TypeCorrect == Spec => []TypeOK
  <1>1. IInv => TypeOK
    BY DEF IInv
  <1> QED
    BY <1>1, Invariance, PTL

\* However many interfaces there are and whatever the kernel posts, WIFI_SCAN that
\* waited reports networks only after its own interface completed a scan.
THEOREM ScanIsFresh == Spec => []FreshScan
  <1>1. IInv => FreshScan
    BY DEF IInv, FreshInv
  <1> QED
    BY <1>1, Invariance, PTL

\* The report is the buffer, network by network, for every content of the cache.
THEOREM ReportIsBuffer == Spec => []ReportsBuffer
  <1>1. IInv => ReportsBuffer
    BY DEF IInv, ReportInv
  <1> QED
    BY <1>1, Invariance, PTL

\* Reported channels are of the network's frequency, for every channel table.
THEOREM ChannelRight == Spec => []ChannelOwnFreq
  <1>1. IInv => ChannelOwnFreq
    BY DEF IInv
  <1> QED
    BY <1>1, Invariance, PTL

\* Both together: what is reported is the buffer's, with channels of its own.
THEOREM ReportIsTruthful == Spec => []ReportTruthful
  <1>1. ReportsBuffer /\ ChannelOwnFreq => ReportTruthful
    BY DEF ReportTruthful
  <1> QED
    BY <1>1, ReportIsBuffer, ChannelRight, PTL

\* No SSID leaves its buffer, for every length of buffer and SSID.
THEOREM EssidStays == Spec => []EssidInBuffer
  <1>1. IInv => EssidInBuffer
    <2> SUFFICES ASSUME IInv, NEW k \in 1 .. Len(buf)
                 PROVE  copyEssid(NWID_LEN, buf[k].essid) \subseteq 0 .. NWID_LEN
      BY DEF EssidInBuffer
    <2>1. buf[k] \in Records
      BY DEF IInv, TypeOK
    <2>2. buf[k].essid \in Essids
      BY <2>1, RecordsAssumption
    <2> QED
      BY <2>2, BoundsAssumption, EssidFits
  <1> QED
    BY <1>1, Invariance, PTL

\* WIFI_STATUS reports what the interface had while it ran, however often it is
\* associated anew meanwhile.
THEOREM StatusIsTruthful == Spec => []StatusTruthful
  <1>1. IInv => StatusTruthful
    BY DEF IInv, StatusInv
  <1> QED
    BY <1>1, Invariance, PTL

=============================================================================
