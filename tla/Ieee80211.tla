----------------------------- MODULE Ieee80211 -----------------------------
(***************************************************************************)
(* NmWorkerIeee80211: WIFI_SCAN, WIFI_SCAN_RESULTS and WIFI_STATUS, which  *)
(* ask the kernel directly.  A scan is started by an ioctl and waited for  *)
(* on a routing socket, over which the kernel tells everyone everything;   *)
(* its results are then copied from the driver's cache, and every network  *)
(* gets the channel number that the driver's channel table has for its     *)
(* frequency.  Commands come one after the other, because dispatchers hold *)
(* work_access (see NmDaemon); the kernel and the other programs that use  *)
(* it go on meanwhile.  They are external: what they do is taken from what *)
(* the code expects of them.                                               *)
(***************************************************************************)
EXTENDS Integers, Sequences

CONSTANTS
    Ifs,        \* names of interfaces
    Records,    \* the scan records there are
    Results,    \* contents of the cache of results: sequences of records
    Driver,     \* per interface, what its driver says of itself: the channel
                \* table, its media, its HT setting
    Bsses,      \* networks to be associated with
    IMAX,       \* rounds of the wait for a scan (200 in the code)
    NWID_LEN,   \* IEEE80211_NWID_LEN (32)
    MaxQueue    \* bound: messages waiting in the routing socket

NoName == "none"
Zeroes == "zeroes"

Modes == {"auto", "11a", "11b", "11g"}
Media == [mode : Modes, mesh : BOOLEAN]
Flags == {"2GHZ", "5GHZ", "CCK", "OFDM", "DYN", "HT20", "HT40D", "HT40U"}
Chans == [freq : Nat, ieee : Nat, flags : SUBSET Flags]
Essids == [len : Nat, printable : BOOLEAN]

ASSUME BoundsAssumption ==
    /\ IMAX \in Nat /\ MaxQueue \in Nat
    /\ NWID_LEN \in Nat /\ NWID_LEN >= 4

ASSUME NamesAssumption == {NoName, Zeroes} \cap Bsses = {} /\ {NoName, "other", "foreign"} \cap Ifs = {}

ASSUME RecordsAssumption ==
    /\ Records \subseteq [bssid : Nat, freq : Nat, flags : SUBSET Flags, essid : Essids]
    /\ Results \subseteq Seq(Records)
    /\ Driver \in [Ifs -> [table : Seq(Chans), media : Media, ht : SUBSET {1, 2}]]

SCAN_RESULTS_MAX_RETRIES == 3

-----------------------------------------------------------------------------
(* The channel of a frequency                                              *)

CHAN_A == {"5GHZ", "OFDM"}
CHAN_B == {"2GHZ", "CCK"}
CHAN_G == {"2GHZ", "DYN"}

\* The least of some indices, or the other one if there are none.
First(S, other) ==
    IF \E j \in S : \A k \in S : j <= k
    THEN CHOOSE j \in S : \A k \in S : j <= k
    ELSE other

\* Mutant: it looks at the flags of the next channel, and not at its frequency.
canPromote_NextFreq(chans, from, to) ==
    [n \in DOMAIN chans |->
        LET Better(j) == to \subseteq chans[j].flags
            others    == {j \in DOMAIN chans \ {n} : chans[j].freq = chans[n].freq /\ Better(j)}
        IN  IF ~(from \subseteq chans[n].flags) THEN n
            ELSE IF n + 1 \in DOMAIN chans /\ Better(n + 1) THEN n + 1
            ELSE First(others, n)]

\* Functions of the index they are called with.
canPromote(chans, from, to) ==
    [n \in DOMAIN chans |->
        LET Better(j) == chans[j].freq = chans[n].freq /\ to \subseteq chans[j].flags
            others    == {j \in DOMAIN chans \ {n} : Better(j)}
        IN  IF ~(from \subseteq chans[n].flags) THEN n
            ELSE IF n + 1 \in DOMAIN chans /\ Better(n + 1) THEN n + 1
            ELSE First(others, n)]

\* To the widest channel of a band that the driver's HT setting allows: 1 for
\* HT20, 2 for HT40 besides.
promoteHt(chans, base, ht) ==
    [n \in DOMAIN chans |->
        IF 1 \notin ht THEN n
        ELSE IF 2 \notin ht THEN canPromote(chans, base, base \cup {"HT20"})[n]
        ELSE canPromote(chans, base, base \cup {"HT40U"})[
                 canPromote(chans, base, base \cup {"HT40D"})[
                     canPromote(chans, base, base \cup {"HT20"})[n]]]]

promoteChan(chans, mode, ht) ==
    LET b == IF mode # "11b" THEN canPromote(chans, CHAN_B, CHAN_G) ELSE [j \in DOMAIN chans |-> j]
        g == promoteHt(chans, CHAN_G, IF mode # "11g" THEN ht ELSE {})
        a == promoteHt(chans, CHAN_A, IF mode # "11a" THEN ht ELSE {})
    IN  [n \in DOMAIN chans |-> a[g[b[n]]]]

\* The index of the channel of a frequency, or 0.
mapFreq(chans, freq, flags, mode, ht) ==
    LET n == First({j \in DOMAIN chans : chans[j].freq = freq /\ flags \subseteq chans[j].flags}, 0)
    IN  IF n # 0 /\ flags = {} THEN promoteChan(chans, mode, ht)[n] ELSE n

-----------------------------------------------------------------------------
(* The text of an SSID                                                     *)

\* The places of its buffer that copyEssid writes, the closing zero of sprintf
\* included.  The buffer has one place more than it is told of.
copyEssid(bufsize, essid) ==
    LET maxlen == IF essid.len > bufsize THEN bufsize ELSE essid.len
        bytes  == IF maxlen <= (bufsize - 2) \div 2 THEN maxlen ELSE (bufsize - 2) \div 2
        dots(at, n) == IF n # essid.len THEN (at - 3) .. (at - 1) ELSE {}
    IN  IF essid.printable \/ maxlen = 0
        THEN 0 .. (maxlen - 1) \cup dots(maxlen, maxlen)
        ELSE IF bufsize < 3 THEN {}
        ELSE 0 .. (2 + 2 * bytes) \cup dots(2 + 2 * bytes, bytes)

-----------------------------------------------------------------------------
(* The state                                                               *)

Msgs == {"other", "foreign"} \cup Ifs  \* foreign: of another RTM_VERSION;
                                       \* an interface: its scan is complete
Net  == [essid : Essids, bssid : Nat, chan : Nat]

Ssids == Bsses \cup {NoName, Zeroes}

NoEssid == [len |-> 0, printable |-> TRUE]
NoNet   == [essid |-> NoEssid, bssid |-> 0, chan |-> 0]  \* no channel: 0

NoMedia == [mode |-> "auto", mesh |-> FALSE]

VARIABLES
    pc,        \* where the command in hand is
    name,      \* that command, or the last one, and its interface
    ifname,
    result,    \* of the last command
    i,         \* rounds of execCmdScan's wait, up to IMAX + 1
    retry,     \* retries of execCmdScanResults
    buf,       \* the records it works on
    net,       \* its network, one variable for all records
    nets,      \* its vect_nets
    ChanInfo,  \* members of the worker, kept from command to command
    IfMr,
    HtConf,
    data,      \* execCmdStatus: its buffer, a network's SSID or zeroes
    len,       \* what the first SSID or the mesh id fills of it, 0 or 1
    n_ssid,
    ssids,     \* what it reports as SSID, and as BSSID
    bssid

VARIABLES
    sock,      \* the routing socket is open
    queue,     \* messages in it
    scanning,  \* per interface: it is scanning
    posted,    \* per interface: completed, the results not yet in the cache
    cache,     \* per interface: the results to be asked for
    assoc,     \* the network that the interface asked about by WIFI_STATUS is
               \* associated with
    quiet      \* nothing happens any more that the kernel would tell of

VARIABLES
    waited,    \* history: the command's scan was accepted
    heard,     \* history: its interface completed a scan since it began
    had        \* history: what its interface was associated with since then

local  == <<i, retry, buf, net, nets, data, len, n_ssid, ssids, bssid>>
member == <<ChanInfo, IfMr, HtConf>>
kernel == <<scanning, posted, cache, assoc, quiet>>
past   == <<waited, heard, had>>
vars   == <<pc, name, ifname, result, local, member, sock, queue, kernel, past>>

Init ==
    /\ pc = "idle" /\ name = "none" /\ result = "none" /\ ifname = NoName
    /\ i = 0 /\ retry = 0 /\ buf = <<>> /\ net = NoNet /\ nets = <<>>
    /\ data = Zeroes /\ len = 0 /\ n_ssid = 0 /\ ssids = <<>> /\ bssid = NoName
    /\ ChanInfo = <<>> /\ IfMr = NoMedia /\ HtConf = {}
    /\ sock = FALSE /\ queue = <<>> /\ quiet = FALSE
    /\ scanning = [f \in Ifs |-> FALSE] /\ posted = [f \in Ifs |-> FALSE]
    /\ cache = [f \in Ifs |-> <<>>]
    /\ assoc = NoName
    /\ waited = FALSE /\ heard = FALSE /\ had = {}

-----------------------------------------------------------------------------
(* The kernel, and the programs beside the daemon                          *)

Post(m) == queue' = IF sock THEN Append(queue, m) ELSE queue

\* Something else is told of: an address, a route, an interface.
Noise ==
    /\ ~quiet /\ sock /\ Len(queue) < MaxQueue
    /\ \E m \in {"other", "foreign"} : Post(m)
    /\ UNCHANGED <<pc, name, ifname, result, local, member, sock, kernel, past>>

\* Somebody else, wpa_supplicant for one, starts a scan.
StartScan(f) ==
    /\ ~quiet /\ ~scanning[f]
    /\ scanning' = [scanning EXCEPT ![f] = TRUE]
    /\ UNCHANGED <<pc, name, ifname, result, local, member, sock, queue, posted,
                   cache, assoc, quiet, past>>

ScanDone(f) ==
    /\ scanning[f] /\ Len(queue) < MaxQueue
    /\ scanning' = [scanning EXCEPT ![f] = FALSE]
    /\ posted' = [posted EXCEPT ![f] = TRUE]
    /\ heard' = (heard \/ (sock /\ f = ifname))
    /\ Post(f)
    /\ UNCHANGED <<pc, name, ifname, result, local, member, sock, cache,
                   assoc, quiet, waited, had>>

Commit(f) ==
    /\ posted[f]
    /\ posted' = [posted EXCEPT ![f] = FALSE]
    /\ \E r \in Results : cache' = [cache EXCEPT ![f] = r]
    /\ UNCHANGED <<pc, name, ifname, result, local, member, sock, queue, scanning,
                   assoc, quiet, past>>

Roam ==
    /\ ~quiet /\ name = "status" /\ pc # "idle"
    /\ assoc' \in Bsses \cup {NoName}
    /\ had' = had \cup {assoc'}
    /\ UNCHANGED <<pc, name, ifname, result, local, member, sock, queue, scanning,
                   posted, cache, quiet, waited, heard>>

Quiet ==
    /\ ~quiet
    /\ quiet' = TRUE
    /\ UNCHANGED <<pc, name, ifname, result, local, member, sock, queue, scanning,
                   posted, cache, assoc, past>>

Kernel == Noise \/ Roam \/ Quiet \/ \E f \in Ifs : StartScan(f) \/ ScanDone(f) \/ Commit(f)

-----------------------------------------------------------------------------
(* The commands                                                            *)

Return(r) ==
    /\ pc' = "idle"
    /\ result' = r
    /\ sock' = FALSE
    /\ queue' = <<>>

Begin(n, f) ==
    /\ pc = "idle"
    /\ pc' = [scan |-> "open", results |-> "results", status |-> "ssid"][n]
    /\ name' = n /\ ifname' = f /\ result' = "none"
    /\ i' = 0 /\ retry' = 0 /\ buf' = <<>> /\ net' = NoNet /\ nets' = <<>>
    /\ data' = Zeroes /\ len' = 0 /\ n_ssid' = 0 /\ ssids' = <<>> /\ bssid' = NoName
    /\ ChanInfo' = <<>> /\ IfMr' = NoMedia  \* set before they are read
    /\ assoc' \in IF n = "status" THEN Bsses \cup {NoName} ELSE {NoName}
    /\ waited' = FALSE /\ heard' = FALSE /\ had' = {assoc'}
    /\ UNCHANGED <<HtConf, sock, queue, scanning, posted, cache, quiet>>

\* From here on the kernel's messages are queued, before the scan is asked for.
OpenRoute ==
    /\ pc = "open"
    /\ pc' = "request" /\ sock' = TRUE
    /\ UNCHANGED <<name, ifname, result, local, member, queue, kernel, past>>

\* A scan that is refused is as good as done: the results are asked for.
ScanRequest ==
    /\ pc = "request"
    /\ \/ /\ pc' = "read"
          /\ scanning' = [scanning EXCEPT ![ifname] = TRUE]
          /\ waited' = TRUE
          /\ UNCHANGED <<sock, queue>>
       \/ /\ pc' = "results"
          /\ sock' = FALSE /\ queue' = <<>>
          /\ UNCHANGED <<scanning, waited>>
    /\ UNCHANGED <<name, ifname, result, local, member, posted, cache,
                   assoc, quiet, heard, had>>

\* Mutant: the name of the interface is not compared.
OwnScan_AnyIf(m) == m \in Ifs

\* The message that ends the wait.
OwnScan(m) == m = ifname

\* The count of rounds makes the loop go on: it ends by its message or by silence.
ReadMsg ==
    /\ pc = "read" /\ queue # <<>>
    /\ IF Head(queue) = "foreign"
       THEN Return("ERR") /\ UNCHANGED i
       ELSE /\ i' = IF i > IMAX THEN i ELSE i + 1
            /\ IF ~OwnScan(Head(queue)) \/ i' > IMAX
               THEN queue' = Tail(queue) /\ UNCHANGED <<pc, sock>>
               ELSE pc' = "results" /\ sock' = FALSE /\ queue' = <<>>
            /\ UNCHANGED result
    /\ UNCHANGED <<name, ifname, retry, buf, net, nets, data, len, n_ssid, ssids,
                   bssid, member, kernel, past>>

\* Mutant: a read without message is tried again.
ReadTimeout_Again == pc = "read" /\ queue = <<>> /\ UNCHANGED vars

\* Nothing for READ_TIMEOUT seconds.
ReadTimeout ==
    /\ pc = "read" /\ queue = <<>>
    /\ Return("ERR")
    /\ UNCHANGED <<name, ifname, local, member, kernel, past>>

MayRetry == retry < SCAN_RESULTS_MAX_RETRIES

\* The results may come into the cache after the message: ask again.
GetResults ==
    /\ pc = "results"
    /\ \/ Return("ERR") /\ UNCHANGED <<retry, buf>>
       \/ /\ cache[ifname] # <<>>
          /\ buf' = cache[ifname] /\ pc' = "driver"
          /\ UNCHANGED <<result, sock, queue, retry>>
       \/ /\ cache[ifname] = <<>> /\ MayRetry
          /\ retry' = retry + 1
          /\ UNCHANGED <<pc, result, sock, queue, buf>>
       \/ /\ cache[ifname] = <<>> /\ ~MayRetry
          /\ Return("ERR") /\ UNCHANGED <<retry, buf>>
    /\ UNCHANGED <<name, ifname, i, net, nets, data, len, n_ssid, ssids, bssid,
                   member, kernel, past>>

\* The table is read into fresh memory.  When that fails the memory is used as
\* it is, which may be the former table.
getChanInfo ==
    \/ ChanInfo' = Driver[ifname].table
    \/ ChanInfo' \in {Driver[f].table : f \in Ifs} \cup {<<>>}

\* An interface whose media cannot be asked for gets one of zeroes.
getMediaState == IfMr' \in {Driver[ifname].media, NoMedia}

\* Errors are logged only.  HtConf then is the one of an earlier command.
ReadDriver ==
    /\ pc = "driver"
    /\ getChanInfo
    /\ getMediaState
    /\ HtConf' \in {HtConf, Driver[ifname].ht}
    /\ pc' = "record"
    /\ UNCHANGED <<name, ifname, result, local, sock, queue, kernel, waited, heard, had>>

\* A network of a frequency without channel keeps the channel of the one before.
NetOf(sr) ==
    LET c == mapFreq(ChanInfo, sr.freq, sr.flags, IfMr.mode, HtConf) IN
    [essid |-> sr.essid, bssid |-> sr.bssid,
     chan |-> IF c # 0 THEN ChanInfo[c].ieee ELSE net.chan]

Record ==
    /\ pc = "record"
    /\ net' = NetOf(buf[Len(nets) + 1])
    /\ nets' = Append(nets, net')
    /\ IF Len(nets') = Len(buf) THEN Return("SUCC") ELSE UNCHANGED <<pc, result, sock, queue>>
    /\ UNCHANGED <<name, ifname, i, retry, buf, data, len, n_ssid, ssids, bssid,
                   member, kernel, past>>

\* WIFI_STATUS: the SSID into a buffer of zeroes.
Filled(b) == IF b = NoName THEN 0 ELSE 1

Read(b) ==
    /\ data' = IF b = NoName THEN Zeroes ELSE b
    /\ len' = Filled(b)

StatusSsid ==
    /\ pc = "ssid"
    /\ \/ Return("ERR") /\ UNCHANGED <<data, len>>
       \/ Read(assoc) /\ pc' = "media" /\ UNCHANGED <<result, sock, queue>>
    /\ UNCHANGED <<name, ifname, i, retry, buf, net, nets, n_ssid, ssids, bssid,
                   member, kernel, past>>

\* Which mode is reported for is up to the media.  The number of SSIDs is 0 when
\* it cannot be asked for.
StatusMedia ==
    /\ pc = "media"
    /\ getMediaState
    /\ IF IfMr'.mesh
       THEN pc' = "mesh" /\ UNCHANGED n_ssid
       ELSE /\ n_ssid' \in 0 .. 2
            /\ pc' = IF n_ssid' > 1 THEN "many" ELSE "one"
    /\ UNCHANGED <<name, ifname, result, i, retry, buf, net, nets, data, len, ssids,
                   bssid, ChanInfo, HtConf, sock, queue, kernel, past>>

StatusMesh ==
    /\ pc = "mesh"
    /\ \/ Return("ERR") /\ UNCHANGED <<data, len>>
       \/ Read(assoc) /\ pc' = "one" /\ UNCHANGED <<result, sock, queue>>
    /\ UNCHANGED <<name, ifname, i, retry, buf, net, nets, n_ssid, ssids, bssid,
                   member, kernel, past>>

\* Mutant: an SSID that cannot be read is reported as well.
StatusMany_All ==
    /\ pc = "many"
    /\ i' = i + 1
    /\ data' \in {Zeroes, IF assoc = NoName THEN Zeroes ELSE assoc}
    /\ ssids' = Append(ssids, data')
    /\ pc' = IF i' = n_ssid THEN "one" ELSE "many"
    /\ UNCHANGED <<name, ifname, result, retry, buf, net, nets, len, n_ssid, bssid,
                   member, sock, queue, kernel, past>>

\* The buffer is cleared for each of several SSIDs, the length is not; an SSID
\* that cannot be read or is empty is left out.
StatusMany ==
    /\ pc = "many"
    /\ i' = i + 1
    /\ \/ /\ data' = Zeroes
          /\ UNCHANGED ssids
       \/ /\ assoc # NoName
          /\ data' = assoc
          /\ ssids' = Append(ssids, data')
    /\ pc' = IF i' = n_ssid THEN "one" ELSE "many"
    /\ UNCHANGED <<name, ifname, result, retry, buf, net, nets, len, n_ssid, bssid,
                   member, sock, queue, kernel, past>>

StatusOne ==
    /\ pc = "one"
    /\ ssids' = IF ssids # <<>> THEN ssids
                ELSE IF len = 0 THEN <<NoName>> ELSE <<data>>
    /\ pc' = "bssid"
    /\ UNCHANGED <<name, ifname, result, i, retry, buf, net, nets, data, len, n_ssid,
                   bssid, member, sock, queue, kernel, past>>

\* A BSSID that cannot be read is reported as none.
StatusBssid ==
    /\ pc = "bssid"
    /\ bssid' \in {assoc, NoName}
    /\ Return("SUCC")
    /\ UNCHANGED <<name, ifname, i, retry, buf, net, nets, data, len, n_ssid, ssids,
                   member, kernel, past>>

-----------------------------------------------------------------------------
Commands == {"scan", "results", "status"}

Step ==
    \/ OpenRoute \/ ScanRequest \/ ReadMsg \/ ReadTimeout
    \/ GetResults \/ ReadDriver \/ Record
    \/ StatusSsid \/ StatusMedia \/ StatusMesh \/ StatusMany \/ StatusOne \/ StatusBssid

Next == (\E n \in Commands, f \in Ifs : Begin(n, f)) \/ Step \/ Kernel

\* A command's thread is scheduled as long as it can go on, which it can unless
\* it waits for a message or the time-out of the wait.
FairSpec == Init /\ [][Next]_vars /\ WF_vars(Step)

\* Besides, whatever the kernel tells of ends some day.
Spec == FairSpec /\ WF_vars(Quiet)

-----------------------------------------------------------------------------
TypeOK ==
    /\ pc \in {"idle", "open", "request", "read", "results", "driver", "record",
               "ssid", "media", "mesh", "many", "one", "bssid"}
    /\ name \in Commands \cup {"none"} /\ ifname \in Ifs \cup {NoName}
    /\ result \in {"none", "ERR", "SUCC"}
    /\ i \in 0 .. IMAX + 2 /\ retry \in 0 .. SCAN_RESULTS_MAX_RETRIES
    /\ buf \in Seq(Records) /\ net \in Net /\ nets \in Seq(Net)
    /\ ChanInfo \in Seq(Chans) /\ IfMr \in Media /\ HtConf \in SUBSET {1, 2}
    /\ data \in Bsses \cup {Zeroes} /\ len \in {0, 1} /\ n_ssid \in 0 .. 2
    /\ ssids \in Seq(Ssids) /\ bssid \in Bsses \cup {NoName}
    /\ sock \in BOOLEAN /\ queue \in Seq(Msgs)
    /\ scanning \in [Ifs -> BOOLEAN] /\ posted \in [Ifs -> BOOLEAN]
    /\ cache \in [Ifs -> Seq(Records)]
    /\ assoc \in Bsses \cup {NoName} /\ quiet \in BOOLEAN
    /\ waited \in BOOLEAN /\ heard \in BOOLEAN
    /\ had \subseteq Bsses \cup {NoName}

\* WIFI_SCAN that waited for a scan and reports networks does so because the
\* interface it was asked for completed one: the complete scan of another
\* interface, or any other message of the routing socket, does not end the wait
\* of execCmdScan.
FreshScan == name = "scan" /\ result = "SUCC" /\ waited => heard

\* The report of execCmdScanResults has one network per record of the buffer, in
\* its order, with the record's SSID and BSSID.
ReportsBuffer ==
    /\ name # "status" /\ result = "SUCC" => Len(nets) = Len(buf)
    /\ \A k \in 1 .. Len(nets) : /\ k <= Len(buf)
                                 /\ nets[k].bssid = buf[k].bssid
                                 /\ nets[k].essid = buf[k].essid

\* A reported channel is one of the network's own frequency, when the driver has
\* a channel for it: looking for the "best" of several channels, promoteChan
\* never leaves the frequency.
HasChannel(r) == \E c \in 1 .. Len(ChanInfo) : /\ ChanInfo[c].freq = r.freq
                                               /\ r.flags \subseteq ChanInfo[c].flags

ChannelOwnFreq ==
    pc = "record" \/ (name # "status" /\ result = "SUCC") =>
    \A k \in 1 .. Len(nets) : HasChannel(buf[k]) =>
        \E c \in 1 .. Len(ChanInfo) : /\ ChanInfo[c].freq = buf[k].freq
                                      /\ ChanInfo[c].ieee = nets[k].chan

\* What execCmdScan and execCmdScanResults report is the buffer's, network by
\* network, and each with a channel of its own.
ReportTruthful == ReportsBuffer /\ ChannelOwnFreq

\* No SSID of a record is written outside ssid[IEEE80211_NWID_LEN+1], whatever
\* its length: copyEssid leaves room for "0x", the closing zero and the dots.
EssidInBuffer ==
    \A k \in 1 .. Len(buf) : copyEssid(NWID_LEN, buf[k].essid) \subseteq 0 .. NWID_LEN

\* WIFI_STATUS reports an SSID and a BSSID that the interface had while it ran,
\* and none only when there was one without: execCmdStatus never shows what an
\* earlier command or request left in its buffer.  Several SSIDs none of which
\* can be read are left out, see the README.
StatusTruthful ==
    name = "status" /\ result = "SUCC" =>
        /\ bssid \in had \cup {NoName}
        /\ \A k \in 1 .. Len(ssids) :
             ssids[k] \in had \/ (n_ssid > 1 /\ Len(ssids) = 1 /\ ssids[k] = Zeroes)

\* Every command returns, once the kernel has nothing more to tell.
CommandEnds == pc # "idle" ~> pc = "idle"

-----------------------------------------------------------------------------
(* What makes them inductive                                               *)

Waiting   == {"request", "read"}
Reporting == {"results", "driver", "record"}
Asking    == {"ssid", "media", "mesh", "many", "one", "bssid"}

PcInv ==
    /\ pc \in Waiting \cup {"open"} => name = "scan"
    /\ pc \in Reporting => name \in {"scan", "results"}
    /\ pc \in Asking => name = "status"
    /\ pc # "idle" => result = "none" /\ ifname \in Ifs
    /\ sock <=> pc \in Waiting
    /\ ~sock => queue = <<>>
    /\ pc = "many" => i < n_ssid /\ n_ssid > 1
    /\ pc \in Asking => i <= n_ssid

\* The message of the own interface's scan is in the socket only when there was
\* one, and nothing else ends the wait.
FreshInv ==
    /\ waited => name = "scan" /\ pc \notin {"open", "request"}
    /\ \A k \in 1 .. Len(queue) : queue[k] = ifname => heard
    /\ waited /\ pc \in Reporting => heard
    /\ FreshScan

ReportInv ==
    /\ ReportsBuffer
    /\ pc = "driver" => buf # <<>>
    /\ pc = "record" => Len(nets) < Len(buf)
    /\ pc \in {"open", "request", "read", "results", "driver"} => nets = <<>>

\* What the buffer of execCmdStatus holds between its questions.
StatusInv ==
    /\ pc \in Asking => assoc \in had
    /\ pc \in {"ssid", "media", "mesh"} => n_ssid = 0
    /\ pc \in {"ssid", "media", "mesh"} => ssids = <<>> /\ i = 0
    /\ pc \in {"media", "many", "one"} /\ len = 0 => NoName \in had
    /\ pc \in {"media", "one"} /\ n_ssid <= 1 /\ len = 1 => data \in had
    /\ pc \in {"many", "one"} => \A k \in 1 .. Len(ssids) : ssids[k] \in had
    /\ pc \in {"many", "one"} /\ n_ssid > 1 /\ i > 0 /\ ssids = <<>> => data = Zeroes
    /\ pc = "one" /\ n_ssid > 1 => i > 0
    /\ pc = "bssid" => \A k \in 1 .. Len(ssids) :
         ssids[k] \in had \/ (n_ssid > 1 /\ Len(ssids) = 1 /\ ssids[k] = Zeroes)
    /\ StatusTruthful

IInv == TypeOK /\ PcInv /\ FreshInv /\ ReportInv /\ ChannelOwnFreq /\ StatusInv

=============================================================================
