---------------------------- MODULE MC_Ieee80211 ----------------------------
(* Two interfaces.  Channel 6 is there three times, as on a driver that lists
   a frequency once per mode, in an order that the quick check of canPromote
   can and cannot use; 2 GHz and 5 GHz channels lie side by side.  One record
   is of a frequency that no table has, SSIDs are as long as the buffer and
   longer. *)
EXTENDS Ieee80211

Chan(f, n, fl) == [freq |-> f, ieee |-> n, flags |-> fl]
Essid(l, p)    == [len |-> l, printable |-> p]

MCTable1 == << Chan(2, 6, CHAN_B), Chan(2, 6, CHAN_G), Chan(2, 6, CHAN_G \cup {"HT20"}),
               Chan(5, 36, CHAN_A), Chan(2, 6, CHAN_G \cup {"HT40U"}) >>
MCTable2 == << Chan(2, 6, CHAN_G), Chan(3, 7, CHAN_G \cup {"HT20"}),
               Chan(5, 36, CHAN_A), Chan(5, 36, CHAN_A \cup {"HT20"}) >>

MCDriver ==
    [wlan0 |-> [table |-> MCTable1, ht |-> {1, 2},
                media |-> [mode |-> "auto", mesh |-> FALSE]],
     wlan1 |-> [table |-> MCTable2, ht |-> {1},
                media |-> [mode |-> "11g", mesh |-> TRUE]]]

R1 == [bssid |-> 1, freq |-> 2, flags |-> {}, essid |-> Essid(NWID_LEN, FALSE)]
R2 == [bssid |-> 2, freq |-> 5, flags |-> {}, essid |-> Essid(1, TRUE)]
R3 == [bssid |-> 3, freq |-> 9, flags |-> {}, essid |-> Essid(NWID_LEN + 1, TRUE)]
R4 == [bssid |-> 4, freq |-> 2, flags |-> CHAN_G, essid |-> Essid(1, FALSE)]

MCRecords == {R1, R2, R3, R4}
MCResults == {<<>>, <<R1, R3, R2, R4>>}
=============================================================================
