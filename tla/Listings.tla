------------------------------ MODULE Listings ------------------------------
(***************************************************************************)
(* The pure parts of the firmware: how a line of nmcli is split            *)
(* (_parse_terse), how the list of networks is made of the lines           *)
(* (wifi.scan) and sized for the legacy read, how the network interfaces   *)
(* are ranked (network.interfaces), and the name the device advertises     *)
(* (default_local_name).  A state is an input of one of them, and an       *)
(* invariant compares what the operator makes of it with a reference that  *)
(* is not how the code computes it.                                        *)
(***************************************************************************)
EXTENDS Integers, Sequences, SequencesExt, FiniteSets

CONSTANTS
    FieldLen,   \* BOUND on the characters of a field
    LineLen,    \* BOUND on the lines of nmcli, the fields of one, the interfaces
    HostLen     \* BOUND on the hostname

ASSUME ListingsAssumption == {FieldLen, LineLen, HostLen} \subseteq Nat

VARIABLE input  \* what is given to one of the operators: its kind, and values

-----------------------------------------------------------------------------
(* Splitting a line of nmcli -t.  A character is one of these, and any      *)
(* other one is as good as Letter.                                          *)

Colon     == ":"
Backslash == "\\"
Letter    == "x"
Chars     == {Colon, Backslash, Letter}

Started == [out |-> <<>>, buf |-> <<>>, escaped |-> FALSE]

\* Mutant of Split: an escaped colon ends the field.
SplitAtEveryColon(st, c) ==
    CASE c = Colon -> [out |-> Append(st.out, st.buf), buf |-> <<>>, escaped |-> FALSE]
      [] c # Colon /\ ~st.escaped /\ c = Backslash -> [st EXCEPT !.escaped = TRUE]
      [] OTHER -> [st EXCEPT !.buf = Append(@, c), !.escaped = FALSE]

\* One character of the loop; "escaped" is the backslash that the code skips.
Split(st, c) ==
    CASE st.escaped -> [st EXCEPT !.buf = Append(@, c), !.escaped = FALSE]
      [] ~st.escaped /\ c = Backslash -> [st EXCEPT !.escaped = TRUE]
      [] ~st.escaped /\ c = Colon ->
           [out |-> Append(st.out, st.buf), buf |-> <<>>, escaped |-> FALSE]
      [] OTHER -> [st EXCEPT !.buf = Append(@, c)]

\* The loop: what it has after the i-th character of the line.
Loop(line) ==
    LET st[i \in 0..Len(line)] == IF i = 0 THEN Started ELSE Split(st[i - 1], line[i])
    IN  st

\* A backslash at the end of the line escapes nothing, and is kept.
ParseTerse(line) ==
    LET end == Loop(line)[Len(line)]
    IN  Append(end.out, IF end.escaped THEN Append(end.buf, Backslash) ELSE end.buf)

\* What nmcli prints for a field and for a line of fields.
Escaped(field) ==
    FlattenSeq([i \in DOMAIN field |->
        IF field[i] = Letter THEN <<Letter>> ELSE <<Backslash, field[i]>>])

Printed(fields) ==
    FlattenSeq([i \in DOMAIN fields |->
        (IF i = 1 THEN <<>> ELSE <<Colon>>) \o Escaped(fields[i])])

-----------------------------------------------------------------------------
(* Python's sort is stable.  Order is the places the elements had, in the   *)
(* order they come to be in; each goes behind those before it that have its *)
(* key or a lesser one.                                                     *)

Place(order, keys, k) ==
    InsertAt(order, 1 + Cardinality({i \in DOMAIN order : keys[order[i]] <= keys[k]}), k)

Order(keys) ==
    LET order[k \in 0..Len(keys)] == IF k = 0 THEN <<>> ELSE Place(order[k - 1], keys, k)
    IN  order[Len(keys)]

Sorted(seq, keys) == [i \in DOMAIN seq |-> seq[Order(keys)[i]]]

-----------------------------------------------------------------------------
(* The list of networks.  A line is what _parse_terse makes of it: too few  *)
(* fields, or an ssid ("" for a hidden network), a signal, which should be  *)
(* a number, and the in-use marker; the security is carried along with them *)
(* and left out.                                                            *)

\* The lines of a network that names itself.
Names(line) == Len(line) = 3 /\ line[1] # ""

\* int(), or 0 when it raises ValueError.
Signal(raw) == CASE raw = "1" -> 1 [] raw = "2" -> 2 [] OTHER -> 0

Network(line) == [ssid |-> line[1], signal |-> Signal(line[2]), inUse |-> line[3]]

\* The dictionary "seen", in insertion order: a stronger line of an ssid takes
\* the place of the one before it.
Keep(seen, line) ==
    LET same == {i \in DOMAIN seen : Names(line) /\ seen[i].ssid = line[1]}
    IN  CASE ~Names(line) -> seen
          [] Names(line) /\ same = {} -> Append(seen, Network(line))
          [] OTHER -> [i \in DOMAIN seen |->
                         IF i \in same /\ Network(line).signal > seen[i].signal
                           THEN Network(line) ELSE seen[i]]

\* The dictionary after all the lines.
Seen(lines) ==
    LET seen[k \in 0..Len(lines)] == IF k = 0 THEN <<>> ELSE Keep(seen[k - 1], lines[k])
    IN  seen[Len(lines)]

Cut(nets, limit) == IF limit = 0 \/ limit >= Len(nets) THEN nets ELSE SubSeq(nets, 1, limit)

\* The strongest first; reverse=True leaves equal ones in their order, too.
BySignal(nets) == Sorted(nets, [i \in DOMAIN nets |-> -nets[i].signal])

\* Mutant of ScanList: the list is cut before it is sorted.
ScanListCutFirst(lines, limit) == BySignal(Cut(Seen(lines), limit))

ScanList(lines, limit) == Cut(BySignal(Seen(lines)), limit)

\* Reference: the lines that are the strongest of their ssid, the first such.
Strongest(lines) ==
    {i \in DOMAIN lines :
        /\ Names(lines[i])
        /\ \A j \in DOMAIN lines :
             (Names(lines[j]) /\ lines[j][1] = lines[i][1]) =>
                 \/ Network(lines[j]).signal < Network(lines[i]).signal
                 \/ Network(lines[j]).signal = Network(lines[i]).signal /\ i <= j}

\* The line that first named the ssid of line i.
FirstOf(lines, i) ==
    CHOOSE j \in DOMAIN lines :
        /\ Names(lines[j]) /\ lines[j][1] = lines[i][1]
        /\ \A k \in 1..(j - 1) : ~(Names(lines[k]) /\ lines[k][1] = lines[i][1])

\* Line i is listed before line j.
Beats(lines, i, j) ==
    \/ Network(lines[i]).signal > Network(lines[j]).signal
    \/ /\ Network(lines[i]).signal = Network(lines[j]).signal
       /\ FirstOf(lines, i) < FirstOf(lines, j)

-----------------------------------------------------------------------------
(* The size of the legacy read: at most LegacyLimit networks in one value.  *)

MaxValue == 512     \* bytes of a GATT characteristic value

\* Mutant of LegacyLimit.
LegacyLimitSix == 6

LegacyLimit == 5

\* The bytes of an ssid of n bytes in a JSON string, when the strange ones of
\* them take width each: 2 for a quote or a backslash, 6 for another control
\* character, 3 for what is no UTF-8 and was replaced.
CodedSize(n, strange, width) == n + strange * (width - 1)

\* {"ssid":"S","signal":N,"security":"S","in_use":B} in compact JSON: 44 bytes
\* of punctuation and keys, and the lengths of the values.
EntrySize(ssid, signal, security, inUse) ==
    44 + ssid + signal + security + (IF inUse THEN 5 ELSE 6)

\* n entries of one size between brackets, with commas.
ListSize(n, entry) == 2 + n * entry + (IF n = 0 THEN 0 ELSE n - 1)

-----------------------------------------------------------------------------
(* The interfaces.  An interface is known by its place in the sorted names. *)

Nic == [wireless : BOOLEAN, type : {"772", "1", "65534"}, state : {"up", "down", ""},
        ip : BOOLEAN]

IfaceType(nic) ==
    CASE nic.wireless -> "wifi"
      [] ~nic.wireless /\ nic.type = "772" -> "loopback"
      [] ~nic.wireless /\ nic.type = "1" -> "ethernet"
      [] OTHER -> "other"

\* Mutant of Rank: an address is enough.
RankByAddress(nic) == IF nic.ip THEN 0 ELSE IF nic.state = "up" THEN 1 ELSE 2

Rank(nic) ==
    CASE nic.state = "up" /\ nic.ip  -> 0
      [] nic.state = "up" /\ ~nic.ip -> 1
      [] OTHER -> 2

\* The interfaces that are no loopback, in the order of their names.
AddIface(out, nics, k) == IF IfaceType(nics[k]) = "loopback" THEN out ELSE Append(out, k)

Listed(nics) ==
    LET out[k \in 0..Len(nics)] == IF k = 0 THEN <<>> ELSE AddIface(out[k - 1], nics, k)
    IN  out[Len(nics)]

Interfaces(nics) ==
    LET listed == Listed(nics)
    IN  Sorted(listed, [i \in DOMAIN listed |-> Rank(nics[listed[i]])])

-----------------------------------------------------------------------------
(* The advertised name, a sequence of characters.  The suffix is the end of *)
(* the first wireless MAC that can be read, or empty.                       *)

MaxName == 28
Prefix  == <<"P", "i", "C", "f", "g", "-">>

\* Interfaces whose name starts with "wl": their MAC's last two octets, or ""
\* when the address cannot be read or is not six octets.
MacSuffix(wlans) ==
    LET read == {i \in DOMAIN wlans : wlans[i] # <<>>}
    IN  IF read = {} THEN <<>> ELSE wlans[Min(read)]

Clip(name, n) == IF n >= Len(name) THEN name ELSE SubSeq(name, 1, n)

\* Mutant of LocalName: the whole name is cut at its end.
LocalNameCut(host, suffix) ==
    Clip(IF suffix = <<>> THEN Prefix \o host ELSE Prefix \o host \o <<"-">> \o suffix, MaxName)

\* The code's third branch, no room for the hostname, is never taken: a suffix
\* has four characters.
LocalName(host, suffix) ==
    IF suffix = <<>>
      THEN Clip(Prefix \o host, MaxName)
      ELSE Prefix \o Clip(host, MaxName - (Len(Prefix) + 1 + Len(suffix))) \o <<"-">> \o suffix

-----------------------------------------------------------------------------
(* The inputs. *)

UpTo(S, n) == UNION {[1..k -> S] : k \in 0..n}

Lines == {<<"x">>} \cup {<<s, g, u>> : s \in {"", "a", "b", "c"}, g \in {"", "1", "2"},
                                       u \in BOOLEAN}

\* The lengths of --, WPA2, WPA1 WPA2, WPA2 802.1X, WPA1 WPA2 802.1X and
\* WPA1 WPA2 WPA3 802.1X, as nmcli prints them.
Securities == {2, 4, 9, 11, 16, 21}

MacEnds == {<<"1", "A", "1", "C">>, <<"1", "A", "1", "D">>}

GivenFields ==
    \E n \in 1..LineLen : \E fields \in [1..n -> UpTo(Chars, FieldLen)] :
        input = <<"fields", fields>>

GivenLines ==
    \E lines \in UpTo(Lines, LineLen), limit \in 0..2 : input = <<"lines", lines, limit>>

GivenSizes ==
    \E n \in 0..LegacyLimit, ssid \in 1..32, signal \in 1..3, security \in Securities :
        \E strange \in 0..ssid, width \in {1, 2, 3, 6} :
            input = <<"sizes", n, CodedSize(ssid, strange, width), signal, security>>

GivenNics ==
    \E n \in 0..LineLen : \E nics \in [1..n -> Nic] : input = <<"nics", nics>>

GivenDevices ==
    \E k \in 0..HostLen, m1, m2 \in UpTo(MacEnds \cup {<<>>}, LineLen) :
        input = <<"devices", [i \in 1..k |-> "h"], m1, m2>>

Init == GivenFields \/ GivenLines \/ GivenSizes \/ GivenNics \/ GivenDevices

\* The operators keep nothing.
Next == UNCHANGED input

Spec == Init /\ [][Next]_input

-----------------------------------------------------------------------------
(* Properties. *)

\* Whatever characters a profile's name or an ssid holds, the fields nmcli has
\* escaped and joined come back as they were, and in their number: an ssid is
\* never split, nor taken for a signal or a security (wifi.py:52-71).
TerseRoundTrip ==
    input[1] = "fields" => ParseTerse(Printed(input[2])) = input[2]

\* Every network that names itself is listed once, with the values of its
\* strongest access point, the strongest networks first, and only the weakest
\* are cut: the k-th entry is the line that exactly k - 1 others beat
\* (wifi.py:123-148).
ScanListIsStrongest ==
    input[1] = "lines" =>
        LET lines == input[2]
            limit == input[3]
            list  == ScanList(lines, limit)
            all   == Strongest(lines)
        IN  /\ Len(list) = IF limit = 0 \/ limit > Cardinality(all)
                             THEN Cardinality(all) ELSE limit
            /\ \A k \in DOMAIN list : \E i \in all :
                 /\ list[k] = Network(lines[i])
                 /\ Cardinality({j \in all : Beats(lines, j, i)}) = k - 1

\* The legacy read, cut by count, fits into one value where an ssid as JSON
\* writes it and its security have at most 48 bytes together: 32 plain bytes and
\* a security of 16 do, and five such networks make 511 bytes.  Five that take
\* more, by characters JSON escapes or by a longer security, at a full signal,
\* do not fit (service.py:25-27, 109-122).
LegacyReadFits ==
    input[1] = "sizes" =>
        LET n        == input[2]
            coded    == input[3]
            signal   == input[4]
            security == input[5]
            Fits     == ListSize(n, EntrySize(coded, signal, security, FALSE)) <= MaxValue
        IN  /\ coded + security <= 48 => Fits
            /\ (n = LegacyLimit /\ signal = 3 /\ Fits) => coded + security <= 48

\* Every interface but a loopback is listed once, and whenever one is listed
\* before another it is not less useful: a link with an address comes before a
\* link without, and an address without a link brings nothing (network.py:105-128).
UsefulFirst ==
    input[1] = "nics" =>
        LET nics == input[2]
            list == Interfaces(nics)
            Up(k)    == nics[list[k]].state = "up"
            Ready(k) == Up(k) /\ nics[list[k]].ip
        IN  /\ \A i \in DOMAIN nics : Cardinality({k \in DOMAIN list : list[k] = i}) =
                   IF nics[i].wireless \/ nics[i].type # "772" THEN 1 ELSE 0
            /\ \A k, m \in DOMAIN list : k < m =>
                 /\ Up(m) => Up(k)
                 /\ Ready(m) => Ready(k)
                 /\ (Up(k) = Up(m) /\ Ready(k) = Ready(m)) => list[k] < list[m]

\* Two devices of one hostname, of whatever length, advertise different names
\* when the ends of their MACs differ, within the room of the advertisement,
\* however many wireless interfaces cannot be read (service.py:39-96).
NamesTellApart ==
    input[1] = "devices" =>
        LET host == input[2]
            s1   == MacSuffix(input[3])
            s2   == MacSuffix(input[4])
        IN  /\ Len(LocalName(host, s1)) <= MaxName
            /\ s1 # s2 /\ s1 # <<>> /\ s2 # <<>> => LocalName(host, s1) # LocalName(host, s2)
=============================================================================
