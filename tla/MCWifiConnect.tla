--------------------------- MODULE MCWifiConnect ---------------------------
\* Small instances of WifiConnect.
EXTENDS WifiConnect

\* "Home" wants the key "right"; "Cafe" is open.
MCSsids    == {"Home", "Cafe"}
MCOldNames == {"tray", "old"}
MCAltered  == {"Home"}     \* as if its name held a ':'
MCKeys     == {"right", "wrong"}
MCApKey    == [s \in MCSsids |-> IF s = "Home" THEN "right" ELSE "open"]

Profile(by, name, ssid, key) == [by |-> by, name |-> name, ssid |-> ssid, key |-> key]

\* A stale profile under another name, and one made by the code.
SavedRenamed ==
    {Profile("s1", "tray", "Home", "broken"), Profile("s2", "Cafe", "Cafe", "open")}

\* Two stale profiles of "Home", one of which shares its name with a profile of
\* the other network, and one that bears the name of that network.
SavedAmbiguous ==
    {Profile("s1", "tray", "Home", "broken"), Profile("s2", "old", "Home", "wrong"),
     Profile("s3", "tray", "Cafe", "open"), Profile("s4", "Cafe", "Cafe", "open")}
=============================================================================
