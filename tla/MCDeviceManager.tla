-------------------------- MODULE MCDeviceManager --------------------------
(***************************************************************************)
(* Small instances of DeviceManager for TLC: one device or a few,          *)
(* one or two clients.                                                     *)
(***************************************************************************)
EXTENDS DeviceManager

CONSTANTS tv, dup, other, box, loop, user, living, attic

\* The second record is of the first device; the others are another TV's and
\* a Roku's.
Units == [i \in DeviceID |-> IF i = dup THEN tv ELSE i]

SameUnit == {p \in DeviceID \X DeviceID : Unit[p[1]] = Unit[p[2]]}

\* Records of the second device have the lower rank, as an mDNS record has
\* below a Samsung one.
Ranks == [i \in DeviceID |-> IF i = tv THEN 5 ELSE 4]

Row(paired, verified) ==
    [paired |-> paired, verified |-> verified, alias |-> NoAlias, online |-> TRUE]

Empty == [i \in DeviceID |-> None]
AllUnpaired == [i \in DeviceID |-> Row(FALSE, TRUE)]
AllPaired == [i \in DeviceID |-> Row(TRUE, TRUE)]
\* Rows of a build that had no control_verified field.
OldPaired == [i \in DeviceID |-> Row(TRUE, FALSE)]

\* A daemon that has never run, or one that remembers its devices.
FirstOrPaired == {Empty, AllPaired}
\* The second record of the first TV is known, or a scan finds it.
ManyStore == {AllUnpaired, [AllPaired EXCEPT ![dup] = None]}
OldStore == {OldPaired}
PairedStore == {AllPaired}

\* The other TV was discovered with a name a user may want.
CalledAttic == [i \in DeviceID |-> IF i = other THEN attic ELSE NoAlias]

\* The discovery loop scans; the user runs requests of her own.  A scan is of
\* no device.
Requests(asked) ==
    [c \in Client |-> {<<"scan", tv>>} \cup IF c = loop THEN {} ELSE asked]

\* All that write; a power_on writes what an execute does.
AllRequests == Requests((Operation \ {"scan", "state", "power_on"}) \X {tv})
\* The requests that rescan, and with them wait for scanMu.
RescanRequests == [c \in Client |->
    IF c = loop THEN {<<"scan", tv>>} ELSE {"pair", "execute", "power_on", "state"} \X {tv}]
\* Those that write, one after the other: on two records of one TV, on
\* another TV, and never on the Roku.
WriteRequests == Requests(({"pair"} \X {tv, dup}) \cup ({"unpair"} \X {tv, dup, other})
    \cup ({"execute"} \X {dup, other}) \cup ({"rename"} \X {tv, other}))
UnpairOnly == [c \in Client |->
    IF c = loop THEN {<<"scan", tv>>} ELSE {<<"unpair", tv>>}]
=============================================================================
