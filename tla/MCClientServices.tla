--------------------------- MODULE MCClientServices ---------------------------
(* Small instances of the services a client uses.                          *)
EXTENDS ClientServices

CONSTANTS m1, m2    \* the members of the data sets the logs follow

\* Logs: one block follows one member, the other both.
MCChanges == {(m1 :> a) @@ (m2 :> b) : a \in {{}, {"dchg"}}, b \in {{}, {"qchg"}, {"dupd"}}}
MCLogSets == {{m1}, {m1, m2}}
MCLogBlocks == <<"lcb1", "lcb2">>
MCLcbValues == {[ena |-> FALSE, ds |-> {m1}, oldAt |-> 0, newAt |-> 0, oldId |-> 2, newId |-> 1, trg |-> {"dchg"}]}

\* Name lists: the fourth name fits no page with another, the third half a page.
MCNameCost == [n \in 1 .. 5 |-> IF n = 4 THEN 5 ELSE IF n = 3 THEN 2 ELSE 1]

\* Reports: of one small, three large, and three unequal entries.
MCTemplates == {<<1>>, <<2, 2, 2>>, <<1, 3, 2>>}

\* The served model: two leaves of the process, two of the configuration, two of
\* a report control block, a tracking object, and the structures above them.
OneLeaf(fc, l) == [fc |-> fc, walk |-> <<l>>]
MCTypes == [stVal |-> "Boolean", q |-> "Quality", db |-> "Int", text |-> "VisString",
            RptEna |-> "Boolean", SqNum |-> "Int", trk |-> "Timestamp"]
MCServedTree ==
    [stVal |-> OneLeaf("ST", "stVal"), q |-> OneLeaf("ST", "q"), db |-> OneLeaf("CF", "db"), text |-> OneLeaf("CF", "text"),
     RptEna |-> OneLeaf("BR", "RptEna"), SqNum |-> OneLeaf("BR", "SqNum"), trk |-> OneLeaf("SR", "trk"),
     CF |-> [fc |-> "CF", walk |-> <<"db", "text">>],
     BR |-> [fc |-> "BR", walk |-> <<"RptEna", "SqNum">>],
     LN |-> [fc |-> "none", walk |-> <<"RptEna", "SqNum", "db", "text", "stVal", "q">>]]
MCAttributeOf == [RptEna |-> "BR", SqNum |-> "BR"]
MCTrackerOf == [BR |-> "trk"]
MCAccepted == [Boolean |-> {"bool"}, Quality |-> {"bits"}, Int |-> {"int", "unsigned"},
               VisString |-> {"string"}, Timestamp |-> {"time"}]
Sent(shape, n) == [shape |-> shape, n |-> n]
Writing(ref, values) == [ref |-> ref, values |-> values]
MCWrites ==
    {<<Writing("stVal", <<Sent("bool", 1)>>)>>,
     <<Writing("text", <<Sent("string", 0)>>)>>,
     <<Writing("RptEna", <<Sent("bool", 1)>>)>>,
     <<Writing("RptEna", <<Sent("int", 1)>>)>>,
     <<Writing("SqNum", <<Sent("unsigned", 1)>>)>>,
     <<Writing("CF", <<Sent("int", 1), Sent("string", 1)>>)>>,
     <<Writing("CF", <<Sent("int", 1)>>)>>,
     <<Writing("BR", <<Sent("bool", 1), Sent("int", 2)>>)>>,
     <<Writing("LN", <<Sent("bool", 1), Sent("int", 2), Sent("int", 1), Sent("string", 1), Sent("bool", 1), Sent("bits", 1)>>)>>,
     <<Writing("CF", <<Sent("int", 1), Sent("bool", 1)>>), Writing("text", <<Sent("string", 0)>>)>>,
     <<Writing("text", <<Sent("string", 1)>>), Writing("text", <<Sent("string", 0)>>)>>}

\* Tracking objects: two of commands, of different types, and one of each other class.
TrackerOn(id, class, type, attrs) == [id |-> id, class |-> class, type |-> type, attrs |-> attrs]
OfCommand == {"respAddCause", "ctlVal", "ctlNum", "operTm"}
MCTrackers ==
    <<TrackerOn("bts", "BTS", "none", {"rptEna", "resv"}), TrackerOn("uts", "UTS", "none", {"rptEna", "resv"}),
      TrackerOn("spc", "CTS", "SPC", OfCommand), TrackerOn("dpc", "CTS", "DPC", OfCommand),
      TrackerOn("ots", "OTS", "none", {"entryID", "rangeStartTime"}), TrackerOn("cst", "CST", "none", {})>>
MCCommandType == [o2 |-> "DPC", o3 |-> "INC"]

\* Names: an object with another in it, and arrays at three levels or none.
Declared(kind, fc, count) == [kind |-> kind, fc |-> fc, count |-> count]
MCDeclarations ==
    {(<<"A">> :> Declared("object", "none", 0)) @@ (<<"A", "s">> :> Declared("object", "none", c1))
        @@ (<<"A", "s", "v">> :> Declared("attribute", f1, c3))
        @@ (<<"A", "h">> :> Declared("attribute", f2, c2)) @@ (<<"A", "h", "c">> :> Declared("attribute", f2, 0))
        @@ (<<"A", "q">> :> Declared("attribute", "ST", 0))
     : c1 \in {0, 2}, c2 \in {0, 1}, c3 \in {0, 1}, f1 \in {"ST", "SG"}, f2 \in {"MX", "SE"}}
MCSpelt == {<<"A">>, <<"A", "s">>, <<"A", "s", "v">>, <<"A", "h">>, <<"A", "h", "c">>, <<"A", "q">>, <<"x">>, <<"A", "h", "x">>}

-----------------------------------------------------------------------------
(* The PDUs of the codec: every service, with and without its optional      *)
(* fields, and identifiers on both sides of a sign bit.                     *)

L == <<76>>
BA == <<66, 65>>
OfVmd == [vmd |-> L]
OfDomain == [domain |-> [domain |-> L, item |-> BA]]
OfAssociation == [aa |-> BA]
WholeOf(n) == [name |-> n]
PartOf(n) == [name |-> n, access |-> <<[component |-> L], [index |-> 200], [range |-> <<0, 2>>], [all |-> <<>>]>>]
TrueAsFF == [tag |-> Prim(3), octets |-> <<255>>]
AStructure == [tag |-> Built(2), octets |-> <<131, 1, 0>>]
Unnamed == [tag |-> Prim(13), octets |-> <<9>>]
Undated == <<0, 0, 0, 9>>
Dated == <<0, 0, 1, 9, 0, 2>>
AFile == Primitive(GraphicTag, BA)
AnError(n) == [tag |-> Built(n), octets |-> Constructed(Built(0), <<Primitive(Prim(4), <<1>>)>>)]

MCRequests == {
    [status |-> TRUE], [identify |-> <<>>], [fileRead |-> -2], [fileClose |-> 300], [fileDelete |-> AFile],
    [getNameList |-> [class |-> 9, scope |-> [vmd |-> <<>>]]],
    [getNameList |-> [class |-> -1, scope |-> [domain |-> L], after |-> BA]],
    [getNameList |-> [class |-> 200, scope |-> [aa |-> <<>>]]],
    [read |-> [withResult |-> FALSE, access |-> [list |-> OfDomain]]],
    [read |-> [withResult |-> TRUE, access |-> [variables |-> <<WholeOf(OfVmd), PartOf(OfDomain)>>]]],
    [write |-> [access |-> [variables |-> <<WholeOf(OfAssociation)>>], values |-> <<TrueAsFF, AStructure>>]],
    [write |-> [access |-> [list |-> OfAssociation], values |-> <<>>]],
    [getVariableAttributes |-> [name |-> OfDomain]],
    [defineList |-> [name |-> OfAssociation, variables |-> <<WholeOf(OfVmd), [other |-> [tag |-> Prim(1), octets |-> L]]>>]],
    [getListAttributes |-> OfVmd],
    [deleteList |-> [scope |-> 0, names |-> <<OfVmd, OfDomain>>]],
    [deleteList |-> [scope |-> 2, names |-> <<>>, domain |-> L]],
    [readJournal |-> [name |-> OfDomain, start |-> [time |-> Dated], stop |-> [count |-> -3], variables |-> <<L>>]],
    [readJournal |-> [start |-> [entry |-> <<7>>], stop |-> [time |-> Undated], variables |-> <<>>,
                      after |-> [time |-> Dated, entry |-> <<1, 2>>]]],
    [getCapabilities |-> <<>>], [getCapabilities |-> [after |-> L]],
    [fileOpen |-> [name |-> AFile, position |-> 130]],
    [fileDirectory |-> [specification |-> AFile]], [fileDirectory |-> [after |-> AFile \o AFile]],
    [other |-> [tag |-> Built(78), octets |-> <<1>>]]}

AType(packed, types) == [structure |-> [packed |-> packed, components |-> types]]
OfType(t) == [getVariableAttributes |-> [deletable |-> FALSE, type |-> t]]
AnEntry(form) == [entry |-> <<1>>, origin |-> NoOrigin, content |-> [occurred |-> Dated, form |-> form]]

MCResponses == {
    [status |-> [logical |-> 0, physical |-> 5]],
    [status |-> [logical |-> 0, physical |-> 5, detail |-> [unused |-> 3, bits |-> <<8>>]]],
    [getNameList |-> [names |-> <<L, BA>>, more |-> TRUE]], [getNameList |-> [names |-> <<>>, more |-> FALSE]],
    [getCapabilities |-> [names |-> <<BA>>, more |-> TRUE]],
    [identify |-> [vendor |-> L, model |-> <<>>, revision |-> BA]],
    [read |-> [results |-> <<[success |-> TrueAsFF], [failure |-> 10], [success |-> AStructure]>>]],
    [read |-> [access |-> [list |-> OfVmd], results |-> <<>>]],
    [write |-> <<[failure |-> 3], [success |-> <<>>]>>],
    OfType(AType(FALSE, <<[name |-> L, type |-> [boolean |-> <<>>]],
                          [type |-> [array |-> [packed |-> TRUE, elements |-> 3,
                                                type |-> [float |-> [format |-> 32, exponent |-> 8]]]]]>>)),
    OfType(AType(TRUE, <<[name |-> L, type |-> [bitString |-> -13]], [type |-> [integer |-> 128]], [type |-> [unsigned |-> 8]]>>)),
    OfType(AType(TRUE, <<[name |-> L, type |-> [octetString |-> 64]], [type |-> [visibleString |-> -255]],
                         [type |-> [generalizedTime |-> <<>>]]>>)),
    OfType(AType(FALSE, <<[type |-> [binaryTime |-> TRUE]], [type |-> [bcd |-> 4]], [type |-> [mmsString |-> 9]]>>)),
    OfType(AType(FALSE, <<[type |-> [utcTime |-> <<>>]], [type |-> [other |-> 8]], [type |-> [named |-> OfDomain]]>>)),
    [getListAttributes |-> [deletable |-> TRUE, variables |-> <<WholeOf(OfDomain)>>]],
    [defineList |-> <<>>], [fileClose |-> <<>>], [fileDelete |-> <<>>],
    [deleteList |-> [matched |-> 1, deleted |-> 40000]],
    [readJournal |-> [entries |-> <<AnEntry([annotation |-> L])>>, more |-> TRUE]],
    [readJournal |-> [entries |-> <<AnEntry([data |-> [variables |-> <<[tag |-> L, value |-> AStructure]>>]])>>, more |-> FALSE]],
    [fileOpen |-> [handle |-> 1, attributes |-> [size |-> 65535, modified |-> BA]]],
    [fileOpen |-> [handle |-> -1, attributes |-> [size |-> 0]]],
    [fileRead |-> [data |-> <<1, 2, 3>>, more |-> TRUE]], [fileRead |-> [data |-> <<>>, more |-> FALSE]],
    [fileDirectory |-> [entries |-> <<>>, more |-> FALSE]],
    [fileDirectory |-> [entries |-> <<[name |-> AFile, attributes |-> [size |-> 7]],
                                      [name |-> <<>>, attributes |-> [size |-> 200, modified |-> L]]>>, more |-> TRUE]],
    [other |-> [tag |-> Prim(3), octets |-> <<>>]]}

Terms == [localDetail |-> 200, calling |-> 5, called |-> 1, nesting |-> 5,
          detail |-> [version |-> 1, parameters |-> [unused |-> 5, bits |-> <<241, 0>>], services |-> [unused |-> 0, bits |-> <<>>]]]

MCPdus ==
    {[request |-> [id |-> 1, service |-> r]] : r \in MCRequests}
    \cup {[response |-> [id |-> 200, service |-> r]] : r \in MCResponses}
    \cup {[error |-> [id |-> 40000, error |-> AnError(2)]],
          [error |-> [id |-> 0, modifier |-> 200, error |-> AnError(2)]],
          [unconfirmed |-> [report |-> [access |-> [list |-> OfVmd], results |-> <<[success |-> Unnamed]>>]]],
          [unconfirmed |-> [other |-> [tag |-> Built(1), octets |-> <<5, 0>>]]],
          [reject |-> [id |-> 40000, reason |-> [tag |-> 1, code |-> 4]]], [reject |-> [reason |-> [tag |-> 5, code |-> 1]]],
          [cancelRequest |-> 200], [cancelResponse |-> 0], [cancelError |-> [id |-> 5, error |-> AnError(1)]],
          [initiateRequest |-> Terms], [initiateResponse |-> [f \in {"calling", "called", "detail"} |-> Terms[f]]],
          [initiateError |-> [tag |-> Built(10), octets |-> <<5, 0>>]], [concludeRequest |-> <<>>],
          [concludeResponse |-> <<>>], [concludeError |-> [tag |-> Built(13), octets |-> <<>>]],
          [other |-> [tag |-> Built(40), octets |-> <<1>>]]}

\* Values on both sides of every limit.
Falses(n) == [i \in 1 .. n |-> Data("boolean", FALSE)]
MCValues ==
    {Data("boolean", TRUE), Data("bitString", [unused |-> 2, bits |-> <<192>>]), Data("bitString", [unused |-> 0, bits |-> <<1, 2, 3, 4, 5>>]),
     Data("integer", -129), Data("integer", 8388607), Data("integer", -8388608), Data("unsigned", 0), Data("unsigned", 16777215),
     Data("float", <<8, 1, 2, 3, 4>>), Data("octetString", <<1, 2, 3, 4>>), Data("octetString", <<1, 2, 3, 4, 5>>),
     Data("visibleString", BA), Data("mmsString", <<>>), Data("utcTime", <<1, 2, 3, 4, 5, 6, 7, 8>>), Data("binaryTime", Undated),
     Kept(Prim(13), <<1>>), Kept(Prim(15), <<1, 2, 3, 4, 5>>),
     Data("array", Falses(3)), Data("array", Falses(4)), Data("structure", <<Data("structure", Falses(1))>>),
     Data("structure", <<Data("array", <<Data("structure", Falses(1))>>)>>)}
    \cup {Data("structure", <<a, b>>) : a, b \in {Data("integer", 128), Data("structure", <<>>), Data("array", <<Data("unsigned", 1)>>)}}
MCMessages == MCPdus \cup {[value |-> v] : v \in MCValues}

\* The next octet, the other class, and a primitive made constructed.
MCSpoilt(o) == {(o + 1) % 256, (o + 128) % 256, (o + 32) % 256}
=============================================================================
