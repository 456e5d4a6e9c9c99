--------------------------- MODULE MCDhcpMessage ---------------------------
EXTENDS DhcpMessage

TypeOptions == {<<MESSAGE_TYPE, 1, t>> : t \in {DISCOVER, REQUEST, DECLINE, RELEASE}}
\* Also: values of a wrong length, addresses outside the pool and of another
\* network, an empty and a too long identifier, data that looks like options.
OtherOptions ==
  {<<PAD>>, <<END>>, <<MESSAGE_TYPE, 2, 1, 3>>,
   <<SERVER_ID, 2, 1, 1>>, <<SERVER_ID, 2, 1, 7>>,
   <<REQUESTED_IP, 2, 1, 2>>, <<REQUESTED_IP, 2, 9, 2>>, <<REQUESTED_IP, 2, 1, 9>>,
   <<REQUESTED_IP, 1, 2>>, <<PARAMETER_LIST, 2, 1, 3>>, <<12, 2, MESSAGE_TYPE, 1>>,
   <<CLIENT_ID, 0>>, <<CLIENT_ID, 1, 7>>, <<CLIENT_ID, 2, 0, 255>>, <<CLIENT_ID, 3, 7, 7, 7>>}
Options == TypeOptions \cup OtherOptions

Pairs == {a \o b : a \in Options, b \in Options}
Triples == {a \o b \o c : a \in TypeOptions, b \in OtherOptions, c \in OtherOptions}

Plain == [cookie |-> TRUE, ethernet |-> TRUE, op |-> BOOTREQUEST, xid |-> 1,
          broadcast |-> FALSE, ciaddr |-> NoAddr, giaddr |-> NoAddr, chaddr |-> <<8, 8>>]
Headers == {[Plain EXCEPT !.broadcast = TRUE], [Plain EXCEPT !.ciaddr = <<1, 2>>],
            [Plain EXCEPT !.giaddr = <<3, 1>>], [Plain EXCEPT !.op = BOOTREPLY],
            [Plain EXCEPT !.cookie = FALSE], [Plain EXCEPT !.ethernet = FALSE]}

Datagram(fixed, options) == [short |-> FALSE, fixed |-> fixed, options |-> options]
Short == [short |-> TRUE, fixed |-> Plain, options |-> <<>>]

MCDatagrams ==
  {Datagram(Plain, o) : o \in Triples \cup UNION {Prefixes(p) : p \in Pairs}}
  \cup {Datagram(f, t \o o) : f \in Headers, t \in TypeOptions, o \in OtherOptions}
  \cup {Short}

\* Another client's, each with all fields.
Full(type) == <<MESSAGE_TYPE, 1, type, CLIENT_ID, 2, 5, 5, REQUESTED_IP, 2, 1, 3,
                SERVER_ID, 2, 1, 1>>
MCEarlier ==
  {Datagram([Plain EXCEPT !.xid = 2, !.chaddr = <<4, 4>>], Full(t)) : t \in {DISCOVER, REQUEST}}
  \cup {Short, Datagram(Plain, <<CLIENT_ID, 1, 5, REQUESTED_IP, 1>>)}

ThePool == {2, 3}
TheServer == <<1, 1>>
=============================================================================
