---------------------------- MODULE MCEnumSerial ----------------------------
(***************************************************************************)
(* Registries in which keys name the same port, some without a friendly    *)
(* name and some without port, and device lists with properties missing or *)
(* empty.                                                                  *)
(***************************************************************************)
EXTENDS EnumSerial, FiniteSets

Key(p, f) == [port |-> p, friendly |-> f]
Friendly(n) == <<"ACME", " (">> \o ComPort(n) \o <<")">>

Pnp0500 == [pnp |-> TRUE, keys |-> <<Key(ComPort(1), Friendly(1)), Key(ComPort(1), Missing)>>]
Pnp0501 == [pnp |-> TRUE, keys |-> <<Key(Missing, Friendly(2)), Key(ComPort(2), Friendly(2))>>]
Mouse == [pnp |-> FALSE, keys |-> <<Key(ComPort(3), Missing)>>]

Serial == [pnp |-> TRUE, keys |-> <<Key(ComPort(3), <<"Serial", " (", "a", ")", "Port">>)>>]

RegistrySet == {
    <<[usb |-> FALSE, subs |-> <<Pnp0500, Mouse, Pnp0501>>],
      [usb |-> TRUE, subs |-> <<Mouse, [pnp |-> FALSE, keys |-> <<Key(ComPort(1), Friendly(1))>>]>>]>>,
    <<[usb |-> FALSE, subs |-> <<Serial, Mouse>>], [usb |-> TRUE, subs |-> <<Mouse, Serial>>]>>,
    <<[usb |-> TRUE, subs |-> <<>>], [usb |-> FALSE, subs |-> <<Pnp0501, Serial, Pnp0501>>]>>}

Device1 == [path |-> Path(<<"d1">>), friendly |-> Friendly(1), desc |-> <<"ACME">>, usb |-> FALSE]
Device2 == [path |-> Path(<<"d2">>), friendly |-> Empty, desc |-> Empty, usb |-> TRUE]
Device3 == [path |-> Path(<<"d3">>), friendly |-> Friendly(3), desc |-> Missing, usb |-> FALSE]
Device4 == [path |-> Path(<<"d4">>), friendly |-> <<"ACME", " (", "rev 2", ")">> \o Friendly(4), desc |-> Empty, usb |-> FALSE]

DeviceSet == {<<Device1, Device3, Device2, Device4>>, <<Device2, Device1>>, <<>>}

\* The names above are sensible: Presentable is proved of such.
ASSUME SensibleNames == Sensible
=============================================================================
