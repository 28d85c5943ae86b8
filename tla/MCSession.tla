------------------------------ MODULE MCSession ------------------------------
(***************************************************************************)
(* Three devices, two of which share a serial, and the third reports none. *)
(***************************************************************************)
EXTENDS Session

CONSTANTS a, b, c

MCSerial == [d \in Devices |-> IF d = c THEN "" ELSE "s"]
MCPort == [d \in Devices |-> CASE d = a -> 1 [] d = b -> 2 [] d = c -> 3]
MCBuses == {<<>>, <<a>>, <<b, a>>, <<a, c>>, <<c, b, a>>}
MCSelectors ==
    {Only, ByIndex(2), [by |-> "serial", value |-> "s"], [by |-> "serial", value |-> "t"]}

Default == [by |-> "default", value |-> 0]
Named(n) == [by |-> "named", value |-> n]
Command(does, dry, storage) == [does |-> does, dry |-> dry, storage |-> storage]
MCCommands ==
    {Command("ls", FALSE, Default), Command("transfer", TRUE, Default),
     Command("transfer", FALSE, Default), Command("transfer", FALSE, Named("sd"))}
MCOneCommand == {Command("transfer", FALSE, Default)}
MCStorageLists == {<<>>, <<{"internal"}>>, <<{"internal"}, {"sd", "card"}>>}
=============================================================================
