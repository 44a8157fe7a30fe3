------------------------- MODULE MCTelegramPolling -------------------------
(* A small instance of TelegramPolling: the first account talks to a person and
   sees a channel, the second account talks to the same person. *)
EXTENDS TelegramPolling

CONSTANTS a1, a2, person, channel

ThreeChats == {<<a1, person>>, <<a1, channel>>, <<a2, person>>}

FewMessages ==
  [c \in ThreeChats |-> IF c = <<a1, person>> THEN 3 ELSE 1]

OneStored ==
  [c \in ThreeChats |-> IF c = <<a1, person>> THEN 1 ELSE 0]
=============================================================================
