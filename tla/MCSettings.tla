----------------------------- MODULE MCSettings -----------------------------
(***************************************************************************)
(* Small instances of Settings and DiscordChat for TLC.  The two share no   *)
(* state: a behaviour is a behaviour of one of them, and the other one      *)
(* stays where it started.                                                  *)
(*                                                                          *)
(* Settings: two models served by the bot itself, one by another provider;  *)
(* two skills that come with the bot and one that is created.               *)
(***************************************************************************)
EXTENDS Settings, DiscordChat

VARIABLE part

MCKeyOrder == <<"small", "big", "cloud">>
MCModelOf == ("small" :> "m1") @@ ("big" :> "m2") @@ ("cloud" :> "m3")
MCSelectors == {<<"big">>, <<"cloud", "small">>}

\* No property names a message.
PostSymmetry == Permutations(Posts)

MCInit == Init /\ ChatInit /\ part \in {"settings", "discord"}

MCNext ==
    \/ part = "settings" /\ Next /\ UNCHANGED <<chatVars, part>>
    \/ part = "discord" /\ ChatNext /\ UNCHANGED <<vars, part>>

MCSpec == MCInit /\ [][MCNext]_<<vars, chatVars, part>>

\* Any two of the commands, reloads and restarts.
Explored == edits + reloads + restarts <= 2
=============================================================================
