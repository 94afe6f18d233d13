-------------------------- MODULE MCUserSettings ---------------------------
(* Small instances of UserSettings: an item with values for each architecture and one   *)
(* without; a value may be imported; the file at first may be empty, or hold values     *)
(* under the keys used now, or under those used before the by_arch flags changed.       *)
EXTENDS UserSettings, TLC

TwoItems == {"tool", "color"}
OneImported == "color" :> "v1"
OneByArch == {"tool"}

User(archs, contents, overlap, extension) ==
  [archs |-> archs, file |-> contents, overlap |-> overlap, extension |-> extension]

Current == <<"tool", "A">> :> "v1" @@ <<"tool", "B">> :> "v2" @@ <<"color", "any">> :> "v2"
Former == <<"tool", "any">> :> "v1"

Several == { User({"A", "B"}, Empty, FALSE, {"color"}),
             User({"A", "B"}, Current, FALSE, {"color"}),
             User({"A"}, Former, FALSE, {}),
             User({"A"}, <<"color", "A">> :> "v2" @@ Former, FALSE, {}),
             User({"A"}, Empty, TRUE, {"color"}) }
=============================================================================
