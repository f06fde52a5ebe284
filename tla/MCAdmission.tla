----------------------------- MODULE MCAdmission -----------------------------
(* Events on either side of every bar of the default policy. *)
EXTENDS Admission

CONSTANTS i1, i2, i3

Said(kind, names, words) ==
  [kind |-> kind, name |-> "conversation", names |-> names, hyphened |-> {},
   words |-> names \union words]

Reported(name, names, hyphened, words) ==
  [kind |-> "tool_result", name |-> name, names |-> names, hyphened |-> hyphened,
   words |-> names \union hyphened \union words]

MCEvent ==
  { \* worth keeping; nearly the same
    Said("user_message", {"alice", "bob", "turso"}, {"remember", "that", "like", "storage"}),
    Said("user_message", {"alice", "bob", "turso"}, {"should", "that", "like", "storage"}),
    \* worth keeping by a little, with 5 and with 6 of their 8 terms
    Said("assistant_message", {"alice", "bob", "turso", "nodamem"}, {"that", "storage"}),
    Said("assistant_message", {"alice", "bob", "turso", "nodamem"}, {"that", "like", "storage"}),
    \* tools, two of them with short names
    Reported("cargo", {"sqlite"}, {"memory-store"}, {"cargo", "failed", "remember"}),
    Reported("rg", {}, {"no-match"}, {"learned"}),
    Reported("gh", {}, {}, {"failed", "should", "retry"}) }

Interchangeable == Permutations(Ingestion)

MCShort == {"rg", "gh"}
=============================================================================
