------------------------- MODULE MCMdocPresentation -------------------------
\* Two credentials of one issuer with the same digestIDs, one of a key anybody may hold,
\* one with fewer items than slots and one with an item that does not fit its slot.
EXTENDS MdocPresentation

Item(i, v, l) == [id |-> i, val |-> v, len |-> l]

Alice == [key |-> "issuer", items |-> <<Item(1, "alice", 90), Item(30, "over18", 176)>>,
          body |-> "bodyA"]
Bob   == [key |-> "issuer", items |-> <<Item(1, "bob", 88), Item(30, "under18", 170)>>,
          body |-> "bodyB"]
Home  == [key |-> "homemade", items |-> <<Item(1, "carol", 90), Item(30, "over18", 176)>>,
          body |-> "bodyA"]
Short == [key |-> "issuer", items |-> <<Item(0, "dave", 90)>>, body |-> "bodyD"]
Long  == [key |-> "issuer", items |-> <<Item(1, "erin", 177), Item(2, "over18", 90)>>,
          body |-> "bodyE"]

MCCredentials == {Alice, Bob, Home, Short, Long}
MCStrangers == {Item(30, "forged", 176)}
MCFoldedItems == {Bob.items[1]} \cup MCStrangers
=============================================================================
