--------------------------- MODULE MCNymProtocol ----------------------------
(* A small instance of NymProtocol.                                        *)
EXTENDS NymProtocol, TLC

CONSTANTS h1, h2, v1, rogue, n1, n2, short

Day(y, m, d) == [year |-> y, month |-> m, day |-> d]
At(y, mo, d, h, mi, s) ==
  [framed |-> TRUE, date |-> Text(y, mo, d), hour |-> h, minute |-> mi, second |-> s]

\* An IssuerSigned that `key` signed.
Issue(key, type, birth, seed, device, from, until) ==
  LET items == [birth_date |-> birth, ssc |-> sha256("seed", seed)]
      mso == [type |-> type, device_key |-> device, valid_from |-> from, valid_until |-> until,
              digests |-> {sha256("item", item("birth_date", items.birth_date)),
                           sha256("item", item("ssc", items.ssc))}]
  IN  [parses |-> TRUE, mso |-> mso, items |-> items,
       signature |-> Signature(key, sha256("signed", mso))]

From == time(At(2026, 12, 31, 23, 59, 59))
Until == time(At(2027, 1, 1, 0, 0, 0))
Late == time(At(2028, 1, 1, 0, 0, 0))

\* Of age; below it; the adversary's, of age and below; another issuer's.
Adult == Issue("K", "nym_auth", Day(2000, 2, 29), "s1", "d1", From, Late)
Minor == Issue("K", "nym_auth", Day(2009, 1, 1), "s2", "d2", From, Late)
Sold == Issue("K", "nym_auth", Day(1990, 12, 31), "s3", "d3", From, Until)
Young == Issue("K", "nym_auth", Day(2008, 12, 31), "s4", "d4", From, Late)
Foreign == Issue("L", "nym_auth", Day(1990, 12, 31), "s3", "d4", From, Late)

MCWallet ==
  (h1 :> [issuer_signed |-> Adult, seed |-> "s1", device_key |-> "d1"]) @@
  (h2 :> [issuer_signed |-> Minor, seed |-> "s2", device_key |-> "d2"])

MCIssued == {Adult, Minor, Sold, Young, Foreign}

\* Up to a day before Minor's birth; from a day after Adult's; a day short of a year.
MCRanges ==
  {[earliest |-> NO_LOWER_BOUND, cutoff |-> Text(2008, 12, 31)],
   [earliest |-> Text(2000, 3, 1), cutoff |-> NO_UPPER_BOUND],
   [earliest |-> Text(2009, 1, 1), cutoff |-> Text(2009, 12, 30)]}

MCThumbprints == {Null, WrongLength}

MCMoments ==
  <<At(2026, 12, 31, 23, 59, 59), At(2027, 1, 1, 0, 0, 0)>>

\* Wallets with one defect or two, all with the device d1, which the last one's credential
\* does not name.
Defects ==
  LET good == Adult
      lost == Issue("K", "nym_auth", Day(2000, 2, 29), "s1", "d2", From, Late)
  IN  [fine        |-> [issuer_signed |-> good, seed |-> "s1"],
       wrongSeed   |-> [issuer_signed |-> good, seed |-> "s2"],
       shortSeed   |-> [issuer_signed |-> good, seed |-> WrongSeed],
       garbled     |-> [issuer_signed |-> [good EXCEPT !.parses = FALSE], seed |-> "s1"],
       noSsc       |-> [issuer_signed |-> [good EXCEPT !.items = [birth_date |-> @.birth_date]],
                        seed |-> "s1"],
       unlisted    |-> [issuer_signed |-> [good EXCEPT !.items.birth_date = Day(2008, 12, 31)],
                        seed |-> "s1"],
       altered     |-> [issuer_signed |-> [good EXCEPT !.mso.valid_until = time(At(2029, 1, 1, 0, 0, 0))],
                        seed |-> "s2"],
       foreign     |-> [issuer_signed |-> Issue("L", "nym_auth", Day(2000, 2, 29), "s1", "d1", From, Late),
                        seed |-> "s1"],
       otherType   |-> [issuer_signed |-> Issue("K", "pid", Day(2000, 2, 29), "s1", "d1", From, Late),
                        seed |-> "s1"],
       early       |-> [issuer_signed |-> Issue("K", "nym_auth", Day(2000, 2, 29), "s1", "d1", Until, Late),
                        seed |-> "s1"],
       expired     |-> [issuer_signed |-> Issue("K", "nym_auth", Day(2000, 2, 29), "s1", "d1", From, Until),
                        seed |-> "s2"],
       lostDevice  |-> [issuer_signed |-> lost, seed |-> "s1"]]

DefectHolders == DOMAIN Defects
DefectWallet ==
  [h \in DefectHolders |-> [issuer_signed |-> Defects[h].issuer_signed, seed |-> Defects[h].seed,
                            device_key |-> "d1"]]
DefectIssued == {Defects[h].issuer_signed : h \in {"fine", "foreign", "otherType", "early", "expired",
                                                  "lostDevice"}}
=============================================================================
