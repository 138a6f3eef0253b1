----------------------------- MODULE MCMdocAge -----------------------------
EXTENDS MdocAge

MCNameLen == [mDL |-> 21, mdlns |-> 17, photoid |-> 23, dtc |-> 19, iso |-> 15, hiid |-> 24]

Item(salt, id, encoding, element, date) ==
    [salt |-> salt, id |-> id, encoding |-> encoding, element |-> element, date |-> date]

\* Salts and digestIDs on both sides of every width.  1 and 4 are minors; the
\* dates of 4 and 5 stand at the same offset; no issuer signed 9.
MCItems == <<
    Item(16, <<0>>, "Bare", "birth_date", 20130506),
    Item(24, <<24, 24>>, "Bare", "birth_date", 20080131),
    Item(16, <<7>>, "Bare", "issue_date", 20000101),
    Item(24, <<5>>, "PhotoIdMap", "birth_date", 20130506),
    Item(23, <<25, 1, 0>>, "PhotoIdMap", "birth_date", 19990909),
    Item(32, <<26, 2, 0, 0, 0>>, "PhotoIdMap", "birth_date", 20010203),
    Item(16, <<1>>, "Masked", "birth_date", 19900101),
    Item(16, <<23>>, "Bare", "birth_date", 19500101),
    Item(16, <<2>>, "Bare", "birth_date", 19000101) >>

\* The second device's key spells the digest of an item its holder made up.
MCDevices ==
    [d \in {"d1", "d2", "d3", "d4", "d5", "d6", "d7"} |->
        <<IF d = "d2" THEN ItemDigest(9) ELSE Literal(d, 32), Literal(d, 32)>>]
Ns(name, items) == [name |-> name, items |-> items]
Cred(issuer, doc_type, from, until, device, namespaces) ==
    [issuer |-> issuer, doc_type |-> doc_type, from |-> from, until |-> until,
     device |-> device, namespaces |-> namespaces]

\* Two mDLs that a verifier cannot tell apart; a Photo ID with two
\* birth dates in two of its three namespaces; one with a date in a map and
\* one with a masked date; a longer name, signed by an issuer of its own.
MCCredentials == <<
    Cred("state", "mDL", 20250101, 20270101, "d1", <<Ns("mdlns", <<3, 2>>)>>),
    Cred("state", "mDL", 20260101, 20260801, "d2",
         <<Ns("mdlns", <<1, 3>>)>>),
    Cred("state", "photoid", 20250101, 20270101, "d3",
         <<Ns("iso", <<4>>), Ns("dtc", <<3, 5>>), Ns("photoid", <<2>>)>>),
    Cred("state", "photoid", 20250101, 20260701, "d4", <<Ns("iso", <<6>>)>>),
    Cred("state", "photoid", 20250101, 20300101, "d5", <<Ns("iso", <<7>>)>>),
    Cred("other", "hiid", 20250101, 20270101, "d6", <<Ns("hiid", <<8>>)>>) >>

\* With an mDL of 24 entries, the first number whose map header has two bytes.
Filler(k) == Item(16, <<24, 100 + k>>, "Bare", "issue_date", 20000101)
LongItems == MCItems \o [k \in 1..23 |-> Filler(k)]
LongCredentials ==
    Append(MCCredentials,
           Cred("state", "mDL", 20250101, 20270101, "d7",
                <<Ns("mdlns", <<2>> \o [k \in 1..23 |-> Len(MCItems) + k])>>))

Session(digest, cutoff, now, policy, issuers, acc) ==
    [device_auth_digest |-> digest, cutoff |-> cutoff, now |-> now, policy |-> policy,
     issuers |-> issuers, accepted |-> acc]

\* A birthday on the cutoff, a credential that has expired, a trust list.
MCSessions == <<
    Session("a", 20080131, 20260701, "Only", {"state"},
            {<<"mDL", "mdlns">>, <<"photoid", "iso">>}),
    Session("b", 20100101, 20270101, "Only", {"state"},
            {<<"photoid", "iso">>, <<"photoid", "dtc">>}),
    Session("c", 20050101, 20260701, "CallerChecksTrustList", {},
            {<<"hiid", "hiid">>, <<"mDL", "mdlns">>}) >>

MCEarlier == {<<1, 2>>, <<3, 1>>, <<2, 1>>}

\* The longest credential fills the buffer.
MCMaxSig == Max({Len(SigStructure(c)) : c \in Range(Credentials)})

\* What the wallets of this instance prove about has room.
ASSUME MCAssumption == WithinBudget

\* Every field alone; in pairs the ones that say which digest is whose, the published
\* namespace and what it is read as, and bytes behind the signed ones with an offset
\* that may point at them.
MCChanges ==
    {{f} : f \in Fields}
    \cup {{"digest_offset", "item"}, {"digest_offset", "num_entries"},
          {"region_start", "namespace_offset"}, {"namespace_key", "namespace"},
          {"namespace_key", "num_entries"}}
    \cup {{"behind", f} : f \in {"validity_info", "doc_type_key", "device_key_info"}}

\* Pairs are tried on the credential whose device key spells a digest and on the
\* one with three namespaces, with the items issuers signed and the one they did not;
\* bytes behind the signed ones on the credential that expires.
SmallPairs ==
    Cardinality(changed) = 2 =>
        /\ draft.cred \in (IF "behind" \in changed THEN {4} ELSE {2, 3})
        /\ draft.item \in DOMAIN MCItems
        /\ draft.num_entries <= 4

\* The two selections of the namespace apart: one credential with three namespaces, whose
\* holder moves the start of the region, in this order, to where the walk can begin.
PhotoId == <<MCCredentials[3]>>
AdultSession == <<MCSessions[1]>>
NoEarlier == {}
ApartChanges ==
    LET order == <<"namespace_offset", "region_start", "digest_offset", "item">>
    IN  {Range(SubSeq(order, 1, k)) : k \in DOMAIN order}
RegionFollows == "region_start" \in changed => draft.region_start = region_start(draft)
=============================================================================
