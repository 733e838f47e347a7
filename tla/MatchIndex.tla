----------------------------- MODULE MatchIndex -----------------------------
(* The question bank in memory: LocalQuestionIndex of search/__init__.py and  *)
(* its QuestionMatcher of search/matching.py.  Records are kept by identifier *)
(* in a dictionary, in an order of their own, and in the slots of three       *)
(* inverted indexes which every addition, edit and removal changes in place.  *)
(* The methods hold the lock of the index, so each of them is one step.       *)
EXTENDS Integers, Sequences, FiniteSets

CONSTANTS
    Ids,            \* question_id
    Grams,          \* n-grams; the key of a title is the set of its n-grams
    Signatures,     \* normalised options, in the order of the page
    NoOptions,      \* the signature of a question without options
    Contents,       \* what a record may say
    Similarity(_, _),   \* of two title keys: "strong", "weak" or "none"
    CandidateLimit, \* FUZZY_CANDIDATE_LIMIT: 80
    CompactSlots,   \* 1024
    MaxSlots        \* bound: slots of the matcher, entries of the order

ContentType ==
    [ title : SUBSET Grams, options : Signatures, kind : {"choice", "blank", "other"},
      ai : BOOLEAN, reviewed : BOOLEAN, matchable : BOOLEAN ]

ASSUME MatchAssumption ==
    /\ Contents \subseteq ContentType /\ NoOptions \in Signatures
    /\ CandidateLimit \in Nat /\ CompactSlots \in Nat /\ MaxSlots \in Nat
    /\ IsFiniteSet(Ids) /\ \A c \in Contents : IsFiniteSet(c.title)

Gone == [id |-> "gone"]

VARIABLES
    records,    \* _records_by_id: what is known of each identifier
    keys,       \* the order of that dictionary
    order,      \* _record_order, removed entries included
    position,   \* _record_order_positions; 0 is none
    matcher     \* _matcher: the slots, where each record is, the three indexes

matchVars == <<records, keys, order, position, matcher>>

Known(id) == records[id] # Gone
KeyOf(c) == [kind |-> c.kind, title |-> c.title, options |-> c.options]
MatchKeys == [kind : {"choice", "blank", "other"}, title : SUBSET Grams, options : Signatures]

(* The place of id in a sequence in which no identifier is twice; 0 is none *)
PlaceIn(s, id) ==
    IF \E i \in DOMAIN s : s[i] = id THEN CHOOSE i \in DOMAIN s : s[i] = id ELSE 0

-----------------------------------------------------------------------------
(* QuestionMatcher *)

(* _add_record_indexes *)
Indexed(m, i, id, c) ==
    [ slots  |-> m.slots,
      slotOf |-> [m.slotOf EXCEPT ![id] = i],
      exact  |-> [m.exact EXCEPT ![KeyOf(c)] = @ \cup {i}],
      title  |-> [m.title EXCEPT ![c.title] = @ \cup {i}],
      gram   |-> [g \in Grams |-> IF g \in c.title THEN m.gram[g] \cup {i} ELSE m.gram[g]] ]

(* Faulty variant: the entry under the title stays behind *)
UnindexedKeys(m, i, id, c) ==
    [ slots  |-> m.slots,
      slotOf |-> [m.slotOf EXCEPT ![id] = 0],
      exact  |-> [m.exact EXCEPT ![KeyOf(c)] = @ \ {i}],
      title  |-> m.title,
      gram   |-> [g \in Grams |-> IF g \in c.title THEN m.gram[g] \ {i} ELSE m.gram[g]] ]

(* _remove_record_indexes *)
Unindexed(m, i, id, c) ==
    [ slots  |-> m.slots,
      slotOf |-> [m.slotOf EXCEPT ![id] = 0],
      exact  |-> [m.exact EXCEPT ![KeyOf(c)] = @ \ {i}],
      title  |-> [m.title EXCEPT ![c.title] = @ \ {i}],
      gram   |-> [g \in Grams |-> IF g \in c.title THEN m.gram[g] \ {i} ELSE m.gram[g]] ]

(* upsert: an indexed record keeps its slot, another one gets a new slot *)
Upserted(m, id, c) ==
    LET i == m.slotOf[id]
        n == Len(m.slots) + 1
        row == [id |-> id, content |-> c]
    IN IF i # 0
       THEN Indexed([Unindexed(m, i, id, m.slots[i].content) EXCEPT !.slots[i] = row], i, id, c)
       ELSE Indexed([m EXCEPT !.slots = Append(@, row)], n, id, c)

(* remove: the slot stays empty for ever *)
Removed(m, id) ==
    LET i == m.slotOf[id]
    IN IF i = 0 THEN m
       ELSE [Unindexed(m, i, id, m.slots[i].content) EXCEPT !.slots[i] = Gone]

(* a record that is not matchable leaves the matcher, any other one enters it *)
Kept(m, id, c) == IF c.matchable THEN Upserted(m, id, c) ELSE Removed(m, id)

(* A new matcher of the records r in the order s.  The code numbers the slots *)
(* of the matchable records only; a slot number is nothing but a name.        *)
Built(s, r) ==
    LET row(i) == IF r[s[i]].matchable THEN [id |-> s[i], content |-> r[s[i]]] ELSE Gone
        at(P(_)) == {i \in DOMAIN s : r[s[i]].matchable /\ P(r[s[i]])}
    IN [ slots  |-> [i \in 1..Len(s) |-> row(i)],
         slotOf |-> [id \in Ids |-> IF PlaceIn(s, id) # 0 /\ r[id].matchable THEN PlaceIn(s, id) ELSE 0],
         exact  |-> [k \in MatchKeys |-> at(LAMBDA c : KeyOf(c) = k)],
         title  |-> [t \in SUBSET Grams |-> at(LAMBDA c : c.title = t)],
         gram   |-> [g \in Grams |-> at(LAMBDA c : g \in c.title)] ]

-----------------------------------------------------------------------------
(* Lookups: a question is a content too, of which ai, reviewed and matchable *)
(* say nothing.                                                              *)

(* record_options_match, and ordered_option_similarity of at least 0.92 of two *)
(* lists of at most twelve options                                             *)
SameOptions(c, q) == c.options = q.options
Choice(c, q) == "choice" \in {c.kind, q.kind}
BothOptions(c, q) == NoOptions \notin {c.options, q.options}

(* valid_candidates *)
Valid(c, q) == c.ai => SameOptions(c, q)

(* title_key_candidate_is_safe *)
TitleSafe(c, q) == c.ai \/ (Choice(c, q) /\ BothOptions(c, q)) => SameOptions(c, q)

(* fuzzy_candidate_is_safe, for records people wrote *)
FuzzySafe(c, q) ==
    /\ ~ c.ai
    /\ {c.options, q.options} # {NoOptions}
    /\ \/ /\ Similarity(c.title, q.title) = "strong"
          /\ Choice(c, q) /\ BothOptions(c, q) => SameOptions(c, q)
       \/ /\ Similarity(c.title, q.title) = "weak"
          /\ IF Choice(c, q) THEN BothOptions(c, q) /\ SameOptions(c, q) ELSE q.kind = "blank"

(* the rows among R that satisfy P of their content *)
Fitting(R, P(_)) == {x \in R : x # Gone /\ P(x.content)}

(* rank_by_option_and_review: reviewed records first *)
BestOf(R) == IF \E x \in R : x.content.reviewed THEN {x \in R : x.content.reviewed} ELSE R

(* What a question may be answered with, given the rows the three indexes *)
(* name: by its key, else by its title, else by the n-grams of the title. *)
Answer(exact, title, recalled, q) ==
    LET byKey   == Fitting(exact, LAMBDA c : Valid(c, q))
        byTitle == Fitting(title, LAMBDA c : Valid(c, q) /\ TitleSafe(c, q))
    IN IF byKey # {} THEN BestOf(byKey)
       ELSE IF byTitle # {} THEN BestOf(byTitle)
       ELSE Fitting(recalled, LAMBDA c : FuzzySafe(c, q))

(* Counter.most_common: as many of what h counts as the limit allows, and none *)
(* is left out that counts more than one of them.  Which of equals are taken    *)
(* depends on the order in which sets are enumerated: any of them may be.       *)
MostCommon(h) ==
    {R \in SUBSET DOMAIN h :
        /\ Cardinality(R) <= CandidateLimit
        /\ R = DOMAIN h \/ Cardinality(R) = CandidateLimit
        /\ \A i \in R, j \in DOMAIN h \ R : h[i] >= h[j]}

Stored(I) == {matcher.slots[i] : i \in I}

(* how many n-grams of the title name each slot *)
Hits(t) ==
    [i \in UNION {matcher.gram[g] : g \in t} |-> Cardinality({g \in t : i \in matcher.gram[g]})]

(* recall_candidate_indexes: the slots it may return *)
Recalled(t) == MostCommon(Hits(t))

(* exact_match, then fuzzy_match: the answers they may find *)
LookUp(q) ==
    {Answer(Stored(matcher.exact[KeyOf(q)]), Stored(matcher.title[q.title]), Stored(R), q) :
        R \in Recalled(q.title)}

-----------------------------------------------------------------------------
(* LocalQuestionIndex *)

(* records: the places of the order a snapshot takes its records from *)
Shown == {p \in DOMAIN order : position[order[p]] = p /\ Known(order[p])}

(* s, in which no identifier is twice, without the entry of id *)
Without(s, id) ==
    LET i == PlaceIn(s, id)
    IN IF i = 0 THEN s ELSE SubSeq(s, 1, i - 1) \o SubSeq(s, i + 1, Len(s))

(* _compact_record_order_if_needed *)
Ordered(o, pos, ks) ==
    IF Len(o) > CompactSlots /\ Len(o) > 2 * Len(ks)
    THEN order' = ks /\ position' = [id \in Ids |-> PlaceIn(ks, id)]
    ELSE order' = o /\ position' = pos

MatchInit ==
    /\ records = [id \in Ids |-> Gone]
    /\ keys = <<>> /\ order = <<>>
    /\ position = [id \in Ids |-> 0]
    /\ matcher = Built(<<>>, records)

AddOrReplace(id, c) ==
    /\ Len(order) < MaxSlots /\ Len(matcher.slots) < MaxSlots
    /\ records' = [records EXCEPT ![id] = c]
    /\ keys' = IF Known(id) THEN keys ELSE Append(keys, id)
    /\ matcher' = Kept(matcher, id, c)
    /\ IF position[id] = 0
       THEN Ordered(Append(order, id), [position EXCEPT ![id] = Len(order) + 1], keys')
       ELSE Ordered(order, position, keys')

RemoveRecord(id) ==
    /\ records' = [records EXCEPT ![id] = Gone]
    /\ keys' = Without(keys, id)
    /\ matcher' = Removed(matcher, id)
    /\ Ordered(order, [position EXCEPT ![id] = 0], keys')

(* an edit changes no order *)
UpdateRecord(id, c) ==
    /\ Known(id) /\ Len(matcher.slots) < MaxSlots
    /\ records' = [records EXCEPT ![id] = c]
    /\ matcher' = Kept(matcher, id, c)
    /\ UNCHANGED <<keys, order, position>>

(* the rows of the table, or of the files at the start: the sequence s of *)
(* different identifiers and what is said of each                         *)
ReplaceRecords(s, r) ==
    /\ records' = [id \in Ids |-> IF PlaceIn(s, id) # 0 THEN r[id] ELSE Gone]
    /\ keys' = s /\ order' = s
    /\ position' = [id \in Ids |-> PlaceIn(s, id)]
    /\ matcher' = Built(s, r)

Orders == {s \in UNION {[1..n -> Ids] : n \in 0..Cardinality(Ids)} :
             \A i, j \in DOMAIN s : s[i] = s[j] => i = j}

MatchNext ==
    \/ \E id \in Ids : RemoveRecord(id) \/ \E c \in Contents : AddOrReplace(id, c) \/ UpdateRecord(id, c)
    \/ \E s \in Orders, r \in [Ids -> Contents] : ReplaceRecords(s, r)

MatchSpec == MatchInit /\ [][MatchNext]_matchVars

-----------------------------------------------------------------------------
MatchTypeOK ==
    /\ records \in [Ids -> Contents \cup {Gone}]
    /\ keys \in Seq(Ids) /\ order \in Seq(Ids)
    /\ position \in [Ids -> Nat]
    /\ matcher \in
         [ slots  : Seq([id : Ids, content : Contents] \cup {Gone}),
           slotOf : [Ids -> Nat],
           exact  : [MatchKeys -> SUBSET Nat],
           title  : [SUBSET Grams -> SUBSET Nat],
           gram   : [Grams -> SUBSET Nat] ]

(* A full scan of the records, which the indexes replace.  It too considers no *)
(* more candidates than the limit, those that share most n-grams with the      *)
(* question.                                                                   *)
Scanned(P(_)) == {id \in Ids : Known(id) /\ records[id].matchable /\ P(records[id])}
RowsWith(X) == {[id |-> id, content |-> records[id]] : id \in X}
Shared(t) ==
    [id \in Scanned(LAMBDA c : c.title \cap t # {}) |-> Cardinality(records[id].title \cap t)]

ScanFor(q) ==
    {Answer(RowsWith(Scanned(LAMBDA c : KeyOf(c) = KeyOf(q))),
            RowsWith(Scanned(LAMBDA c : c.title = q.title)), RowsWith(X), q) :
        X \in MostCommon(Shared(q.title))}

(* The places a snapshot lists are those of the known records, in the order of *)
(* the dictionary.                                                             *)
InOrder ==
    /\ Shown = {position[keys[i]] : i \in DOMAIN keys}
    /\ \A i \in DOMAIN keys : order[position[keys[i]]] = keys[i]
    /\ \A i, j \in DOMAIN keys : i < j => position[keys[i]] < position[keys[j]]

(* Whatever additions, edits, removals and rebuilds came before, the indexes may  *)
(* answer a question just as a scan of the current records may: by its key, its    *)
(* title, or one of the CandidateLimit records that share most n-grams with it     *)
(* (with more of them, a record that fits may be passed over).  Nothing that was   *)
(* removed, replaced or made unusable answers or takes the place of a candidate,   *)
(* and the snapshot lists the records in the order of the dictionary, compactions  *)
(* of the order included.                                                          *)
LooksUpLikeScan ==
    /\ \A q \in Contents : LookUp(q) = ScanFor(q)
    /\ InOrder
=============================================================================
