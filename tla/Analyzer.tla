------------------------------- MODULE Analyzer -------------------------------
(***************************************************************************)
(* The scoring of a mail: Analyzer.analyze of src/processor/analyzer.py,   *)
(* the checks of service.py and content.py it calls, spamd_check, and      *)
(* Score.  The checks run one after another, each charges its points, and  *)
(* every lookup may answer, answer that there is nothing, or fail.  Points *)
(* are hundredths.  Of two domains only their relation matters: the same,  *)
(* kin (one organizational domain), or other.                              *)
(***************************************************************************)
EXTENDS Integers, Sequences

CONSTANTS
    DNSBL_MAX_LISTS,    \* blacklists asked about an IP
    DomainLists,        \* blacklists asked about a domain (DOMAIN_DNSBL_LISTS)
    URIBL_MAX_DOMAINS,  \* domains of a mail that are asked about
    SPAM_PENALTY_CAP,   \* most points SpamAssassin alone can cost
    Levels,             \* inputs: labels of a From domain but one (0 without a dot)
    Targets,            \* inputs: domains of a mail, of its sender and its links
    Sizes,              \* inputs: lengths of a text
    SpamPoints          \* inputs: what SpamAssassin's own content rules sum up to

ASSUME AnalyzerAssumption ==
    /\ {DNSBL_MAX_LISTS, DomainLists, URIBL_MAX_DOMAINS, SPAM_PENALTY_CAP} \subseteq Nat
    /\ Levels \subseteq Nat /\ Levels # {}
    /\ Targets \subseteq Nat /\ Sizes \subseteq Nat /\ SpamPoints \subseteq Nat

VARIABLES
    phase,    \* the check that runs next
    mail,     \* what is known of the mail before the checks
    auth,     \* what SPF and DKIM found, until DMARC has read it
    walk,     \* the answers check_dmarc_record got, nearest name first
    unsub,    \* the mail has a List-Unsubscribe header
    queries,  \* blacklist queries still out, and lists that named the mail
    last,     \* the section charged last, and its points
    total,    \* points lost so far: 10 - Score._score
    outage,   \* history: no lookup of this mail got a usable answer so far
    result    \* the score and the grade of the mail

analyzerVars == <<phase, mail, auth, walk, unsub, queries, last, total, outage, result>>

Answers   == {"yes", "no", "fails"}
Relations == {"same", "kin", "other"}
SpfResults == {"pass", "fail", "softfail", "neutral", "none", "permerror", "temperror"}

(* envelope is the sender's domain against the From domain, "none" for an  *)
(* empty sender; ip says whether the IP is a public one.                   *)
Mails == [ip : BOOLEAN, envelope : Relations \cup {"none"},
          helo : {"none", "fqdn", "bare"}, levels : Levels]

(* verified is unset until a key was found and the signature verified.     *)
NoAuth == [spf |-> "unset", by |-> "none", verified |-> "unset"]
NoQueries == [out |-> 0, listed |-> 0]
NoResult == [score |-> 1000, grade |-> "none"]

AtMost(n, cap) == IF n < cap THEN n ELSE cap
When(condition, points) == IF condition THEN points ELSE 0

(* Score.minus, once for a whole section. *)
Charge(section, points) ==
    /\ last' = [section |-> section, points |-> points]
    /\ total' = total + points

Begin ==
    /\ mail \in Mails
    /\ phase = "spf" /\ auth = NoAuth /\ walk = <<>> /\ unsub = FALSE
    /\ queries = NoQueries /\ total = 0 /\ outage = TRUE
    /\ last = [section |-> "none", points |-> 0]
    /\ result = NoResult

-----------------------------------------------------------------------------
SpfPenalty == [fail |-> 200, softfail |-> 100, neutral |-> 50, none |-> 50,
               permerror |-> 100, temperror |-> 30, pass |-> 0, unset |-> 0]

(* Mutant: a lookup that failed counts as no record. *)
SpfCostStrict(record, evaluated) ==
    IF record # "yes" THEN 200 ELSE SpfPenalty[evaluated]

SpfCost(record, evaluated) ==
    IF record = "fails" THEN 0 ELSE IF record = "no" THEN 200 ELSE SpfPenalty[evaluated]

(* check_spf: the record, and with a public IP what pyspf makes of it.     *)
Spf ==
    /\ phase = "spf"
    /\ \E record \in Answers, evaluated \in SpfResults \cup {"unset"} :
          /\ (evaluated # "unset") <=> (record = "yes" /\ mail.ip)
          /\ auth' = [auth EXCEPT !.spf = evaluated]
          /\ outage' = (outage /\ record = "fails")
          /\ Charge("spf", SpfCost(record, evaluated))
    /\ phase' = "dkim"
    /\ UNCHANGED <<mail, walk, unsub, queries, result>>

DkimCost(signature, key, verified) ==
    IF signature = "none" THEN 150
    ELSE IF signature = "broken" THEN 100
    ELSE IF key = "fails" THEN 0
    ELSE When(key = "no" \/ verified = "no", 150)

(* dkim.verify looks the key up again: when that fails, the signature does *)
(* not verify.                                                             *)
Verified(signature, key, again, good) ==
    IF signature \in {"none", "broken"} \/ key # "yes" THEN "unset"
    ELSE IF again = "yes" /\ good THEN "yes" ELSE "no"

(* check_dkim: a signature without a selector is broken, the key of any    *)
(* other is looked up.  A signature may name no domain.                    *)
Dkim ==
    /\ phase = "dkim"
    /\ \E signature \in Relations \cup {"none", "broken", "unnamed"},
          key, again \in Answers, good \in BOOLEAN :
          LET verified == Verified(signature, key, again, good)
          IN  /\ auth' = [auth EXCEPT !.by = signature, !.verified = verified]
              /\ outage' = (outage /\ (signature \in {"none", "broken"} \/ key = "fails"))
              /\ Charge("dkim", DkimCost(signature, key, verified))
    /\ phase' = "dmarc"
    /\ UNCHANGED <<mail, walk, unsub, queries, result>>

(* check_dmarc_record asks for the From domain, then label by label for    *)
(* shorter names, until one has a record; it goes on when a lookup fails.  *)
Found == \E i \in 1..Len(walk) : walk[i] = "yes"

DmarcLookup ==
    /\ phase = "dmarc"
    /\ ~Found /\ Len(walk) < mail.levels
    /\ \E answer \in Answers :
          /\ walk' = Append(walk, answer)
          /\ outage' = (outage /\ answer = "fails")
    /\ UNCHANGED <<phase, mail, auth, unsub, queries, last, total, result>>

(* domains_aligned: mode is "s" for strict. *)
Aligned(relation, mode) == relation = "same" \/ (relation = "kin" /\ mode # "s")

(* pyspf is asked about postmaster@ the From domain when the sender is     *)
(* empty.                                                                  *)
CheckedSender == IF mail.envelope = "none" THEN "same" ELSE mail.envelope

(* Mutant: a lookup that failed counts as one that found nothing. *)
MissingLenient == ~Found

(* check_dmarc_record returns False, and not None. *)
Missing == \A i \in 1..Len(walk) : walk[i] = "no"

DmarcCost(policy, aspf, adkim) ==
    LET aligned == \/ auth.spf = "pass" /\ Aligned(CheckedSender, aspf)
                   \/ auth.verified = "yes" /\ Aligned(auth.by, adkim)
        evaluated == auth.spf # "unset" \/ auth.verified # "unset"
    IN  IF ~Found THEN When(Missing, 100)
        ELSE IF aligned THEN When(policy = "none", 30)
        ELSE When(evaluated, 100)

Dmarc ==
    /\ phase = "dmarc"
    /\ Found \/ Len(walk) = mail.levels
    /\ \E policy \in {"none", "reject"}, aspf, adkim \in {"r", "s"} :
          Charge("dmarc", DmarcCost(policy, aspf, adkim))
    /\ phase' = "headers"
    /\ UNCHANGED <<mail, auth, walk, unsub, queries, outage, result>>

HeaderCost(missing) ==
    When("Message-ID" \in missing, 50) + When("Date" \in missing, 50)
        + When("List-Unsubscribe" \in missing, 20) + When(mail.envelope = "other", 30)

(* From here on nothing reads what SPF, DKIM and DMARC found. *)
Headers ==
    /\ phase = "headers"
    /\ \E missing \in SUBSET {"Message-ID", "Date", "List-Unsubscribe"} :
          /\ unsub' = ("List-Unsubscribe" \notin missing)
          /\ Charge("headers", HeaderCost(missing))
    /\ auth' = NoAuth /\ walk' = <<>>
    /\ phase' = "connection"
    /\ UNCHANGED <<mail, queries, outage, result>>

(* Without a public IP reverse DNS and the blacklists are skipped. *)
Connection ==
    /\ phase = "connection"
    /\ \E tls \in BOOLEAN :
          Charge("connection", When(~tls, 50) + When(mail.helo = "bare", 30))
    /\ phase' = IF mail.ip THEN "rdns" ELSE "content"
    /\ UNCHANGED <<mail, auth, walk, unsub, queries, outage, result>>

(* check_rdns: a name, its addresses, the IP among them; and whether the   *)
(* HELO name is that name.                                                 *)
RdnsCost(name, forward, matches, greeted) ==
    IF name # "yes" THEN When(name = "no", 50)
    ELSE When(forward = "no" \/ (forward = "yes" /\ ~matches), 50)
             + When(mail.helo # "none" /\ ~greeted, 20)

Rdns ==
    /\ phase = "rdns"
    /\ \E name, forward \in Answers, matches, greeted \in BOOLEAN :
          /\ outage' = (outage /\ name = "fails")
          /\ Charge("rdns", RdnsCost(name, forward, matches, greeted))
    /\ queries' = [out |-> DNSBL_MAX_LISTS, listed |-> 0]
    /\ phase' = "blacklists"
    /\ UNCHANGED <<mail, auth, walk, unsub, result>>

-----------------------------------------------------------------------------
(* What a blacklist answers: the kinds of its addresses, none when the     *)
(* name does not exist; or the query fails or runs out of time.  A refusal *)
(* is 127.255.255.x, from a list of domains 127.0.0.1 as well.             *)
ListAnswers == SUBSET {"refusal", "listing", "other"} \cup {{"fails"}}

(* Mutant: whoever answers with an address has listed the mail. *)
ListedNaively(answer) == answer \notin {{}, {"fails"}}

(* _ip_dnsbl_status and _domain_dnsbl_status. *)
Listed(answer) == "listing" \in answer /\ "refusal" \notin answer

(* as_completed: the threads of the pool come back in any order. *)
Collect ==
    /\ phase \in {"blacklists", "domains"}
    /\ queries.out > 0
    /\ \E answer \in ListAnswers :
          /\ queries' = [out |-> queries.out - 1,
                         listed |-> queries.listed + When(Listed(answer), 1)]
          /\ outage' = (outage /\ (answer = {"fails"} \/ "refusal" \in answer))
    /\ UNCHANGED <<phase, mail, auth, walk, unsub, last, total, result>>

(* Mutant: the points of the lists are not capped. *)
ListCostUncapped(points, listed) == points * listed

ListCost(points, listed) == AtMost(points * listed, 200)

Blacklists ==
    /\ phase = "blacklists"
    /\ queries.out = 0
    /\ Charge("blacklists", ListCost(40, queries.listed))
    /\ queries' = NoQueries
    /\ phase' = "content"
    /\ UNCHANGED <<mail, auth, walk, unsub, outage, result>>

(* Lengths of the plain text, of the text in the HTML, and of the HTML;    *)
(* blank HTML has a length and neither text nor images.                    *)
Bodies ==
    {b \in [plain : Sizes, text : Sizes, html : Sizes, blank : BOOLEAN, images : BOOLEAN,
            bare : BOOLEAN, short : BOOLEAN, link : BOOLEAN] :
        /\ b.text <= b.html
        /\ b.html = 0 => ~b.blank
        /\ b.html = 0 \/ b.blank => b.text = 0 /\ ~b.images
        /\ b.bare => b.images}

(* The text is the plain one, or else the HTML's; its share of the HTML is *)
(* rounded to three places before it is compared with 0.05.                *)
BodyCost(b, listUnsubscribe) ==
    LET length == IF b.plain > 0 THEN b.plain ELSE b.text
    IN  When(b.html > 0 /\ ~b.blank /\ b.plain = 0, 50)
            + When(b.html > 0 /\ 10000 * length < 495 * b.html, 50)
            + When(b.images /\ length < 100, 50) + When(b.bare, 20)
            + When(b.short, 50) + When(~b.link /\ ~listUnsubscribe, 20)

BodyCosts == [u \in BOOLEAN |-> {BodyCost(b, u) : b \in Bodies}]

(* An empty subject; else all capitals, too many exclamation marks. *)
SubjectCosts == {50} \cup {When(capitals, 30) + When(shouted, 20) : capitals, shouted \in BOOLEAN}

(* inspect_content; the domains to ask about are the sender's and those    *)
(* the mail links to, each once.                                           *)
Content ==
    /\ phase = "content"
    /\ \E body \in BodyCosts[unsub], subject \in SubjectCosts, targets \in Targets :
          /\ Charge("content", body + subject)
          /\ queries' = [out |-> DomainLists * AtMost(targets, URIBL_MAX_DOMAINS), listed |-> 0]
    /\ phase' = "domains"
    /\ UNCHANGED <<mail, auth, walk, unsub, outage, result>>

DomainBlacklists ==
    /\ phase = "domains"
    /\ queries.out = 0
    /\ Charge("domains", ListCost(100, queries.listed))
    /\ queries' = NoQueries
    /\ phase' = "spam"
    /\ UNCHANGED <<mail, auth, walk, unsub, outage, result>>

(* spamd may not answer, or find nothing. *)
SpamAnswers == SpamPoints \cup {0}

(* Of its rules, those that repeat a check made here or lower its score    *)
(* are not counted.                                                        *)
SpamPenalty(points) == AtMost(points, SPAM_PENALTY_CAP)

Spam ==
    /\ phase = "spam"
    /\ \E points \in SpamAnswers : Charge("spam", SpamPenalty(points))
    /\ phase' = "score"
    /\ UNCHANGED <<mail, auth, walk, unsub, queries, outage, result>>

(* Mutant: the score may fall below 0. *)
ScoreUnclamped == 1000 - total

ScoreOf == IF total > 1000 THEN 0 ELSE 1000 - total

Grade(score) ==
    IF score >= 900 THEN "Excellent" ELSE IF score >= 700 THEN "Good"
    ELSE IF score >= 500 THEN "Average" ELSE "Poor"

(* Score.result. *)
Score ==
    /\ phase = "score"
    /\ result' = [score |-> ScoreOf, grade |-> Grade(ScoreOf)]
    /\ phase' = "done"
    /\ UNCHANGED <<mail, auth, walk, unsub, queries, last, total, outage>>

(* The worker takes up the next mail. *)
NextMail ==
    /\ phase = "done"
    /\ mail' \in Mails
    /\ phase' = "spf" /\ auth' = NoAuth /\ walk' = <<>> /\ unsub' = FALSE
    /\ queries' = NoQueries /\ total' = 0 /\ outage' = TRUE
    /\ last' = [section |-> "none", points |-> 0]
    /\ result' = NoResult

AnalyzerNext ==
    \/ Spf \/ Dkim \/ DmarcLookup \/ Dmarc \/ Headers \/ Connection \/ Rdns \/ Collect
    \/ Blacklists \/ Content \/ DomainBlacklists \/ Spam \/ Score \/ NextMail

AnalyzerSpec == Begin /\ [][AnalyzerNext]_analyzerVars

-----------------------------------------------------------------------------
Phases == {"spf", "dkim", "dmarc", "headers", "connection", "rdns", "blacklists",
           "content", "domains", "spam", "score", "done"}

(* Types; the walk asks for no name beyond the From domain's. *)
AnalyzerTypeOK ==
    /\ phase \in Phases
    /\ mail \in Mails
    /\ auth \in [spf : SpfResults \cup {"unset"},
                 by : Relations \cup {"none", "broken", "unnamed"},
                 verified : {"unset", "yes", "no"}]
    /\ walk \in Seq(Answers) /\ Len(walk) <= mail.levels
    /\ unsub \in BOOLEAN /\ outage \in BOOLEAN
    /\ queries \in [out : Nat, listed : Nat]
    /\ total \in Nat
    /\ result \in [score : Int, grade : {"none", "Excellent", "Good", "Average", "Poor"}]

(* The most a section may cost, as README's Scoring has it: SPF 2.0, DKIM  *)
(* 1.5, DMARC 1.0, Message-ID and Date 0.5 each, TLS 0.5, reverse DNS 0.5, *)
(* either kind of blacklists 2.0, and SpamAssassin its cap; with the small *)
(* items of headers, connection, reverse DNS and content it leaves out.    *)
Cap == [none |-> 0, spf |-> 200, dkim |-> 150, dmarc |-> 100, headers |-> 150,
        connection |-> 80, rdns |-> 70, blacklists |-> 200, content |-> 290,
        domains |-> 200, spam |-> SPAM_PENALTY_CAP]

(* No check costs more than its cap, whatever the lookups answer (the      *)
(* penalties and min() of analyze).                                        *)
CapsKept == last.section \in DOMAIN Cap /\ last.points \in 0..Cap[last.section]

(* While DNS fails or refuses every lookup, no check that asks it costs    *)
(* anything but what the mail itself shows: an outage, or a resolver the   *)
(* lists refuse, is no fault of the sender (the None of every check, and   *)
(* README's "refused, not listed").                                        *)
OutageForgiven ==
    outage /\ last.section \in {"spf", "dkim", "dmarc", "rdns", "blacklists", "domains"} =>
        \/ last.points = 0
        \/ last.section = "dkim" /\ auth.by \in {"none", "broken"}
        \/ last.section = "dmarc" /\ mail.levels = 0

(* DMARC is held against a mail only when no name was left unasked that    *)
(* might have a record, or when the record was read, SPF or DKIM gave a    *)
(* result, and neither passed for the From domain itself (check_dmarc puts *)
(* three lookups together).  SPF's temperror, an evaluation that raised,   *)
(* is a result here: check_dmarc's evaluated asks only for None.           *)
DmarcFair ==
    last.section = "dmarc" /\ last.points = 100 /\ phase = "headers" =>
        \/ Len(walk) = mail.levels /\ \A i \in 1..Len(walk) : walk[i] = "no"
        \/ /\ Found
           /\ auth.spf # "unset" \/ auth.verified # "unset"
           /\ ~(auth.spf = "pass" /\ mail.envelope \in {"none", "same"})
           /\ ~(auth.verified = "yes" /\ auth.by = "same")

(* The score stays within 0 and 10 and says what was lost, its grade what  *)
(* README's Scoring says of it.                                            *)
ResultHonest ==
    phase = "done" =>
        /\ result.score \in 0..1000
        /\ result.score + total = 1000 \/ (result.score = 0 /\ total > 1000)
        /\ result.grade = "Excellent" <=> total <= 100
        /\ result.grade \in {"Excellent", "Good"} <=> total <= 300
        /\ result.grade # "Poor" <=> total <= 500
=============================================================================
