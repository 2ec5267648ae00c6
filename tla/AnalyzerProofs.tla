---------------------------- MODULE AnalyzerProofs ----------------------------
(* What Analyzer promises for any number of blacklists, any cap and any    *)
(* inputs: its types, the caps of the checks, that an outage of DNS is no  *)
(* fault of the mail, that DMARC is fair, and that the score is honest.    *)
EXTENDS Analyzer, TLAPS

(* The penalties of SPF stay within the documented 2.0.                    *)
LEMMA SpfCosts ==
    ASSUME NEW r \in Answers, NEW e \in SpfResults \cup {"unset"}
    PROVE  SpfCost(r, e) \in 0..200 /\ (r = "fails" => SpfCost(r, e) = 0)
<1>1. SpfPenalty[e] \in 0..200
  BY DEF SpfPenalty, SpfResults
<1> QED
  BY <1>1 DEF SpfCost

(* The content checks together cost 2.9 at most.                           *)
LEMMA ContentCosts ==
    ASSUME NEW u \in BOOLEAN, NEW body \in BodyCosts[u], NEW subject \in SubjectCosts
    PROVE  body + subject \in 0..290
<1>1. PICK b \in Bodies : body = BodyCost(b, u)
  BY DEF BodyCosts
<1>2. body \in 0..240
  BY <1>1 DEF BodyCost, When
<1>3. subject \in 0..50
  BY DEF SubjectCosts, When
<1> QED
  BY <1>2, <1>3

(* A charge within its cap.                                                *)
LEMMA Charged ==
    ASSUME AnalyzerTypeOK, NEW s \in DOMAIN Cap, NEW p \in 0..Cap[s], Charge(s, p)
    PROVE  CapsKept' /\ total' \in Nat
<1>1. Cap[s] \in Nat
  BY AnalyzerAssumption DEF Cap
<1>2. last'.section = s /\ last'.points = p /\ total' = total + p
  BY DEF Charge
<1> QED
  BY <1>1, <1>2 DEF CapsKept, AnalyzerTypeOK, Cap

(* What a mail starts with is of its type.                                 *)
LEMMA Fresh ==
    /\ NoAuth \in [spf : SpfResults \cup {"unset"},
                   by : Relations \cup {"none", "broken", "unnamed"},
                   verified : {"unset", "yes", "no"}]
    /\ NoQueries \in [out : Nat, listed : Nat]
    /\ NoResult \in [score : Int, grade : {"none", "Excellent", "Good", "Average", "Poor"}]
<1>1. NoAuth \in [spf : SpfResults \cup {"unset"},
                 by : Relations \cup {"none", "broken", "unnamed"},
                 verified : {"unset", "yes", "no"}]
  BY DEF NoAuth
<1>2. NoQueries \in [out : Nat, listed : Nat]
  BY DEF NoQueries
<1>3. NoResult \in [score : Int, grade : {"none", "Excellent", "Good", "Average", "Poor"}]
  BY DEF NoResult
<1> QED
  BY <1>1, <1>2, <1>3

(* Every check keeps the types and charges within its cap.                 *)
LEMMA TypeStep ==
    AnalyzerTypeOK /\ CapsKept /\ [AnalyzerNext]_analyzerVars => AnalyzerTypeOK' /\ CapsKept'
<1> SUFFICES ASSUME AnalyzerTypeOK, CapsKept, [AnalyzerNext]_analyzerVars
             PROVE  AnalyzerTypeOK' /\ CapsKept'
  OBVIOUS
<1> USE AnalyzerAssumption
<1>0. /\ mail \in Mails /\ mail.levels \in Nat
      /\ queries.out \in Nat /\ queries.listed \in Nat
  BY DEF AnalyzerTypeOK, Mails
<1>1. CASE Spf
  <2>1. PICK r \in Answers, e \in SpfResults \cup {"unset"} :
           /\ auth' = [auth EXCEPT !.spf = e]
           /\ outage' = (outage /\ r = "fails")
           /\ Charge("spf", SpfCost(r, e))
    BY <1>1 DEF Spf
  <2>2. CapsKept' /\ total' \in Nat
    BY <2>1, SpfCosts, Charged DEF Cap
  <2> QED
    BY <1>1, <2>1, <2>2 DEF Spf, AnalyzerTypeOK, Phases
<1>2. CASE Dkim
  <2>1. PICK by \in Relations \cup {"none", "broken", "unnamed"}, key \in Answers,
             v \in {"unset", "yes", "no"}, o \in BOOLEAN :
           /\ auth' = [auth EXCEPT !.by = by, !.verified = v]
           /\ outage' = o
           /\ Charge("dkim", DkimCost(by, key, v))
    BY <1>2 DEF Dkim, Verified
  <2>2. DkimCost(by, key, v) \in 0..150
    BY DEF DkimCost, When
  <2>3. CapsKept' /\ total' \in Nat
    BY <2>1, <2>2, Charged DEF Cap
  <2>4. auth' \in [spf : SpfResults \cup {"unset"},
                   by : Relations \cup {"none", "broken", "unnamed"},
                   verified : {"unset", "yes", "no"}]
    BY <2>1 DEF AnalyzerTypeOK
  <2> QED
    BY <1>2, <2>1, <2>3, <2>4 DEF Dkim, AnalyzerTypeOK, Phases
<1>3. CASE DmarcLookup
  <2>1. PICK answer \in Answers : /\ walk' = Append(walk, answer)
                                  /\ outage' = (outage /\ answer = "fails")
    BY <1>3 DEF DmarcLookup
  <2>2. walk' \in Seq(Answers) /\ Len(walk') = Len(walk) + 1 /\ Len(walk) < mail.levels
    BY <1>3, <2>1 DEF DmarcLookup, AnalyzerTypeOK
  <2> QED
    BY <1>0, <1>3, <2>1, <2>2 DEF DmarcLookup, AnalyzerTypeOK, CapsKept
<1>4. CASE Dmarc
  <2>1. PICK p, a, d : Charge("dmarc", DmarcCost(p, a, d))
    BY <1>4 DEF Dmarc
  <2>2. DmarcCost(p, a, d) \in 0..100
    BY DEF DmarcCost, When
  <2>3. CapsKept' /\ total' \in Nat
    BY <2>1, <2>2, Charged DEF Cap
  <2> QED
    BY <1>4, <2>3 DEF Dmarc, AnalyzerTypeOK, Phases
<1>5. CASE Headers
  <2>1. PICK missing : /\ unsub' = ("List-Unsubscribe" \notin missing)
                       /\ Charge("headers", HeaderCost(missing))
    BY <1>5 DEF Headers
  <2>2. HeaderCost(missing) \in 0..150
    BY DEF HeaderCost, When
  <2>3. CapsKept' /\ total' \in Nat
    BY <2>1, <2>2, Charged DEF Cap
  <2>4. walk' \in Seq(Answers) /\ Len(walk') = 0
    BY <1>5 DEF Headers
  <2> QED
    BY <1>0, <1>5, <2>1, <2>3, <2>4 DEF Headers, AnalyzerTypeOK, Phases, NoAuth
<1>6. CASE Connection
  <2>1. PICK tls : Charge("connection", When(~tls, 50) + When(mail.helo = "bare", 30))
    BY <1>6 DEF Connection
  <2>2. When(~tls, 50) + When(mail.helo = "bare", 30) \in 0..80
    BY DEF When
  <2>3. CapsKept' /\ total' \in Nat
    BY <2>1, <2>2, Charged DEF Cap
  <2> QED
    BY <1>6, <2>3 DEF Connection, AnalyzerTypeOK, Phases
<1>7. CASE Rdns
  <2>1. PICK name, forward, matches, greeted :
           /\ outage' = (outage /\ name = "fails")
           /\ Charge("rdns", RdnsCost(name, forward, matches, greeted))
    BY <1>7 DEF Rdns
  <2>2. RdnsCost(name, forward, matches, greeted) \in 0..70
    BY DEF RdnsCost, When
  <2>3. CapsKept' /\ total' \in Nat
    BY <2>1, <2>2, Charged DEF Cap
  <2> QED
    BY <1>7, <2>1, <2>3 DEF Rdns, AnalyzerTypeOK, Phases
<1>8. CASE Collect
  <2>1. PICK answer : /\ queries' = [out |-> queries.out - 1,
                                     listed |-> queries.listed + When(Listed(answer), 1)]
                      /\ outage' = (outage /\ (answer = {"fails"} \/ "refusal" \in answer))
    BY <1>8 DEF Collect
  <2>2. queries' \in [out : Nat, listed : Nat]
    BY <1>0, <1>8, <2>1 DEF Collect, When
  <2> QED
    BY <1>8, <2>1, <2>2 DEF Collect, AnalyzerTypeOK, CapsKept
<1>9. ASSUME NEW n \in Nat
      PROVE  ListCost(40, n) \in 0..200 /\ ListCost(100, n) \in 0..200
  BY <1>9 DEF ListCost, AtMost
<1>10. CASE Blacklists
  <2>1. CapsKept' /\ total' \in Nat
    BY <1>0, <1>9, <1>10, Charged DEF Blacklists, Cap
  <2> QED
    BY <1>10, <2>1 DEF Blacklists, AnalyzerTypeOK, Phases, NoQueries
<1>11. CASE Content
  <2>1. PICK body \in BodyCosts[unsub], subject \in SubjectCosts, targets \in Targets :
           /\ Charge("content", body + subject)
           /\ queries' = [out |-> DomainLists * AtMost(targets, URIBL_MAX_DOMAINS), listed |-> 0]
    BY <1>11 DEF Content
  <2>2. body + subject \in 0..290
    BY ContentCosts DEF AnalyzerTypeOK
  <2>3. CapsKept' /\ total' \in Nat
    BY <2>1, <2>2, Charged DEF Cap
  <2>4. AtMost(targets, URIBL_MAX_DOMAINS) \in Nat
    BY DEF AtMost
  <2>5. DomainLists * AtMost(targets, URIBL_MAX_DOMAINS) \in Nat
    BY <2>4
  <2> QED
    BY <1>11, <2>1, <2>3, <2>5 DEF Content, AnalyzerTypeOK, Phases
<1>12. CASE DomainBlacklists
  <2>1. CapsKept' /\ total' \in Nat
    BY <1>0, <1>9, <1>12, Charged DEF DomainBlacklists, Cap
  <2> QED
    BY <1>12, <2>1 DEF DomainBlacklists, AnalyzerTypeOK, Phases, NoQueries
<1>13. CASE Spam
  <2>1. PICK points \in SpamPoints \cup {0} : Charge("spam", AtMost(points, SPAM_PENALTY_CAP))
    BY <1>13 DEF Spam, SpamAnswers, SpamPenalty
  <2>2. AtMost(points, SPAM_PENALTY_CAP) \in 0..SPAM_PENALTY_CAP
    BY DEF AtMost
  <2>3. CapsKept' /\ total' \in Nat
    BY <2>1, <2>2, Charged DEF Cap
  <2> QED
    BY <1>13, <2>3 DEF Spam, AnalyzerTypeOK, Phases
<1>14. CASE Score
  BY <1>14 DEF Score, ScoreOf, Grade, AnalyzerTypeOK, Phases, CapsKept
<1>15. CASE NextMail
  <2>1. mail' \in Mails /\ mail'.levels \in Nat
    BY <1>15 DEF NextMail, Mails
  <2>2. walk' \in Seq(Answers) /\ Len(walk') = 0
    BY <1>15 DEF NextMail
  <2>3. /\ auth' = NoAuth /\ queries' = NoQueries /\ result' = NoResult
        /\ phase' = "spf" /\ unsub' = FALSE /\ total' = 0 /\ outage' = TRUE
        /\ last' = [section |-> "none", points |-> 0]
    BY <1>15 DEF NextMail
  <2>4. CapsKept'
    BY <2>3 DEF CapsKept, Cap
  <2>5. phase' \in Phases /\ unsub' \in BOOLEAN /\ outage' \in BOOLEAN /\ total' \in Nat
    BY <2>3 DEF Phases
  <2>6. Len(walk') <= mail'.levels
    BY <2>1, <2>2
  <2>7. /\ auth' \in [spf : SpfResults \cup {"unset"},
                      by : Relations \cup {"none", "broken", "unnamed"},
                      verified : {"unset", "yes", "no"}]
        /\ queries' \in [out : Nat, listed : Nat]
        /\ result' \in [score : Int, grade : {"none", "Excellent", "Good", "Average", "Poor"}]
    BY <2>3, Fresh, Zenon
  <2> QED
    BY <2>1, <2>2, <2>4, <2>5, <2>6, <2>7, Zenon DEF AnalyzerTypeOK
<1>16. CASE UNCHANGED analyzerVars
  BY <1>16 DEF analyzerVars, AnalyzerTypeOK, CapsKept
<1> QED
  BY <1>1, <1>2, <1>3, <1>4, <1>5, <1>6, <1>7, <1>8, <1>10, <1>11, <1>12, <1>13, <1>14,
     <1>15, <1>16 DEF AnalyzerNext

(* The types, and no check costs more than its cap, for any inputs.        *)
LEMMA Typed == AnalyzerSpec => [](AnalyzerTypeOK /\ CapsKept)
<1>1. ASSUME Begin
      PROVE  AnalyzerTypeOK /\ CapsKept
  <2>1. mail \in Mails /\ mail.levels \in Nat
    BY <1>1, AnalyzerAssumption DEF Begin, Mails
  <2>2. walk \in Seq(Answers) /\ Len(walk) = 0
    BY <1>1 DEF Begin
  <2>3. CapsKept
    BY <1>1 DEF Begin, CapsKept, Cap
  <2>4. /\ auth = NoAuth /\ queries = NoQueries /\ result = NoResult
        /\ phase = "spf" /\ unsub = FALSE /\ total = 0 /\ outage = TRUE
    BY <1>1 DEF Begin
  <2>5. phase \in Phases /\ unsub \in BOOLEAN /\ outage \in BOOLEAN /\ total \in Nat
    BY <2>4 DEF Phases
  <2>6. Len(walk) <= mail.levels
    BY <2>1, <2>2
  <2>7. /\ auth \in [spf : SpfResults \cup {"unset"},
                     by : Relations \cup {"none", "broken", "unnamed"},
                     verified : {"unset", "yes", "no"}]
        /\ queries \in [out : Nat, listed : Nat]
        /\ result \in [score : Int, grade : {"none", "Excellent", "Good", "Average", "Poor"}]
    BY <2>4, Fresh, Zenon
  <2> QED
    BY <2>1, <2>2, <2>3, <2>5, <2>6, <2>7, Zenon DEF AnalyzerTypeOK
<1> QED
  BY <1>1, TypeStep, PTL DEF AnalyzerSpec

(* AnalyzerTypeOK for any inputs.                                          *)
THEOREM AnalyzerTyped == AnalyzerSpec => []AnalyzerTypeOK
BY Typed, PTL

(* The documented caps for any number of lists, any cap of SpamAssassin,   *)
(* and whatever the lookups answer.                                        *)
THEOREM CapsAreKept == AnalyzerSpec => []CapsKept
BY Typed, PTL

-----------------------------------------------------------------------------
(* While nothing answers, the walk holds failures only and no list has     *)
(* named the mail: what the later checks cost follows from that.           *)
Silence ==
    outage => (\A i \in 1..Len(walk) : walk[i] = "fails") /\ queries.listed = 0

LEMMA SilenceStep ==
    AnalyzerTypeOK /\ Silence /\ OutageForgiven /\ [AnalyzerNext]_analyzerVars
        => Silence' /\ OutageForgiven'
<1> SUFFICES ASSUME AnalyzerTypeOK, Silence, OutageForgiven, [AnalyzerNext]_analyzerVars
             PROVE  Silence' /\ OutageForgiven'
  OBVIOUS
<1>0. mail.levels \in Nat /\ walk \in Seq(Answers)
  BY AnalyzerAssumption DEF AnalyzerTypeOK, Mails
<1>1. CASE Spf
  <2>1. PICK r \in Answers, e \in SpfResults \cup {"unset"} :
           outage' = (outage /\ r = "fails") /\ Charge("spf", SpfCost(r, e))
    BY <1>1 DEF Spf
  <2>2. outage' => last'.points = 0
    BY <2>1, SpfCosts DEF Charge
  <2> QED
    BY <1>1, <2>1, <2>2 DEF Spf, Silence, OutageForgiven
<1>2. CASE Dkim
  <2>1. PICK by, key, v :
           /\ auth' = [auth EXCEPT !.by = by, !.verified = v]
           /\ outage' => outage /\ (by \in {"none", "broken"} \/ key = "fails")
           /\ Charge("dkim", DkimCost(by, key, v))
    BY <1>2, Zenon DEF Dkim, Verified
  <2>2. auth'.by = by
    BY <2>1 DEF AnalyzerTypeOK
  <2>3. outage' => last'.points = 0 \/ auth'.by \in {"none", "broken"}
    BY <2>1, <2>2 DEF Charge, DkimCost
  <2>4. last'.section = "dkim"
    BY <2>1 DEF Charge
  <2>5. Silence'
    BY <1>2, <2>1 DEF Dkim, Silence
  <2> QED
    BY <2>3, <2>4, <2>5 DEF OutageForgiven
<1>3. CASE DmarcLookup
  <2>1. PICK answer \in Answers : /\ walk' = Append(walk, answer)
                                  /\ outage' = (outage /\ answer = "fails")
    BY <1>3 DEF DmarcLookup
  <2>2. ASSUME outage', NEW i \in 1..Len(walk')
        PROVE  walk'[i] = "fails"
    <3>1. answer = "fails" /\ \A j \in 1..Len(walk) : walk[j] = "fails"
      BY <2>1, <2>2, Zenon DEF Silence
    <3> QED
      BY <1>0, <2>1, <2>2, <3>1
  <2>3. Silence'
    BY <1>3, <2>1, <2>2 DEF DmarcLookup, Silence
  <2> QED
    BY <1>3, <2>1, <2>3 DEF DmarcLookup, OutageForgiven
<1>4. CASE Dmarc
  <2>1. PICK p, a, d : Charge("dmarc", DmarcCost(p, a, d))
    BY <1>4 DEF Dmarc
  <2>2. ASSUME outage, mail.levels # 0
        PROVE  DmarcCost(p, a, d) = 0
    <3>1. ~Found
      BY <2>2 DEF Found, Silence
    <3>2. Len(walk) = mail.levels
      BY <1>4, <3>1 DEF Dmarc
    <3>3. 1 \in 1..Len(walk) /\ walk[1] = "fails"
      BY <1>0, <2>2, <3>2 DEF Silence
    <3> QED
      BY <3>1, <3>3 DEF DmarcCost, Missing, When
  <2> QED
    BY <1>4, <2>1, <2>2 DEF Dmarc, Charge, Silence, OutageForgiven
<1>5. CASE Headers
  <2>1. last'.section = "headers" /\ Len(walk') = 0
    BY <1>5 DEF Headers, Charge
  <2> QED
    BY <1>5, <2>1 DEF Headers, Silence, OutageForgiven
<1>6. CASE Connection
  BY <1>6 DEF Connection, Charge, Silence, OutageForgiven
<1>7. CASE Rdns
  <2>1. PICK name, forward, matches, greeted :
           /\ outage' => outage /\ name = "fails"
           /\ Charge("rdns", RdnsCost(name, forward, matches, greeted))
    BY <1>7, Zenon DEF Rdns
  <2>2. outage' => last'.points = 0
    BY <2>1 DEF Charge, RdnsCost, When
  <2> QED
    BY <1>7, <2>1, <2>2 DEF Rdns, Silence, OutageForgiven
<1>8. CASE Collect
  <2>1. PICK answer : /\ queries' = [out |-> queries.out - 1,
                                     listed |-> queries.listed + When(Listed(answer), 1)]
                      /\ outage' => outage /\ (answer = {"fails"} \/ "refusal" \in answer)
    BY <1>8, Zenon DEF Collect
  <2>2. outage' => ~Listed(answer)
    BY <2>1 DEF Listed
  <2>3. outage' => outage /\ queries'.listed = 0
    BY <2>1, <2>2 DEF When, Silence
  <2> QED
    BY <1>8, <2>3 DEF Collect, Silence, OutageForgiven
<1>9. ListCost(40, 0) = 0 /\ ListCost(100, 0) = 0
  BY DEF ListCost, AtMost
<1>10. CASE Blacklists
  BY <1>9, <1>10 DEF Blacklists, Charge, NoQueries, Silence, OutageForgiven
<1>11. CASE Content
  BY <1>11 DEF Content, Charge, Silence, OutageForgiven
<1>12. CASE DomainBlacklists
  BY <1>9, <1>12 DEF DomainBlacklists, Charge, NoQueries, Silence, OutageForgiven
<1>13. CASE Spam
  BY <1>13 DEF Spam, Charge, Silence, OutageForgiven
<1>14. CASE Score
  BY <1>14 DEF Score, Silence, OutageForgiven
<1>15. CASE NextMail
  BY <1>15 DEF NextMail, NoQueries, Silence, OutageForgiven
<1>16. CASE UNCHANGED analyzerVars
  BY <1>16 DEF analyzerVars, Silence, OutageForgiven
<1> QED
  BY <1>1, <1>2, <1>3, <1>4, <1>5, <1>6, <1>7, <1>8, <1>10, <1>11, <1>12, <1>13, <1>14,
     <1>15, <1>16 DEF AnalyzerNext

(* An outage of DNS costs a mail nothing, for any number of lists and      *)
(* labels.                                                                 *)
THEOREM OutageIsForgiven == AnalyzerSpec => []OutageForgiven
<1>1. Begin => Silence /\ OutageForgiven
  BY DEF Begin, NoQueries, Silence, OutageForgiven
<1> QED
  BY <1>1, AnalyzerTyped, SilenceStep, PTL DEF AnalyzerSpec

-----------------------------------------------------------------------------
(* Only Dmarc leads to the headers, and only Score ends an analysis.       *)
LEMMA Arrivals ==
    ASSUME AnalyzerNext
    PROVE  (phase' = "headers" => Dmarc) /\ (phase' = "done" => Score)
<1>1. CASE DmarcLookup \/ Collect
  BY <1>1 DEF DmarcLookup, Collect
<1>2. CASE Connection
  BY <1>2 DEF Connection
<1>3. CASE Spf \/ Dkim \/ Headers \/ Rdns \/ NextMail
  BY <1>3 DEF Spf, Dkim, Headers, Rdns, NextMail
<1>4. CASE Blacklists \/ Content \/ DomainBlacklists \/ Spam
  BY <1>4 DEF Blacklists, Content, DomainBlacklists, Spam
<1>5. Dmarc => phase' = "headers"
  BY DEF Dmarc
<1>6. Score => phase' = "done"
  BY DEF Score
<1> QED
  BY <1>1, <1>2, <1>3, <1>4, <1>5, <1>6 DEF AnalyzerNext

(* DMARC never costs a mail a point that three lookups do not bear out.    *)
THEOREM DmarcIsFair == AnalyzerSpec => []DmarcFair
<1>1. Begin => DmarcFair
  BY DEF Begin, DmarcFair
<1>2. ASSUME Dmarc
      PROVE  DmarcFair'
  <2>1. PICK p, a, d : Charge("dmarc", DmarcCost(p, a, d))
    BY <1>2 DEF Dmarc
  <2>2. last'.points = DmarcCost(p, a, d)
    BY <2>1 DEF Charge
  <2>3. ASSUME DmarcCost(p, a, d) = 100
        PROVE  \/ ~Found /\ Missing
               \/ /\ Found
                  /\ auth.spf # "unset" \/ auth.verified # "unset"
                  /\ ~(auth.spf = "pass" /\ mail.envelope \in {"none", "same"})
                  /\ ~(auth.verified = "yes" /\ auth.by = "same")
    BY <2>3 DEF DmarcCost, When, Aligned, CheckedSender
  <2>4. ~Found => Len(walk) = mail.levels
    BY <1>2 DEF Dmarc
  <2>5. walk' = walk /\ mail' = mail /\ auth' = auth
    BY <1>2 DEF Dmarc
  <2> QED
    BY <2>2, <2>3, <2>4, <2>5 DEF DmarcFair, Missing, Found
<1>3. ASSUME DmarcFair, UNCHANGED analyzerVars
      PROVE  DmarcFair'
  BY <1>3 DEF analyzerVars, DmarcFair, Found
<1>4. DmarcFair /\ [AnalyzerNext]_analyzerVars => DmarcFair'
  BY <1>2, <1>3, Arrivals DEF DmarcFair
<1> QED
  BY <1>1, <1>4, PTL DEF AnalyzerSpec

(* The score stays within 0 and 10 and agrees with its grade, whatever the *)
(* checks charged.                                                         *)
THEOREM ResultIsHonest == AnalyzerSpec => []ResultHonest
<1>1. Begin => ResultHonest
  BY DEF Begin, ResultHonest
<1>2. ASSUME AnalyzerTypeOK, Score
      PROVE  ResultHonest'
  BY <1>2 DEF AnalyzerTypeOK, Score, ScoreOf, Grade, ResultHonest
<1>3. ASSUME ResultHonest, UNCHANGED analyzerVars
      PROVE  ResultHonest'
  BY <1>3 DEF analyzerVars, ResultHonest
<1>4. AnalyzerTypeOK /\ ResultHonest /\ [AnalyzerNext]_analyzerVars => ResultHonest'
  BY <1>2, <1>3, Arrivals DEF ResultHonest
<1> QED
  BY <1>1, <1>4, AnalyzerTyped, PTL DEF AnalyzerSpec
=============================================================================
