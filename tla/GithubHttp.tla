----------------------------- MODULE GithubHttp -----------------------------
(***************************************************************************)
(* The shared GitHub REST client (.github/scripts/_gitapex_github_http.py): *)
(* one call made of up to max attempts.  What an attempt meets is           *)
(* GitHub's: whether the request was carried out, and the answer, which may *)
(* be lost after it was.                                                    *)
(***************************************************************************)
EXTENDS Naturals, FiniteSets

\* code "transient": a 5xx, or no whole answer (code 0: connection refused,
\* time-out, truncated body).  A transient answer does not say whether the
\* request was carried out; "client" is any 4xx.
Attempt == {a \in [code : {"ok", "client", "transient"}, applied : BOOLEAN] :
                /\ a.code = "ok" => a.applied
                /\ a.code = "client" => ~a.applied}

\* The loop of request_with_retry ends on a 2xx and on a 4xx.
Final(a) == a.code # "transient"

\* The attempt whose answer a call with the scripted attempts rs returns: the
\* first final one, or the last.
FinalAttempt(rs) ==
    CHOOSE i \in DOMAIN rs : /\ Final(rs[i]) \/ i + 1 \notin DOMAIN rs
                             /\ \A j \in 1..(i - 1) : ~Final(rs[j])

\* request_with_retry: the answer of the last attempt and how often GitHub
\* carried the request out.
request_with_retry(rs) ==
    [code    |-> rs[FinalAttempt(rs)].code,
     applied |-> Cardinality({i \in 1..FinalAttempt(rs) : rs[i].applied})]

\* All that one call of max attempts can come to.
Outcomes(max) == {request_with_retry(rs) : rs \in [1..max -> Attempt]}

\* Seconds a call of max attempts takes at most: each attempt waits for the
\* socket time-out, and attempt k < max is followed by a sleep of 5k.
LongestCall(max, timeout) == max * timeout + (5 * max * (max - 1)) \div 2
=============================================================================
