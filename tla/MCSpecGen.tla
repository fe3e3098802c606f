------------------------------ MODULE MCSpecGen ------------------------------
(* Instances of SpecGen for TLC.                                           *)
EXTENDS SpecGen, TLC

Order == <<"details", "reviews">>

Seg(n) == [name |-> n, param |-> FALSE]
Param(n) == [name |-> n, param |-> TRUE]

NewReview == [name |-> "SubmitReviewRequest", fields |-> {"text", "key"}, omitempty |-> {"key"}]
Strict == [NewReview EXCEPT !.omitempty = {}]
Response == [name |-> "ReviewResponse", fields |-> {"id"}, omitempty |-> {}]
Error == [status |-> 400, type |-> [name |-> "ErrorResponse", fields |-> {"error"}, omitempty |-> {}]]

Get == [method |-> "get", path |-> <<Seg("reviews"), Param("id")>>, id |-> None, tags |-> {},
        event |-> None, request |-> None, response |-> Response, status |-> 0,
        errors |-> {Error, [status |-> 404, type |-> None]}]
GetTwin == [Get EXCEPT !.path = <<Seg("reviews"), Seg("id")>>]
Post == [method |-> "post", path |-> <<Seg("reviews")>>, id |-> None, tags |-> {"writes"},
         event |-> "submitted", request |-> NewReview, response |-> Response, status |-> 0,
         errors |-> {Error}]
Accepted == [Post EXCEPT !.status = 202]

\* Names and keys by their rank; the later name comes first, as in exposed.go of reviews.
Submitted == [name |-> 2, key |-> 3, topic |-> "one", type |-> "submitted", contentType |-> "json",
              payload |-> Response, tags |-> {}]
Deleted == [Submitted EXCEPT !.name = 1, !.type = "deleted", !.tags = {"writes"}]
Moved(d) == [d EXCEPT !.topic = "two"]
Keyless == [Submitted EXCEPT !.key = None, !.topic = None]

Base == [http |-> TRUE, kafka |-> TRUE, bad |-> {}, endpoints |-> <<Get, Post>>, consumed |-> {},
         exposed |-> <<Submitted, Deleted>>]

Variants ==
    {Base,
     [Base EXCEPT !.exposed = <<Moved(Submitted), Deleted>>],
     [Base EXCEPT !.exposed = <<Moved(Submitted), Moved(Deleted)>>],
     [Base EXCEPT !.exposed = <<Keyless, Deleted>>],
     [Base EXCEPT !.endpoints = <<Get, GetTwin>>],
     [Base EXCEPT !.endpoints = <<Post>>],
     [Base EXCEPT !.endpoints = <<Get, [Post EXCEPT !.request = Strict]>>],
     [Base EXCEPT !.endpoints = <<Get, Accepted>>, !.bad = {"kafka"}],
     [Base EXCEPT !.bad = {"http"}],
     [Base EXCEPT !.kafka = FALSE, !.exposed = <<>>, !.consumed = {"details"}],
     [Base EXCEPT !.http = FALSE, !.endpoints = <<>>]}

Gone == [Base EXCEPT !.http = FALSE, !.kafka = FALSE, !.endpoints = <<>>, !.exposed = <<>>]

\* A small service beside the one with every variant.
AllSources ==
    [s \in {"details", "reviews"} |->
        IF s = "reviews" THEN Variants \cup {Gone}
        ELSE {Gone, Base, [Base EXCEPT !.bad = {"kafka"}], [Base EXCEPT !.endpoints = <<Post>>]}]

\* reviews is on main, details is to come.
Begin == [s \in {"details", "reviews"} |-> IF s = "reviews" THEN Base ELSE Gone]
=============================================================================
