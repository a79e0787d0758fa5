------------------------------ MODULE MCServer ------------------------------
(* Requests of every method, in both addressing styles, and signatures in  *)
(* every state for a few of them.                                          *)
EXTENDS Server, TLC

Plain == "router"
Vhost == "b.router"
MCHostBucket == Vhost :> "b"

Good == [header |-> TRUE, malformed |-> FALSE, known |-> TRUE,
         date |-> "fresh", signed |-> TRUE]

Credentials ==
    [header : BOOLEAN, malformed : BOOLEAN, known : BOOLEAN,
     date : {"missing", "garbled", "skewed", "fresh"}, signed : BOOLEAN]

Paths == {<<"/">>, <<"/", "b">>, <<"/", "b", "/">>, <<"/", "b", "/", "k">>,
          <<"/", "/", "k">>}

Queries == {{}, {"prefix"}, {"list-type"}, {"uploads"}, {"uploadId"},
            {"uploadId", "partNumber"}, {"acl"}, {"tagging"}, {"delete"},
            {"acl", "tagging"}, {"uploadId", "partNumber", "tagging"},
            {"uploadId", "list-type"}, {"delete", "uploadId"}}

Methods == {"GET", "HEAD", "PUT", "DELETE", "POST"}

MCRequests ==
    [method : Methods, host : {Plain, Vhost}, path : Paths, query : Queries,
     auth : {Good}]
    \cup
    [method : {"GET", "PUT"}, host : {Plain},
     path : {<<"/", "b">>, <<"/", "b", "/", "k">>}, query : {{}, {"X-Amz-Signature"}}, auth : Credentials]
=============================================================================
