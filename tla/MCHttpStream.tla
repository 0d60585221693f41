---------------------------- MODULE MCHttpStream ----------------------------
(* Small instances of HttpStream for TLC.                                  *)
EXTENDS HttpStream

Kind(head, body, form, routed, keepAlive) ==
    [head |-> head, body |-> body, longUri |-> FALSE, keep |-> keepAlive,
     form |-> form, routed |-> routed, json |-> "none"]

(* Requests whose header and body together stay below the header limit.    *)
Ordinary == {Kind(1, 0, "plain", TRUE, TRUE), Kind(2, 0, "plain", FALSE, TRUE),
             Kind(2, 1, "plain", TRUE, FALSE)}
(* Bodies sent as JSON, the second of which is not.                        *)
Json == {[Kind(2, 2, "plain", TRUE, TRUE) EXCEPT !.json = "good"],
         [Kind(1, 1, "plain", TRUE, TRUE) EXCEPT !.json = "bad"]}
Streams == {Kind(1, 0, "sse", TRUE, TRUE), Kind(2, 0, "sse", FALSE, TRUE),
            Kind(2, 0, "ws", TRUE, TRUE)}
Refused == {[Kind(1, 0, "plain", TRUE, TRUE) EXCEPT !.longUri = TRUE],
            Kind(5, 0, "plain", TRUE, TRUE)}
OverLimit == {Kind(1, 7, "plain", TRUE, TRUE)}
Unrouted == {Kind(2, 0, "ws", FALSE, TRUE)}

(* A body that does not fit the buffer but is below the body limit.       *)
Huge == {Kind(1, 6, "plain", TRUE, TRUE)}

All == Ordinary \cup Json \cup Streams \cup Refused \cup OverLimit \cup Unrouted \cup Huge

(* A quiet client, a slow one, one that leaves, one that asks ahead, one   *)
(* that does all of this and idles, and one with requests of any size;     *)
(* over TLS, a quiet client with requests of any size, and one that leaves *)
(* within requests it sends in parts.                                      *)
Various == {{}, {"lags"}, {"hangsUp"}, {"asksAhead"}, {"asksAhead", "hangsUp", "lags", "idles"},
            {"floods", "idles"}, {"tls", "floods"}, {"tls", "hangsUp", "splits"}}
=============================================================================
