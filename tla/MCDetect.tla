------------------------------ MODULE MCDetect ------------------------------
(* Detect for TLC: one stream for each way through ReadRequest.             *)
EXTENDS Detect

Get == <<"GET", "text", "http1">>

MCStreams == {
    \* a plain request, a body, and a further request
    Get \o <<"length", "blank", "data", "data">> \o Get \o <<"text", "other", "blank">>,
    \* a guess that reads over its buffer and still finds a request, and what follows it
    <<"GET", "http1", "blank", "GET", "http1", "other", "GET", "http1", "blank">>,
    \* lines that are longer than the buffer, and HTTP/1.0
    <<"GET", "text", "text", "text", "text", "http1", "blank">>,
    Get \o <<"text", "text", "text", "text", "other", "blank">>,
    <<"GET", "text", "http0", "blank", "data", "data">>,
    \* a long request, a malformed one, a tunnel
    Get \o <<"chunked", "blank", "data", "data">>,
    Get \o <<"bad", "blank">>,
    <<"CONNECT", "text", "http1", "other", "blank", "data", "data">>,
    \* after a request the connection carries something else: data, what begins like a
    \* request, what begins like SOCKS5
    Get \o <<"blank", "data", "data">>,
    Get \o <<"blank", "GET", "text", "other", "data">>,
    Get \o <<"blank", "05", "data", "data", "data">>,
    \* no HTTP from the start
    <<"GET", "text", "other", "data", "data">>,
    <<"05", "text", "cmd", "addr", "port", "data", "data">>,
    <<"data", "data", "data">>}
=============================================================================
