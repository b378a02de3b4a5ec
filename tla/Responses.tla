------------------------------ MODULE Responses ------------------------------
(***************************************************************************)
(* From what a handler returns to the status its client sees.              *)
(*                                                                         *)
(* A handler writes its own success and returns nil, returns a ServerError *)
(* made by servererrors.New, or returns any other error.  MakeHandler      *)
(* writes the second kind with its status if that is one of the five it    *)
(* lists; of others it writes nothing, and net/http then sends 200.  A     *)
(* handler that panics is cut off by net/http without an answer.           *)
(***************************************************************************)
EXTENDS Naturals

BadRequest == 400
Unauthorized == 401
Forbidden == 403
Conflict == 409
Unprocessable == 422
InternalServerError == 500

NoAnswer == 0   \* not answered yet
Aborted  == 1   \* the handler panicked

Statuses == {200, 201, BadRequest, Unauthorized, Forbidden, Conflict,
             Unprocessable, InternalServerError, NoAnswer, Aborted}

ServerError(status) == [server |-> TRUE, status |-> status]
OtherError == [server |-> FALSE, status |-> InternalServerError]

MakeHandler(err) ==
  IF ~err.server THEN InternalServerError
  ELSE IF err.status \in {BadRequest, Conflict, Unprocessable, Unauthorized, Forbidden}
       THEN err.status ELSE 200

(* A request's body, as far as the handlers tell bodies apart: not JSON,    *)
(* the JSON null, fields that break their validate tags, or sound.          *)
Bodies == {"malformed", "null", "invalid", "valid"}

(* ParseJSON decodes null into a nil pointer without an error.              *)
ParseJSON(body) == body # "malformed"

(* StructFields lists the fields that break their tags; given a nil pointer *)
(* the validator returns an error of another type, and the conversion of it *)
(* panics.                                                                  *)
StructFields(body) ==
  IF body = "valid" THEN "ok" ELSE IF body = "invalid" THEN "fields" ELSE "panic"

(* What a handler that parses and validates answers to a body not sound.    *)
Refusal(body) ==
  IF ~ParseJSON(body) THEN MakeHandler(ServerError(BadRequest))
  ELSE IF StructFields(body) = "fields" THEN MakeHandler(ServerError(Unprocessable))
  ELSE Aborted
=============================================================================
