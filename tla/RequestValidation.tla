-------------------------- MODULE RequestValidation --------------------------
(***************************************************************************)
(* What the global ValidationPipe of main.ts lets through to the           *)
(* controller: the implicit conversion of each property of the body to     *)
(* String, then the validators of SendNotificationDto.  A value is         *)
(* abstracted to what conversion and validators tell apart.                *)
(***************************************************************************)
EXTENDS Naturals

\* Strings: uuid (version 4), mail (an e-mail address), text (any other), long
\* (beyond the MaxLength of its property) and empty; and what is no string.
Strings == {"uuid", "mail", "text", "long", "empty"}

Values == Strings \cup {"missing", "null", "array", "number", "object"}

DtoChannels == {"email", "sms", "push"}

\* extra: a property the DTO does not have.
Bodies == [idempotencyKey : Values, userId : Values, channel : DtoChannels \cup Values,
           recipient : Values, subject : Values, message : Values, extra : BOOLEAN]

\* enableImplicitConversion: String(value), but arrays stay arrays, and null and
\* undefined stay what they are.
Converted(v) == IF v \in {"number", "object"} THEN "text" ELSE v

IsNotEmpty(v) == v \notin {"missing", "null", "empty"}

\* IsString, IsNotEmpty and MaxLength.
IsGivenText(v) == IsNotEmpty(v) /\ v \in Strings \ {"long"}

\* Mutant of OnlyForEmail: the condition is negated.
ExceptForEmail(body) == body.channel # "email"

\* ValidateIf turns off all validators of its property, not only the next one.
OnlyForEmail(body) == body.channel = "email"

Validators(body) ==
  /\ body.idempotencyKey = "uuid"
  /\ IsGivenText(body.userId)
  /\ body.channel \in DtoChannels
  /\ OnlyForEmail(body) => IsGivenText(body.recipient) /\ body.recipient = "mail"
  /\ OnlyForEmail(body) => IsGivenText(body.subject)
  /\ IsGivenText(body.message)

\* forbidNonWhitelisted refuses a body with an extra property.
Dto(body) ==
  [f \in DOMAIN body |-> IF f = "extra" THEN body.extra ELSE Converted(body[f])]

Passes(body) == ~body.extra /\ Validators(Dto(body))
=============================================================================
