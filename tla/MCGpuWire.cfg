SPECIFICATION Spec
INVARIANTS
  RoundTrip
  Canonical
  CommandsExact
  AnswersExact
  AdmittedIsEncodable
