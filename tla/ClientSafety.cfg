SPECIFICATION SuiteSpec
CONSTANTS
    u1 = u1
    u2 = u2
    MaxEvents = 6
    Attempts = 2
    MaxActs = 2
    MaxSessions = 1
    MaxUpsets = 1
CONSTRAINT Few
INVARIANTS TypesOK DevicesFollow SharingAgrees PreferencesHold HeardAgrees SoundComesBack ShownAgrees TextAgrees SpeechAgrees SoundsAgree OverlayAgrees
CHECK_DEADLOCK FALSE
