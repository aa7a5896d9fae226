--------------------------------- MODULE MCEdge ---------------------------------
(* Small instances of the server's edge, where messages, connections and sound come
   in: the secure channel, the pairing page, the admission of connections, the
   recordings that phones upload, and the desktop's own recorder with its detector of
   speech.  The page and the admission share the credentials; a behaviour is of one
   part, chosen at the start. *)
EXTENDS SecureChannel, PairingPage, RemoteAdmission, AudioUpload, Microphone, TLC

VARIABLE part
soundVars == <<uploadVars, microphoneVars>>
edgeVars == <<channelVars, pageVars, admissionVars, soundVars, part>>
pageOnly == <<refreshing, page, image, encoding, missed, handle, wanted, unseen, task,
              target, announced>>
admissionOnly == <<connection, peer, used, sessions, overtaken, failures, rates, failed,
                   granted>>

CONSTANTS h1, h2, c1, c2
SomeNetworks == {<< >>, <<h1>>, <<h1, h2>>}
SizeOf(message) == message

EdgeInit ==
    /\ part \in {"channel", "page", "admission", "upload", "sampler", "voice"}
    /\ ChannelInit /\ PageInit /\ AdmissionInit
    /\ part # "page" => addresses = <<h1>>
    /\ UploadInit
    /\ MicrophoneInit /\ (part # "sampler" => resampler.step = Parts)

EdgeNext ==
    /\ UNCHANGED part
    /\ \/ /\ part = "channel" /\ ChannelNext
          /\ UNCHANGED <<pageVars, admissionVars, soundVars>>
       \/ /\ part = "page" /\ PageNext
          /\ UNCHANGED <<channelVars, admissionOnly, soundVars>>
       \/ /\ part = "admission" /\ AdmissionNext
          /\ UNCHANGED <<channelVars, pageOnly, soundVars>>
          /\ code' <= 2 /\ addresses' # <<h1, h2>>
       \/ /\ part = "upload" /\ UploadNext
          /\ UNCHANGED <<channelVars, pageVars, admissionVars, microphoneVars>>
       \/ /\ part = "sampler" /\ SamplerNext
          /\ UNCHANGED <<channelVars, pageVars, admissionVars, uploadVars>>
       \/ /\ part = "voice" /\ HearFrame
          /\ UNCHANGED <<channelVars, pageVars, admissionVars, uploadVars>>

\* A part that is not run has no step that it owes.
EdgeFairness == ChannelFairness /\ WF_pageVars(part = "page" /\ MdnsStep)

EdgeSpec == EdgeInit /\ [][EdgeNext]_edgeVars /\ EdgeFairness

\* What the desktop shows of its pairing code, and what it tells the network of its
\* address, are up to date and agree (qr, maintain_mdns).
PageAndNetworkAreCurrent == PageIsCurrent /\ AnnouncedIsChosen

\* The sound that the program works on is what was recorded, whole and in order,
\* whether a phone or the desktop recorded it (AudioAssembler, InputNormalizer,
\* SampleBuffer, VoiceActivityDetector).
SoundIsWhole == UploadsAreWhole /\ RecordingsAreWhole
================================================================================
